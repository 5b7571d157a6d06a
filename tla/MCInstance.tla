------------------------------- MODULE MCInstance -------------------------------
(* Two clients of one process, started with an environment that is whole   *)
(* or wrong in one place, beside migrators that rest once the port is      *)
(* bound: what serves then has every table already.                        *)
EXTENDS Instance

Secret(name, length) == Text([name |-> name, length |-> length])
Address(absolute, scheme, credential, more) ==
    Text([absolute |-> absolute, scheme |-> scheme, credential |-> credential, more |-> more])

Whole ==
    [n \in Names |->
        CASE n = "PORT" -> Text(65535)
          [] n = "MODEL_PROVIDER" -> Text("openai")
          [] n = "COOKFRAME_INGEST_CREDENTIAL" -> Secret("phone", 32)
          [] n = "COOKFRAME_LIBRARY_CREDENTIAL" -> Secret("browser", 33)
          [] n = "PUBLIC_BASE_URL" -> Address(TRUE, "http", FALSE, FALSE)
          [] n = "DATABASE_URL" -> Text("postgresql:")
          [] OTHER -> Text("something")]

SomeEnvironments ==
    {Whole}
    \cup {[Whole EXCEPT ![n] = v] : n \in Names, v \in {Absent, Blank}}
    \cup {[Whole EXCEPT !["PORT"] = Text(p)] : p \in {0, 65536}}
    \cup {[Whole EXCEPT !["MODEL_PROVIDER"] = Text("another")],
          [Whole EXCEPT !["DATABASE_URL"] = Text("mysql:")],
          [Whole EXCEPT !["COOKFRAME_LIBRARY_CREDENTIAL"] = Secret("phone", 32)],
          [Whole EXCEPT !["COOKFRAME_INGEST_CREDENTIAL"] = Secret("phone", 31)]}
    \cup {[Whole EXCEPT !["PUBLIC_BASE_URL"] = a] :
             a \in {Address(FALSE, "none", FALSE, FALSE), Address(TRUE, "ftp", FALSE, FALSE),
                    Address(TRUE, "https", TRUE, FALSE), Address(TRUE, "https", FALSE, TRUE)}}

MigratorsRest ==
    process' \in {"listening", "draining", "closing store", "closing sources"} =>
        UNCHANGED migrationVars /\ \A m \in Migrators : migrator[m].at \in {"idle", "done"}

MCSpec == Init /\ [][Next /\ MigratorsRest]_vars /\ Fairness
=============================================================================
