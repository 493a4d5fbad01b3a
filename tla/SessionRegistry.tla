-------------------------- MODULE SessionRegistry --------------------------
(* What the session pool promises to the processes that share pool.json, the *)
(* MCP server and the CLI commands: a table in which every session id and    *)
(* every profile path occurs at most once, and which one verb changes at a   *)
(* time, whatever the number of processes that read, modify and rewrite it.  *)

VARIABLE table \* the set of entries [id, path, status]

Keyed(t) == \A e, f \in t : e.id = f.id \/ e.path = f.path => e = f

\* Profiles are registered: by login, by an import, by discovery on disk.
Register == table \subseteq table' /\ Keyed(table')

\* One session is dropped.
Drop == \E e \in table : table' = table \ {e}

\* The verdict of a probe is recorded with one session.
Record ==
    \E e \in table, f \in table' :
        /\ f.id = e.id /\ f.path = e.path
        /\ table' = (table \ {e}) \cup {f}

\* The file was damaged and is set aside: the pool starts again, empty.
Lose == table' = {}

RegistrySpec == table = {} /\ [][Register \/ Drop \/ Record \/ Lose]_table
=============================================================================
