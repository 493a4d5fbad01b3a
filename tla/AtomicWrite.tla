---------------------------- MODULE AtomicWrite ----------------------------
(***************************************************************************)
(* Writers that replace one file through a temporary file, as the kernel   *)
(* sees them: names point to inodes, open(.., "w") truncates the inode the *)
(* name points to, rename moves the name, not the writer's descriptor.     *)
(*                                                                         *)
(* Three users of the pattern differ in two respects only:                 *)
(*   job records, status, sidecars  (_atomic_write)      no lock, one name *)
(*   the swarm manifest             (write_manifest)     lock, one name    *)
(*   the session pool               (save_pool)          lock, name by pid *)
(***************************************************************************)
EXTENDS Integers, FiniteSets

CONSTANTS
    Writers,        \* one call of the writer each, from threads or processes
    Uses            \* the uses considered; a behaviour is one of them:
                    \*   locked    the call holds the flock on the .lock file
                    \*   ownTemp   the temporary name is the writer's own
                    \*   faults    a write may raise OSError

ASSUME AtomicWriteAssumption ==
    /\ Uses \subseteq [locked : BOOLEAN, ownTemp : BOOLEAN, faults : BOOLEAN]
    /\ {"nobody", "old", "tmp"} \cap Writers = {}

VARIABLES
    pc,         \* pc[w]: the next statement of writer w
    holder,     \* who holds the flock
    name,       \* name[n]: the inode temporary name n points to
    fd,         \* fd[w]: the inode w has open for writing
    target,     \* the inode the target's name points to
    text,       \* text[i]: what inode i contains
    use         \* the use this behaviour is of

vars == <<pc, holder, name, fd, target, text, use>>

Nobody == "nobody"
Old == "old"                        \* the file before the first of these writes
Inodes == Writers \cup {Old}        \* an inode is named after the writer that created it
Names == Writers \cup {"tmp"}
Temp(w) == IF use.ownTemp THEN w ELSE "tmp"
Ended == {"done", "failed", "dead"}

TypeOK ==
    /\ pc \in [Writers -> {"start", "locked", "opened", "written", "cleanup"} \cup Ended]
    /\ holder \in Writers \cup {Nobody}
    /\ name \in [Names -> Writers \cup {Nobody}]
    /\ fd \in [Writers -> Writers \cup {Nobody}]
    /\ target \in Inodes
    /\ text \in [Inodes -> Inodes \cup {"empty", "mixed"}]
    /\ use \in Uses
    /\ holder # Nobody => pc[holder] \notin Ended

Init ==
    /\ pc = [w \in Writers |-> "start"]
    /\ holder = Nobody
    /\ name = [n \in Names |-> Nobody]
    /\ fd = [w \in Writers |-> Nobody]
    /\ target = Old
    /\ use \in Uses
    /\ text = [i \in Inodes |-> IF i = Old THEN Old ELSE "empty"]

-----------------------------------------------------------------------------
Go(w, from, to) == pc[w] = from /\ pc' = [pc EXCEPT ![w] = to]

Unlock(w) == holder' = IF holder = w THEN Nobody ELSE holder

\* Mutant: the lock is shared.
LockShared(w) ==
    /\ use.locked
    /\ Go(w, "start", "locked")
    /\ holder' = w
    /\ UNCHANGED <<name, fd, target, text, use>>

\* flock(LOCK_EX) blocks while another holds it.
Lock(w) ==
    /\ use.locked /\ holder = Nobody
    /\ Go(w, "start", "locked")
    /\ holder' = w
    /\ UNCHANGED <<name, fd, target, text, use>>

\* open(tmp, "w"): creates the file, or truncates the one the name points to.
Open(w) ==
    LET inode == IF name[Temp(w)] = Nobody THEN w ELSE name[Temp(w)] IN
    /\ Go(w, IF use.locked THEN "locked" ELSE "start", "opened")
    /\ name' = [name EXCEPT ![Temp(w)] = inode]
    /\ fd' = [fd EXCEPT ![w] = inode]
    /\ text' = [text EXCEPT ![inode] = "empty"]
    /\ UNCHANGED <<holder, target, use>>

\* The text goes to offset 0 of the open inode; over a text another writer has
\* put there meanwhile it may leave the tail of the longer one.
Write(w) ==
    /\ Go(w, "opened", "written")
    /\ \E t \in IF text[fd[w]] = "empty" THEN {w} ELSE {w, "mixed"} :
           text' = [text EXCEPT ![fd[w]] = t]
    /\ UNCHANGED <<holder, name, fd, target, use>>

\* Mutant: an error of the write is swallowed and the rename goes ahead.
WriteFailsSilently(w) ==
    /\ use.faults
    /\ Go(w, "opened", "written")
    /\ \E t \in {"empty", "mixed"} : text' = [text EXCEPT ![fd[w]] = t]
    /\ UNCHANGED <<holder, name, fd, target, use>>

\* The disk is full: part of the text may be there.
WriteFails(w) ==
    /\ use.faults
    /\ Go(w, "opened", "cleanup")
    /\ \E t \in {"empty", "mixed"} : text' = [text EXCEPT ![fd[w]] = t]
    /\ UNCHANGED <<holder, name, fd, target, use>>

\* rename(tmp, target): moves the inode the name points to, whoever wrote it.
Replace(w) ==
    /\ name[Temp(w)] # Nobody
    /\ Go(w, "written", "done")
    /\ target' = name[Temp(w)]
    /\ name' = [name EXCEPT ![Temp(w)] = Nobody]
    /\ Unlock(w)
    /\ UNCHANGED <<fd, text, use>>

\* Mutant: the rename is retried until the name exists.
ReplaceRetries(w) ==
    /\ name[Temp(w)] = Nobody
    /\ Go(w, "written", "written")
    /\ UNCHANGED <<holder, name, fd, target, text, use>>

\* The name is gone: FileNotFoundError is an OSError.
ReplaceFails(w) ==
    /\ name[Temp(w)] = Nobody
    /\ Go(w, "written", "cleanup")
    /\ UNCHANGED <<holder, name, fd, target, text, use>>

\* unlink(tmp), whoever created it, and raise.
Cleanup(w) ==
    /\ Go(w, "cleanup", "failed")
    /\ name' = [name EXCEPT ![Temp(w)] = Nobody]
    /\ Unlock(w)
    /\ UNCHANGED <<fd, target, text, use>>

\* The kernel releases the lock of a dead process; the temporary file stays.
Crash(w) ==
    /\ pc[w] \notin Ended
    /\ pc' = [pc EXCEPT ![w] = "dead"]
    /\ Unlock(w)
    /\ UNCHANGED <<name, fd, target, text, use>>

-----------------------------------------------------------------------------
Run(w) ==
    \/ Lock(w) \/ Open(w) \/ Write(w) \/ WriteFails(w)
    \/ Replace(w) \/ ReplaceFails(w) \/ Cleanup(w)

Next == \E w \in Writers : Run(w) \/ Crash(w)

Spec == Init /\ [][Next]_vars
FairSpec == Spec /\ \A w \in Writers : WF_vars(Run(w))

-----------------------------------------------------------------------------
(* Properties *)

\* Writers that take the lock or a name of their own do not meet on one inode.
Apart == use.locked \/ use.ownTemp

\* A reader that opens the target reads the whole text of one writer, or the
\* file as it was, also after a crash: "a crash mid-write leaves the temp file,
\* never a half-written manifest" (_atomic_write_text, save_pool).
NeverTorn == Apart => text[target] \in Inodes

\* A call that returns has published its own text, not another writer's.
ReturnPublishes ==
    [][\A w \in Writers : Apart /\ pc[w] # "done" /\ pc'[w] = "done" => text'[target'] = w]_vars

\* Every call ends, whoever is killed: "a crashed writer cannot wedge later ones".
EveryCallEnds == \A w \in Writers : <>(pc[w] \in Ended)

=============================================================================
