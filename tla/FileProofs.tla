------------------------------ MODULE FileProofs ------------------------------
(***************************************************************************)
(* Proofs about the files the program writes.                              *)
(*                                                                         *)
(* AtomicWrite, for any number of writers: those that take the lock or a   *)
(* name of their own replace the target as if in one step.                 *)
(*                                                                         *)
(* Intake, for any number of requests, processes and inits: what a request *)
(* holds in each phase, whose every name on the disk is, that no step      *)
(* loses what was saved, and that a reply claims no more than was done.    *)
(***************************************************************************)
EXTENDS AtomicWrite, Intake, WellFoundedInduction, TLAPS

\* Every variable keeps its type, and nobody ends while he holds the lock.
THEOREM AtomicWriteTypes == Spec => []TypeOK
<1> USE AtomicWriteAssumption DEF TypeOK, Nobody, Old, Names, Inodes, Ended, Temp
<1>1. Init => TypeOK
  BY DEF Init
<1>2. TypeOK /\ [Next]_vars => TypeOK'
  <2> SUFFICES ASSUME TypeOK, [Next]_vars PROVE TypeOK'
    OBVIOUS
  <2>1. ASSUME NEW w \in Writers, Lock(w) PROVE TypeOK'
    BY <2>1 DEF Lock, Go
  <2>2. ASSUME NEW w \in Writers, Open(w) PROVE TypeOK'
    BY <2>2 DEF Open, Go
  <2>3. ASSUME NEW w \in Writers, Write(w) PROVE TypeOK'
    <3>1. PICK t \in {w, "mixed"} : text' = [text EXCEPT ![fd[w]] = t]
      BY <2>3 DEF Write
    <3>2. text' \in [Inodes -> Inodes \cup {"empty", "mixed"}]
      BY <3>1
    <3> QED
      BY <2>3, <3>2 DEF Write, Go
  <2>4. ASSUME NEW w \in Writers, WriteFails(w) PROVE TypeOK'
    <3>1. PICK t \in {"empty", "mixed"} : text' = [text EXCEPT ![fd[w]] = t]
      BY <2>4 DEF WriteFails
    <3>2. text' \in [Inodes -> Inodes \cup {"empty", "mixed"}]
      BY <3>1
    <3> QED
      BY <2>4, <3>2 DEF WriteFails, Go
  <2>5. ASSUME NEW w \in Writers, Replace(w) PROVE TypeOK'
    BY <2>5 DEF Replace, Go, Unlock
  <2>6. ASSUME NEW w \in Writers, ReplaceFails(w) PROVE TypeOK'
    BY <2>6 DEF ReplaceFails, Go
  <2>7. ASSUME NEW w \in Writers, Cleanup(w) PROVE TypeOK'
    BY <2>7 DEF Cleanup, Go, Unlock
  <2>8. ASSUME NEW w \in Writers, Crash(w) PROVE TypeOK'
    BY <2>8 DEF Crash, Unlock
  <2>9. CASE UNCHANGED vars
    BY <2>9 DEF vars
  <2> QED
    BY <2>1, <2>2, <2>3, <2>4, <2>5, <2>6, <2>7, <2>8, <2>9 DEF Next, Run
<1> QED
  BY <1>1, <1>2, PTL DEF Spec

-----------------------------------------------------------------------------
(* The inductive invariant *)

\* A writer between the flock and its release.
Inside(w) == pc[w] \in {"locked", "opened", "written", "cleanup"}

\* A writer with the temporary file open.
Filling(w) == pc[w] \in {"opened", "written"}

\* The flock is exclusive.
Exclusive == use.locked => \A w \in Writers : Inside(w) => holder = w

\* No two names point to one inode, and none to the target's.
NamesApart == \A n \in Names : name[n] # Nobody =>
    /\ name[n] # target
    /\ \A m \in Names : name[m] = name[n] => m = n

\* The inode a writer will create does not exist yet.
Fresh == \A w \in Writers : pc[w] \in {"start", "locked"} =>
    target # w /\ \A n \in Names : name[n] # w

\* The inode a writer has open is the one its name points to, and contains
\* nothing of anybody else.
OwnFile == \A w \in Writers : Filling(w) =>
    /\ fd[w] # Nobody /\ name[Temp(w)] = fd[w]
    /\ text[fd[w]] = IF pc[w] = "opened" THEN "empty" ELSE w

AtomicInv ==
    Exclusive /\ (Apart => NamesApart /\ Fresh /\ OwnFile /\ text[target] \in Inodes)

\* Two writers that fill a file at once have different names for it.
LEMMA FillApart ==
  ASSUME TypeOK, Exclusive, Apart, NEW v \in Writers, NEW w \in Writers, v # w,
         Inside(v), Inside(w)
  PROVE  Temp(v) # Temp(w)
BY DEF TypeOK, Exclusive, Apart, Inside, Temp

\* The invariant holds at the start.
LEMMA AtomicInit == Init => AtomicInv
BY AtomicWriteAssumption
   DEF Init, AtomicInv, Exclusive, Inside, NamesApart, Fresh, OwnFile, Filling, Names,
       Inodes, Nobody, Old

\* The flock stays exclusive: only Lock enters, and only when it is free.
LEMMA ExclusiveStep ==
  ASSUME TypeOK, Exclusive, [Next]_vars PROVE Exclusive'
<1> USE DEF TypeOK, Exclusive, Inside, Go
<1>1. ASSUME NEW w \in Writers, Lock(w) PROVE Exclusive'
  BY <1>1, AtomicWriteAssumption DEF Lock, Nobody
<1>2. ASSUME NEW w \in Writers, Open(w) PROVE Exclusive'
  BY <1>2 DEF Open
<1>3. ASSUME NEW w \in Writers, Write(w) \/ WriteFails(w) \/ ReplaceFails(w) PROVE Exclusive'
  BY <1>3 DEF Write, WriteFails, ReplaceFails
<1>4. ASSUME NEW w \in Writers, Replace(w) \/ Cleanup(w) \/ Crash(w) PROVE Exclusive'
  BY <1>4 DEF Replace, Cleanup, Crash, Unlock, Ended
<1>5. CASE UNCHANGED vars
  BY <1>5 DEF vars
<1> QED
  BY <1>1, <1>2, <1>3, <1>4, <1>5 DEF Next, Run

\* Apart from each other's files, writers keep the invariant.
LEMMA AtomicStep ==
  ASSUME TypeOK, AtomicInv, [Next]_vars PROVE AtomicInv'
<1> DEFINE Whole == NamesApart /\ Fresh /\ OwnFile /\ text[target] \in Inodes
<1>1. Exclusive'
  BY ExclusiveStep DEF AtomicInv
<1>2. use' = use
  BY DEF Next, Run, Lock, Open, Write, WriteFails, Replace, ReplaceFails, Cleanup, Crash, vars
<1>3. ASSUME Apart PROVE Whole'
  <2>0. Exclusive /\ NamesApart /\ Fresh /\ OwnFile /\ text[target] \in Inodes
    BY <1>3 DEF AtomicInv
  <2>a. \A w \in Writers : Filling(w) => Inside(w)
    BY DEF Filling, Inside
  <2>t. \A w \in Writers : Temp(w) \in Names /\ Temp(w)' = Temp(w)
    BY <1>2 DEF Temp, Names
  <2> USE <2>0, AtomicWriteAssumption
      DEF TypeOK, Go, NamesApart, Fresh, OwnFile, Filling, Inodes, Nobody, Old
  <2>1. ASSUME NEW w \in Writers, Lock(w) PROVE Whole'
    BY <2>1, <2>t DEF Lock
  <2>2. ASSUME NEW w \in Writers, Open(w) PROVE Whole'
    <3> DEFINE inode == IF name[Temp(w)] = Nobody THEN w ELSE name[Temp(w)]
    <3>1. inode \in Writers /\ inode # target
      BY <2>2, <2>t DEF Open
    <3>2. \A n \in Names : name[n] = inode => n = Temp(w)
      BY <2>2, <2>t DEF Open
    <3>3. /\ name' = [name EXCEPT ![Temp(w)] = inode]
          /\ fd' = [fd EXCEPT ![w] = inode]
          /\ text' = [text EXCEPT ![inode] = "empty"]
          /\ pc[w] \in {"start", "locked"} /\ pc' = [pc EXCEPT ![w] = "opened"]
          /\ target' = target
      BY <2>2 DEF Open
    <3>4. NamesApart'
      BY <3>1, <3>2, <3>3, <2>t
    <3>5. Fresh'
      BY <3>1, <3>2, <3>3, <2>t
    <3>6. \A v \in Writers : v # w /\ Filling(v) => Temp(v) # Temp(w)
      BY <2>2, <1>3, <2>a, FillApart DEF Open, Apart, Exclusive, Temp, Inside
    <3>7. OwnFile'
      <4> SUFFICES ASSUME NEW v \in Writers, Filling(v)'
                   PROVE  /\ fd'[v] # Nobody /\ name'[Temp(v)] = fd'[v]
                          /\ text'[fd'[v]] = IF pc'[v] = "opened" THEN "empty" ELSE v
        BY <2>t
      <4>1. CASE v = w
        BY <4>1, <3>1, <3>3, <2>t
      <4>2. CASE v # w
        BY <4>2, <3>1, <3>2, <3>3, <3>6, <2>t
      <4> QED
        BY <4>1, <4>2
    <3>8. text'[target'] \in Inodes
      BY <3>1, <3>3
    <3> QED
      BY <3>4, <3>5, <3>7, <3>8
  <2>3. ASSUME NEW w \in Writers, Write(w) \/ WriteFails(w) PROVE Whole'
    <3>1. /\ pc[w] = "opened" /\ fd[w] \in Writers /\ fd[w] # target
          /\ name[Temp(w)] = fd[w] /\ text[fd[w]] = "empty"
      BY <2>3, <2>t DEF Write, WriteFails
    <3>2. UNCHANGED <<name, fd, target>> /\ Fresh'
      BY <2>3, <2>t DEF Write, WriteFails
    <3>3. /\ text' = [text EXCEPT ![fd[w]] = text'[fd[w]]]
          /\ Filling(w)' => text'[fd[w]] = w /\ pc'[w] = "written"
      BY <2>3, <3>1 DEF Write, WriteFails
    <3>4. \A v \in Writers : v # w /\ Filling(v) => fd[v] # fd[w]
      BY <3>1, <2>a, <2>t, <1>3, FillApart
    <3>5. \A v \in Writers : v # w => pc'[v] = pc[v]
      BY <2>3 DEF Write, WriteFails
    <3>6. OwnFile'
      BY <3>1, <3>2, <3>3, <3>4, <3>5, <2>t
    <3> QED
      BY <3>1, <3>2, <3>3, <3>6
  <2>4. ASSUME NEW w \in Writers, Replace(w) PROVE Whole'
    <3>1. /\ pc[w] = "written" /\ pc' = [pc EXCEPT ![w] = "done"]
          /\ target' = fd[w] /\ fd[w] \in Writers /\ text[fd[w]] = w
          /\ name[Temp(w)] = fd[w] /\ name' = [name EXCEPT ![Temp(w)] = Nobody]
          /\ fd' = fd /\ text' = text
      BY <2>4, <2>t DEF Replace
    <3>2. NamesApart' /\ Fresh'
      BY <3>1, <2>t
    <3>3. \A v \in Writers : v # w /\ Filling(v) => Temp(v) # Temp(w)
      BY <3>1, <2>a, <1>3, FillApart
    <3>4. OwnFile'
      BY <3>1, <3>3, <2>t
    <3> QED
      BY <3>1, <3>2, <3>4
  <2>5. ASSUME NEW w \in Writers, ReplaceFails(w) PROVE Whole'
    BY <2>5, <2>t DEF ReplaceFails
  <2>6. ASSUME NEW w \in Writers, Cleanup(w) PROVE Whole'
    <3>1. \A v \in Writers : Filling(v) => v # w /\ Temp(v) # Temp(w)
      BY <2>6, <2>a, <1>3, FillApart DEF Cleanup, Inside
    <3>2. \A v \in Writers : v # w => pc'[v] = pc[v]
      BY <2>6 DEF Cleanup
    <3>3. pc'[w] = "failed" /\ UNCHANGED <<fd, target, text>>
          /\ name' = [name EXCEPT ![Temp(w)] = Nobody]
      BY <2>6 DEF Cleanup
    <3>4. NamesApart' /\ Fresh'
      BY <3>2, <3>3, <2>t
    <3>5. OwnFile'
      BY <3>1, <3>2, <3>3, <2>t
    <3> QED
      BY <3>3, <3>4, <3>5
  <2>7. ASSUME NEW w \in Writers, Crash(w) PROVE Whole'
    BY <2>7, <2>t DEF Crash
  <2>8. CASE UNCHANGED vars
    BY <2>8, <2>t DEF vars
  <2> QED
    BY <2>1, <2>2, <2>3, <2>4, <2>5, <2>6, <2>7, <2>8 DEF Next, Run
<1> QED
  BY <1>1, <1>2, <1>3 DEF AtomicInv, Apart

-----------------------------------------------------------------------------
(* What readers and callers see *)

\* The private files of the writers stay their own and the target stays whole,
\* for every number of writers, chunks and crashes (_atomic_write_text,
\* save_pool, save_job and the status files).
THEOREM AtomicInvariant == Spec => []AtomicInv
BY AtomicInit, AtomicStep, AtomicWriteTypes, PTL DEF Spec

\* A reader finds the target whole whatever the writers do and whenever they die:
\* _atomic_write_text and save_pool under their lock, save_job and the status
\* files as long as nobody else writes the same record.
THEOREM ReadersSeeWhole == Spec => []NeverTorn
<1>1. AtomicInv => NeverTorn
  BY DEF AtomicInv, NeverTorn
<1> QED
  BY <1>1, AtomicInvariant, PTL

\* A call that returns has put its own text in place: the rename moves the file
\* this writer filled and no other.
THEOREM ReturnsHavePublished == Spec => ReturnPublishes
<1>1. ASSUME TypeOK, AtomicInv, Next, NEW w \in Writers, Apart, pc[w] # "done", pc'[w] = "done"
      PROVE  text'[target'] = w
  <2>1. Replace(w)
    BY <1>1 DEF TypeOK, Next, Run, Go, Lock, Open, Write, WriteFails, Replace, ReplaceFails, Cleanup, Crash
  <2> QED
    BY <2>1, <1>1 DEF Replace, Go, AtomicInv, OwnFile, Filling
<1>2. TypeOK /\ AtomicInv /\ [Next]_vars =>
        [\A w \in Writers : Apart /\ pc[w] # "done" /\ pc'[w] = "done" => text'[target'] = w]_vars
  BY <1>1
<1> QED
  BY <1>2, AtomicInvariant, AtomicWriteTypes, PTL DEF Spec, ReturnPublishes

-----------------------------------------------------------------------------
(* Intake: the invariant of a request and of the disk *)

\* The places request r may be sent to: they have a name of strings, or one of its own.
Outs(r) == [dir : Seq(Words), name : Words \X (Words \cup {r}), ext : Words]

\* The phases of a run before and after its destination is known, of a save, of an init.
Early == {"template", "fill", "validate"}
Prep == {"start", "follow", "preflight", "bundled"}
Placed == {"running", "save"}
Saving == {"write", "sidecar", "verify"}
Inits == {"harden", "clear", "link"}
Unwritten == {"idle", "verb"} \cup Early \cup Prep \cup Placed \cup Inits
Uncleared == {"idle", "harden", "clear"}

ReqFields == DOMAIN Idle

\* What a request holds in each phase.
ReqOK(q, r) ==
    /\ q = [f \in ReqFields |-> q[f]]
    /\ q.pc \in Unwritten \cup Saving \cup {"done", "dead"}
    /\ q.pc \in Early \cup Prep \cup Placed \cup Saving => q.ask \in RunAsks
    /\ q.pc \in Inits => q.ask.verb = "init"
    /\ q.pc = "verb" => q.ask \in VerbAsks \cup EnvAsks
    /\ q.pc \in Prep => q.out \in Outs(r) \cup {NoOut}
    /\ q.pc \in Placed \cup Saving => q.out \in Outs(r)
    /\ q.pc \in Unwritten => q.target = NoOut
    /\ q.pc \in Saving => q.target \in Outs(r)

ReqInv ==
    /\ req = [r \in Requests |-> req[r]]
    /\ \A r \in Requests : ReqOK(req[r], r)
    /\ agenda = [f \in AgendaFields |-> agenda[f]]
    /\ agenda.asks \subseteq AllAsks
    /\ agenda.dirs \subseteq Places

\* The places of the disk. A name made for one request is used by it alone, and no
\* sooner than it writes; a directory kept aside by an init is its own.
DiskInv ==
    \A l \in DOMAIN disk :
        /\ l \in [dir : Seq(Words) \cup {<<"backup", r>> : r \in Requests},
                  name : Words \X (Words \cup Requests), ext : Words]
        /\ \A r \in Requests : req[r].pc \in Unwritten => l.name[2] # r
        /\ \A r \in Requests : req[r].pc \in Uncleared => l.dir # <<"backup", r>>

\* The fields of a request, named.
LEMMA FieldsOf == ReqFields = {"pc", "ask", "out", "target", "prompt", "walk", "attach", "sent",
                             "outcome", "hit", "dirty", "diag", "reply"}
BY DEF ReqFields, Idle

\* What a write at one key does to a function.
LEMMA PutsOne ==
    ASSUME NEW f, NEW k, NEW v
    PROVE  /\ DOMAIN Put(f, k, v) = DOMAIN f \cup {k}
           /\ Put(f, k, v)[k] = v
           /\ \A x \in DOMAIN f : x # k => Put(f, k, v)[x] = f[x]
BY DEF Put

\* Both shared destinations are paths of words.
LEMMA LocalIsPath == LocalOut \in Seq(Words) /\ XdgOut \in Seq(Words)
<1>1. "local" \in Words /\ "xdg" \in Words /\ Root \in Seq(Words)
  BY IntakeAssumption
<1>2. ASSUME NEW w \in Words PROVE <<w>> \in Seq(Words)
  OBVIOUS
<1> QED
  BY <1>1, <1>2 DEF LocalOut, XdgOut

\* A destination is no missing one, and stays one when the local link is followed.
LEMMA Paths ==
    ASSUME NEW r, NEW loc \in Outs(r)
    PROVE  PathOf(loc) \in Seq(Words) /\ Phys(loc) \in Outs(r) /\ loc # NoOut
<1>0. /\ loc = [dir |-> loc.dir, name |-> loc.name, ext |-> loc.ext]
      /\ loc.dir \in Seq(Words) /\ loc.name \in Words \X (Words \cup {r}) /\ loc.ext \in Words
  BY DEF Outs
<1>1. <<loc.name[1]>> \in Seq(Words)
  BY <1>0
<1>2. PathOf(loc) \in Seq(Words)
  BY <1>0, <1>1 DEF PathOf
<1>3. XdgOut \in Seq(Words)
  BY LocalIsPath
<1>4. [loc EXCEPT !.dir = XdgOut] = [dir |-> XdgOut, name |-> loc.name, ext |-> loc.ext]
  BY <1>0
<1>5. Phys(loc) \in Outs(r)
  BY <1>0, <1>3, <1>4 DEF Phys, Outs
<1>6. Len(loc.name) = 2 /\ Len(NoPath) = 1
  BY <1>0 DEF NoPath
<1>7. NoOut.name = NoPath
  BY DEF NoOut
<1>8. loc # NoOut
  <2> SUFFICES ASSUME loc = NoOut PROVE FALSE
    OBVIOUS
  <2>1. loc.name = NoPath
    BY <1>7
  <2>2. Len(loc.name) = Len(NoPath)
    BY <2>1
  <2> QED
    BY ONLY <1>6, <2>2
<1> QED
  BY <1>2, <1>5, <1>8

\* The placeholder of a missing path is a path.
LEMMA NoPathIsOne == NoPath \in PathNames
<1>1. "no path" \in Words
  BY IntakeAssumption
<1>2. ASSUME NEW w \in Words PROVE <<w>> \in Seq(Words) /\ <<w>> # <<>>
  OBVIOUS
<1> QED
  BY <1>1, <1>2 DEF NoPath, PathNames

\* The stem of a name of its own comes from the words of the request.
LEMMA Stems ==
    ASSUME NEW r \in Requests, Ask(r) \in RunAsks
    PROVE  StemOf(r) \in Words
<1>1. ASSUME NEW p \in PathNames PROVE Last(p) \in Words
  BY <1>1 DEF PathNames, Last
<1> QED
  BY <1>1, IntakeAssumption DEF StemOf, RunAsks, RunVerbs

\* A destination resolved for a request is one it may be sent to.
LEMMA Resolved ==
    ASSUME NEW r \in Requests, Ask(r) \in RunAsks, NEW out \in Outs(r) \cup {NoOut}
    PROVE  ResolvePipelineOutputPath(r, out) \in Outs(r)
<1>1. ASSUME NEW d \in Seq(Words) PROVE OwnName(r, d, StemOf(r)) \in Outs(r)
  BY <1>1, Stems, IntakeAssumption DEF OwnName, Outs
<1>2. CASE out = NoOut
  BY <1>1, <1>2, LocalIsPath DEF ResolvePipelineOutputPath
<1>3. CASE out # NoOut /\ IsDirAt(out)
  BY <1>1, <1>3, Paths DEF ResolvePipelineOutputPath
<1>4. CASE out # NoOut /\ ~IsDirAt(out)
  BY <1>4, Paths DEF ResolvePipelineOutputPath
<1> QED
  BY <1>2, <1>3, <1>4

\* So is the one the command line names.
LEMMA CliNames ==
    ASSUME NEW r \in Requests, NEW a \in RunAsks
    PROVE  CliDestination(a) \in Outs(r)
<1>1. a.out \in Outs(r) \cup {NoOut} /\ Last(a.prompt) \in Words
  BY DEF RunAsks, Places, Outs, PathNames, Last
<1> QED
  BY <1>1, LocalIsPath, IntakeAssumption DEF CliDestination, Outs

-----------------------------------------------------------------------------
(* Intake: the steps of a request *)

\* A step moves one request, and only an init or an arrival is followed by "harden".
Moves(r) ==
    /\ req' = [q \in Requests |-> req'[q]]
    /\ \A q \in Requests \ {r} : req'[q] = req[q]
    /\ ReqOK(req'[r], r)
    /\ req'[r].pc \in Unwritten => req[r].pc \in Unwritten
    /\ req'[r].pc \in Uncleared => req[r].pc \in Uncleared

\* What the writes of the fields of a record do to it.
LEMMA Written ==
    ASSUME req = [q \in Requests |-> req[q]], NEW r \in Requests, NEW new,
           req' = [req EXCEPT ![r] = new], ReqOK(new, r),
           new.pc \in Unwritten => req[r].pc \in Unwritten,
           new.pc \in Uncleared => req[r].pc \in Uncleared
    PROVE  Moves(r)
<1>1. req'[r] = new /\ \A q \in Requests \ {r} : req'[q] = req[q]
  OBVIOUS
<1>2. req' = [q \in Requests |-> req'[q]]
  OBVIOUS
<1> QED
  BY <1>1, <1>2 DEF Moves

\* A request that ends keeps nothing to be said of it.
LEMMA Ends ==
    ASSUME NEW r, NEW q, NEW n, ReqOK(q, r), n.pc \in {"done", "dead"}, n = [f \in ReqFields |-> n[f]]
    PROVE  ReqOK(n, r) /\ n.pc \notin Unwritten \cup Uncleared
BY DEF ReqOK, Unwritten, Uncleared, Early, Prep, Placed, Saving, Inits

\* A reply ends the request.
LEMMA Replies ==
    ASSUME ReqInv, NEW r \in Requests, NEW reply, Reply(r, reply)
    PROVE  Moves(r)
<1> DEFINE new == [req[r] EXCEPT !.pc = "done", !.reply = reply]
<1>1. req' = [req EXCEPT ![r] = new]
  BY DEF Reply
<1>2. req[r] = [f \in ReqFields |-> req[r][f]] /\ ReqOK(req[r], r)
  BY DEF ReqInv, ReqOK
<1>3. new = [f \in ReqFields |-> new[f]] /\ new.pc = "done"
  BY <1>2, FieldsOf
<1> HIDE DEF new
<1> QED
  BY <1>1, <1>2, <1>3, Ends, Written DEF ReqInv

\* So does a refused write.
LEMMA Faults ==
    ASSUME ReqInv, NEW r \in Requests, NEW reply, DiskFault(r, reply)
    PROVE  Moves(r)
<1> DEFINE new == [req[r] EXCEPT !.pc = "done", !.hit = TRUE, !.reply = reply]
<1>1. req' = [req EXCEPT ![r] = new]
  BY DEF DiskFault
<1>2. req[r] = [f \in ReqFields |-> req[r][f]] /\ ReqOK(req[r], r)
  BY DEF ReqInv, ReqOK
<1>3. new = [f \in ReqFields |-> new[f]] /\ new.pc = "done"
  BY <1>2, FieldsOf
<1> HIDE DEF new
<1> QED
  BY <1>1, <1>2, <1>3, Ends, Written DEF ReqInv

\* A request goes on to a phase that asks no more of it.
LEMMA Goes ==
    ASSUME ReqInv, NEW r \in Requests, NEW at, Goto(r, at),
           \/ req[r].pc \in {"template", "fill"} /\ at \in {"fill", "validate"}
           \/ req[r].pc \in Prep /\ at \in Prep
           \/ req[r].pc \in Saving /\ at \in Saving
           \/ req[r].pc = "harden" /\ at = "clear"
           \/ req[r].pc = "clear" /\ at = "link"
    PROVE  Moves(r)
<1> DEFINE new == [req[r] EXCEPT !.pc = at]
<1>1. req' = [req EXCEPT ![r] = new]
  BY DEF Goto
<1>2. req[r] = [f \in ReqFields |-> req[r][f]] /\ ReqOK(req[r], r)
  BY DEF ReqInv, ReqOK
<1>3. new = [f \in ReqFields |-> new[f]] /\ new.pc = at /\ new.ask = req[r].ask
      /\ new.out = req[r].out /\ new.target = req[r].target
  BY <1>2, FieldsOf
<1> HIDE DEF new
<1>4. /\ ReqOK(new, r)
      /\ new.pc \in Unwritten => req[r].pc \in Unwritten
      /\ new.pc \in Uncleared => req[r].pc \in Uncleared
  BY <1>2, <1>3 DEF ReqOK, Unwritten, Uncleared, Early, Prep, Placed, Saving, Inits
<1> QED
  BY <1>1, <1>4, Written DEF ReqInv

\* The verb tells what kind of request it is.
LEMMA Kinds ==
    ASSUME NEW a \in AllAsks
    PROVE  /\ a.verb \in RunVerbs => a \in RunAsks /\ a.role \in BOOLEAN
           /\ a.verb \notin RunVerbs \cup {"init"} => a \in VerbAsks \cup EnvAsks
           /\ a \in VerbAsks \cup EnvAsks => a.verb \notin RunVerbs \cup {"init"}
<1>1. a \in RunAsks => a.verb \in RunVerbs /\ a.role \in BOOLEAN
  BY DEF RunAsks
<1>2. a \in InitAsks => a.verb = "init"
  BY DEF InitAsks
<1>3. a \in VerbAsks \cup EnvAsks => a.verb \notin RunVerbs \cup {"init"}
  BY DEF VerbAsks, EnvAsks, VerbFields, CliVerbs, McpVerbs, RunVerbs
<1> QED
  BY <1>1, <1>2, <1>3 DEF AllAsks, RunVerbs

\* An arrival begins an init, a run or another verb with its own first phase.
LEMMA Arrives ==
    ASSUME ReqInv, NEW r \in Requests, Arrive(r)
    PROVE  Moves(r)
<1>1. PICK a \in agenda.asks : req' = [req EXCEPT ![r].pc = FirstStep(a), ![r].ask = a]
  BY DEF Arrive
<1> DEFINE new == [req[r] EXCEPT !.pc = FirstStep(a), !.ask = a]
<1>2. req' = [req EXCEPT ![r] = new]
  BY <1>1
<1>3. req[r] = [f \in ReqFields |-> req[r][f]] /\ ReqOK(req[r], r) /\ req[r].pc = "idle"
  BY DEF ReqInv, ReqOK, Arrive, At
<1>4. new = [f \in ReqFields |-> new[f]] /\ new.pc = FirstStep(a) /\ new.ask = a
      /\ new.target = req[r].target
  BY <1>3, FieldsOf
<1>5. \/ a.verb = "init" /\ FirstStep(a) = "harden"
      \/ a.verb \in RunVerbs /\ a \in RunAsks /\ FirstStep(a) \in {"template", "validate"}
      \/ a \in VerbAsks \cup EnvAsks /\ FirstStep(a) = "verb"
  <2>1. a \in AllAsks
    BY DEF ReqInv
  <2> QED
    BY <2>1, Kinds DEF FirstStep, RunVerbs
<1> HIDE DEF new
<1>6. ReqOK(new, r) /\ req[r].pc \in Uncleared /\ req[r].pc \in Unwritten
  BY <1>3, <1>4, <1>5 DEF ReqOK, Unwritten, Uncleared, Early, Prep, Placed, Saving, Inits
<1> QED
  BY <1>2, <1>6, Written DEF ReqInv

\* A validated run starts with a destination, or with none yet.
LEMMA Starts ==
    ASSUME ReqInv, NEW r \in Requests, NEW a \in RunAsks, NEW out \in Outs(r) \cup {NoOut},
           At(r, "validate"),
           req' = [req EXCEPT ![r].pc = "start", ![r].ask = a, ![r].out = out]
    PROVE  Moves(r)
<1> DEFINE new == [req[r] EXCEPT !.pc = "start", !.ask = a, !.out = out]
<1>1. req' = [req EXCEPT ![r] = new]
  OBVIOUS
<1>2. req[r] = [f \in ReqFields |-> req[r][f]] /\ ReqOK(req[r], r) /\ req[r].pc = "validate"
  BY DEF ReqInv, ReqOK, At
<1>3. new = [f \in ReqFields |-> new[f]] /\ new.pc = "start" /\ new.ask = a /\ new.out = out
      /\ new.target = req[r].target
  BY <1>2, FieldsOf
<1> HIDE DEF new
<1>4. ReqOK(new, r) /\ req[r].pc \in Unwritten /\ new.pc \notin Uncleared
  BY <1>2, <1>3 DEF ReqOK, Unwritten, Uncleared, Early, Prep, Placed, Saving, Inits
<1> QED
  BY <1>1, <1>4, Written DEF ReqInv

\* The three surfaces' validations.
LEMMA Validates ==
    ASSUME ReqInv, NEW r \in Requests, CliValidate(r) \/ McpValidate(r) \/ TuiPlan(r)
    PROVE  Moves(r)
<1>1. req[r] = [f \in ReqFields |-> req[r][f]] /\ req = [q \in Requests |-> req[q]] /\ Ask(r) \in RunAsks
      /\ At(r, "validate")
  BY DEF ReqInv, ReqOK, At, CliValidate, McpValidate, TuiPlan, Early, Ask
<1>2. req = [req EXCEPT ![r].ask = Ask(r)]
  BY <1>1, FieldsOf DEF Ask
<1>3. ASSUME NEW a \in RunAsks, a.out \in Places \cup {NoOut} PROVE a.out \in Outs(r) \cup {NoOut}
  BY <1>3 DEF Places, Outs
<1>4. CASE CliValidate(r)
  <2>1. CASE \E reply : Reply(r, reply)
    BY <2>1, Replies
  <2>2. CASE req' = [req EXCEPT ![r].pc = "start", ![r].out = CliDestination(Ask(r))]
    <3>1. req' = [req EXCEPT ![r].pc = "start", ![r].ask = Ask(r), ![r].out = CliDestination(Ask(r))]
      BY <1>1, <2>2, FieldsOf DEF Ask
    <3> QED
      BY <1>1, <3>1, CliNames, Starts
  <2> QED
    BY <1>4, <2>1, <2>2 DEF CliValidate
<1>5. CASE McpValidate(r)
  <2>1. CASE \E reply : Reply(r, reply)
    BY <2>1, Replies
  <2>2. CASE req' = [req EXCEPT ![r].pc = "start", ![r].out = Ask(r).out]
    <3>1. req' = [req EXCEPT ![r].pc = "start", ![r].ask = Ask(r), ![r].out = Ask(r).out]
      BY <1>1, <2>2, FieldsOf DEF Ask
    <3>2. Ask(r).out \in Outs(r) \cup {NoOut}
      BY <1>1, <1>3 DEF RunAsks
    <3> QED
      BY <1>1, <3>1, <3>2, Starts
  <2> QED
    BY <1>5, <2>1, <2>2 DEF McpValidate
<1>6. CASE TuiPlan(r)
  <2>1. CASE \E reply : Reply(r, reply)
    BY <2>1, Replies
  <2>2. CASE \E n \in PathNames, v \in RunVerbs :
                req' = [req EXCEPT ![r].pc = "start", ![r].ask = [Ask(r) EXCEPT !.attach = n, !.verb = v],
                                   ![r].out = ResolvePipelineOutputPath(r, Ask(r).out)]
    <3>1. PICK n \in PathNames, v \in RunVerbs :
                req' = [req EXCEPT ![r].pc = "start", ![r].ask = [Ask(r) EXCEPT !.attach = n, !.verb = v],
                                   ![r].out = ResolvePipelineOutputPath(r, Ask(r).out)]
      BY <2>2
    <3>2. [Ask(r) EXCEPT !.attach = n, !.verb = v] \in RunAsks
      BY <1>1 DEF RunAsks
    <3>3. Ask(r).out \in Outs(r) \cup {NoOut}
      BY <1>1, <1>3 DEF RunAsks
    <3>4. ResolvePipelineOutputPath(r, Ask(r).out) \in Outs(r)
      BY <1>1, <3>3, Resolved
    <3> QED
      BY <1>1, <3>1, <3>2, <3>4, Starts
  <2>3. ASSUME NEW fs, NEW slot, slot.attachment \in PathNames PROVE SlotPlan(fs, slot).attachment \in PathNames
    BY <2>3, NoPathIsOne DEF SlotPlan
  <2> DEFINE slot == [prompt |-> Ask(r).prompt, role |-> Ask(r).role, attachment |-> Ask(r).attach,
                      output |-> IF Ask(r).out = NoOut THEN NoPath ELSE PathOf(Ask(r).out)]
             plan == SlotPlan(FS, slot)
             verb == IF plan.attachment = NoPath THEN "file" ELSE "attach"
  <2>4. \/ Reply(r, Refuse("plan"))
        \/ req' = [req EXCEPT ![r].pc = "start",
                              ![r].ask = [Ask(r) EXCEPT !.attach = plan.attachment, !.verb = verb],
                              ![r].out = ResolvePipelineOutputPath(r, Ask(r).out)]
    BY <1>6 DEF TuiPlan
  <2>5. slot.attachment \in PathNames
    BY <1>1 DEF RunAsks
  <2>6. plan.attachment \in PathNames /\ verb \in RunVerbs
    BY <2>3, <2>5 DEF RunVerbs
  <2> HIDE DEF plan, verb
  <2> QED
    BY <2>1, <2>2, <2>4, <2>6
<1> QED
  BY <1>4, <1>5, <1>6

\* The attachment: followed hop by hop, bundled, or taken as it is.
LEMMA Prepares ==
    ASSUME ReqInv, NEW r \in Requests,
           AdapterStart(r) \/ FollowOne(r) \/ EndHop(r) \/ WriteBundle(r)
    PROVE  Moves(r)
<1>1. req[r] = [f \in ReqFields |-> req[r][f]] /\ ReqOK(req[r], r) /\ req[r].pc \in Prep
  BY DEF ReqInv, At, AdapterStart, FollowOne, EndHop, WriteBundle, Prep, ReqOK
<1>2. ASSUME NEW at \in Prep, NEW walk, NEW n,
             req' = [req EXCEPT ![r].pc = at, ![r].walk = walk, ![r].attach = n]
      PROVE  Moves(r)
  <2> DEFINE new == [req[r] EXCEPT !.pc = at, !.walk = walk, !.attach = n]
  <2>1. req' = [req EXCEPT ![r] = new]
    BY <1>2
  <2>2. new = [f \in ReqFields |-> new[f]] /\ new.pc = at /\ new.ask = req[r].ask
        /\ new.out = req[r].out /\ new.target = req[r].target
    BY <1>1, FieldsOf
  <2> HIDE DEF new
  <2>3. ReqOK(new, r) /\ req[r].pc \in Unwritten /\ new.pc \notin Uncleared
    BY <1>1, <2>2 DEF ReqOK, Unwritten, Uncleared, Early, Prep, Placed, Saving, Inits
  <2> QED
    BY <2>1, <2>3, Written DEF ReqInv
<1> DEFINE W(at, walk, n) == [req EXCEPT ![r].pc = at, ![r].walk = walk, ![r].attach = n]
<1>3. \/ \E reply : Reply(r, reply) \/ DiskFault(r, reply)
      \/ \E at \in Prep : Goto(r, at)
      \/ \E walk : req' = [req EXCEPT ![r].pc = "follow", ![r].walk = walk]
      \/ \E walk : At(r, "follow") /\ req' = [req EXCEPT ![r].walk = walk]
      \/ \E n : req' = [req EXCEPT ![r].pc = "preflight", ![r].attach = n]
      \/ \E n : req' = [req EXCEPT ![r].pc = "bundled", ![r].attach = n]
  BY DEF AdapterStart, FollowOne, EndHop, WriteBundle, Fail, Prep
<1>4. ASSUME NEW at, NEW walk
      PROVE  /\ [req EXCEPT ![r].pc = at, ![r].walk = walk] = W(at, walk, req[r].attach)
             /\ [req EXCEPT ![r].pc = at, ![r].attach = walk] = W(at, req[r].walk, walk)
             /\ [req EXCEPT ![r].walk = walk] = W(req[r].pc, walk, req[r].attach)
  BY <1>1, FieldsOf DEF ReqInv
<1>5. ASSUME NEW at \in Prep, NEW walk, NEW n, req' = W(at, walk, n) PROVE Moves(r)
  BY <1>2, <1>5
<1> HIDE DEF W
<1>6. CASE \E reply : Reply(r, reply) \/ DiskFault(r, reply)
  BY <1>6, Replies, Faults
<1>7. CASE \E at \in Prep : Goto(r, at)
  BY <1>1, <1>7, Goes
<1>8. CASE \E walk : req' = [req EXCEPT ![r].pc = "follow", ![r].walk = walk]
  <2>1. PICK walk : req' = [req EXCEPT ![r].pc = "follow", ![r].walk = walk]
    BY <1>8
  <2>2. req' = W("follow", walk, req[r].attach)
    BY <1>4, <2>1
  <2> QED
    BY <1>5, <2>2 DEF Prep
<1>9. CASE \E walk : At(r, "follow") /\ req' = [req EXCEPT ![r].walk = walk]
  <2>1. PICK walk : req' = [req EXCEPT ![r].walk = walk]
    BY <1>9
  <2>2. req' = W(req[r].pc, walk, req[r].attach)
    BY <1>4, <2>1
  <2> QED
    BY <1>1, <1>5, <2>2
<1>10. ASSUME NEW at \in Prep, NEW n, req' = [req EXCEPT ![r].pc = at, ![r].attach = n]
       PROVE  Moves(r)
  <2>1. req' = W(at, req[r].walk, n)
    BY <1>4, <1>10
  <2> QED
    BY <1>5, <2>1
<1> QED
  BY <1>3, <1>6, <1>7, <1>8, <1>9, <1>10 DEF Prep

\* The pre-flight resolves the destination.
LEMMA Preflights ==
    ASSUME ReqInv, NEW r \in Requests, Preflight(r)
    PROVE  Moves(r)
<1>1. req[r] = [f \in ReqFields |-> req[r][f]] /\ ReqOK(req[r], r) /\ req[r].pc \in Prep
  BY DEF ReqInv, Preflight, Prep, ReqOK
<1>2. CASE \E said : Fail(r, said)
  BY <1>2, Replies DEF Fail
<1>3. CASE \E p : req' = [req EXCEPT ![r].pc = "running", ![r].prompt = p,
                                     ![r].out = ResolvePipelineOutputPath(r, @)]
  <2>1. PICK p : req' = [req EXCEPT ![r].pc = "running", ![r].prompt = p,
                                     ![r].out = ResolvePipelineOutputPath(r, @)]
    BY <1>3
  <2> DEFINE out == ResolvePipelineOutputPath(r, req[r].out)
             new == [req[r] EXCEPT !.pc = "running", !.prompt = p, !.out = out]
  <2>2. out \in Outs(r)
    BY <1>1, Resolved DEF ReqOK, Ask
  <2> HIDE DEF out
  <2>3. req' = [req EXCEPT ![r] = new]
    BY <2>1 DEF out
  <2>4. new = [f \in ReqFields |-> new[f]] /\ new.pc = "running" /\ new.ask = req[r].ask
        /\ new.out = out /\ new.target = req[r].target
    BY <1>1, FieldsOf
  <2> HIDE DEF new
  <2>5. ReqOK(new, r) /\ req[r].pc \in Unwritten /\ new.pc \notin Uncleared
    BY <1>1, <2>2, <2>4 DEF ReqOK, Unwritten, Uncleared, Early, Prep, Placed, Saving, Inits
  <2> QED
    BY <2>3, <2>5, Written DEF ReqInv
<1> QED
  BY <1>2, <1>3 DEF Preflight

\* A run that ends saves what it has or replies.
LEMMA Runs ==
    ASSUME ReqInv, NEW r \in Requests, NEW o, RunEnds(r, o)
    PROVE  Moves(r)
<1>1. req[r] = [f \in ReqFields |-> req[r][f]] /\ ReqOK(req[r], r) /\ req[r].pc = "running"
  BY DEF ReqInv, RunEnds, At, ReqOK
<1>2. PICK sent, at, reply :
         /\ (at = "save" /\ reply = req[r].reply) \/ at = "done"
         /\ req' = [req EXCEPT ![r].outcome = o, ![r].sent = sent, ![r].pc = at, ![r].reply = reply]
  <2> DEFINE sent == IF req[r].attach = Ask(r).attach THEN [by |-> "none"] ELSE bundles[req[r].attach]
             ends == [req EXCEPT ![r].outcome = o, ![r].sent = sent]
             said == RunReply(Ask(r).surface, IF o = "auth" THEN "auth" ELSE "failed")
  <2>1. \/ req' = [ends EXCEPT ![r].pc = "save"]
        \/ req' = [ends EXCEPT ![r].pc = "done", ![r].reply = said]
    BY DEF RunEnds
  <2> HIDE DEF sent, said
  <2>2. [ends EXCEPT ![r].pc = "save"]
          = [req EXCEPT ![r].outcome = o, ![r].sent = sent, ![r].pc = "save", ![r].reply = req[r].reply]
    BY <1>1, FieldsOf DEF ReqInv
  <2> HIDE DEF ends
  <2>3. CASE req' = [ends EXCEPT ![r].pc = "save"]
    <3>1. req' = [req EXCEPT ![r].outcome = o, ![r].sent = sent, ![r].pc = "save", ![r].reply = req[r].reply]
      BY <2>2, <2>3
    <3> QED
      BY <3>1
  <2>4. CASE req' = [ends EXCEPT ![r].pc = "done", ![r].reply = said]
    BY <2>4 DEF ends
  <2> QED
    BY <2>1, <2>3, <2>4
<1> DEFINE new == [req[r] EXCEPT !.outcome = o, !.sent = sent, !.pc = at, !.reply = reply]
<1>3. req' = [req EXCEPT ![r] = new]
  BY <1>2
<1>4. new = [f \in ReqFields |-> new[f]] /\ new.pc = at /\ new.ask = req[r].ask
      /\ new.out = req[r].out /\ new.target = req[r].target
  BY <1>1, FieldsOf
<1> HIDE DEF new
<1>5. ReqOK(new, r) /\ req[r].pc \in Unwritten /\ new.pc \notin Uncleared
  BY <1>1, <1>2, <1>4 DEF ReqOK, Unwritten, Uncleared, Early, Prep, Placed, Saving, Inits
<1> QED
  BY <1>3, <1>5, Written DEF ReqInv

\* The steps of a save leave the destination alone and fix the target.
LEMMA Saves ==
    ASSUME ReqInv, NEW r \in Requests,
           EnsureDir(r) \/ WriteText(r) \/ WriteSidecar(r) \/ VerifySaved(r)
    PROVE  Moves(r)
<1>1. req[r] = [f \in ReqFields |-> req[r][f]] /\ ReqOK(req[r], r)
  BY DEF ReqInv, ReqOK
<1>2. CASE EnsureDir(r)
  <2> DEFINE out == req[r].out
             inside == [OwnName(r, PathOf(out), "output") EXCEPT !.ext = ".md"]
  <2>1. out \in Outs(r) /\ req[r].pc = "save"
    BY <1>1, <1>2 DEF ReqOK, EnsureDir, At, Placed
  <2>2. inside \in Outs(r)
    <3>1. PathOf(out) \in Seq(Words) /\ "output" \in Words /\ ".md" \in Words
      BY <2>1, Paths, IntakeAssumption
    <3> HIDE DEF out
    <3> QED
      BY <3>1 DEF OwnName, Outs
  <2> HIDE DEF out, inside
  <2>3. ASSUME NEW place \in Outs(r), req' = [req EXCEPT ![r].pc = "write", ![r].target = place]
        PROVE  Moves(r)
    <3> DEFINE new == [req[r] EXCEPT !.pc = "write", !.target = place]
    <3>1. req' = [req EXCEPT ![r] = new]
      BY <2>3
    <3>2. new = [f \in ReqFields |-> new[f]] /\ new.pc = "write" /\ new.ask = req[r].ask
          /\ new.out = req[r].out /\ new.target = place
      BY <1>1, FieldsOf
    <3> HIDE DEF new
    <3>3. ReqOK(new, r) /\ new.pc \notin Unwritten \cup Uncleared
      BY <1>1, <2>1, <2>3, <3>2 DEF ReqOK, Unwritten, Uncleared, Early, Prep, Placed, Saving, Inits
    <3> QED
      BY <3>1, <3>3, Written DEF ReqInv
  <2>4. \/ \E reply : Reply(r, reply) \/ DiskFault(r, reply)
        \/ req' = [req EXCEPT ![r].pc = "write", ![r].target = inside]
        \/ req' = [req EXCEPT ![r].pc = "write", ![r].target = out]
    BY <1>2 DEF EnsureDir, Fail, inside, out
  <2> QED
    BY <2>1, <2>2, <2>3, <2>4, Replies, Faults
<1>3. CASE WriteText(r)
  <2>1. /\ req[r].pc = "write"
        /\ \/ \E reply : Reply(r, reply) \/ DiskFault(r, reply)
           \/ Goto(r, "sidecar")
    BY <1>3 DEF WriteText, Fail, At
  <2> QED
    BY <2>1, Replies, Faults, Goes DEF Saving
<1>4. CASE WriteSidecar(r)
  <2>1. /\ req[r].pc = "sidecar"
        /\ (\E reply : DiskFault(r, reply)) \/ Goto(r, "verify")
    BY <1>4 DEF WriteSidecar, At
  <2> QED
    BY <2>1, Faults, Goes DEF Saving
<1>5. CASE VerifySaved(r)
  BY <1>5, Replies DEF VerifySaved, Fail
<1> QED
  BY <1>2, <1>3, <1>4, <1>5

\* The steps of an init.
LEMMA Initializes ==
    ASSUME ReqInv, NEW r \in Requests, InitStart(r) \/ InitClear(r) \/ InitLink(r)
    PROVE  Moves(r)
<1>1. \/ \E reply : Reply(r, reply) \/ DiskFault(r, reply)
      \/ req[r].pc = "harden" /\ Goto(r, "clear")
      \/ req[r].pc = "clear" /\ Goto(r, "link")
  BY DEF InitStart, InitClear, InitLink, At
<1> QED
  BY <1>1, Replies, Faults, Goes

\* The two halves of the materialisation of a template.
LEMMA Templates ==
    ASSUME ReqInv, NEW r \in Requests, TruncateTemplate(r) \/ FillTemplate(r)
    PROVE  Moves(r)
BY Goes DEF TruncateTemplate, FillTemplate, At

\* The verbs answered in one step.
LEMMA Serves ==
    ASSUME ReqInv, NEW r \in Requests,
           ServeVerb(r) \/ Diagnose(r) \/ ReportConfig(r) \/ CheckPaths(r)
    PROVE  Moves(r)
<1>1. req[r] = [f \in ReqFields |-> req[r][f]] /\ ReqOK(req[r], r)
  BY DEF ReqInv, ReqOK
<1>2. ASSUME NEW o, NEW diag, NEW reply,
             req' = [req EXCEPT ![r].pc = "done", ![r].outcome = o, ![r].diag = diag, ![r].reply = reply]
      PROVE  Moves(r)
  <2> DEFINE new == [req[r] EXCEPT !.pc = "done", !.outcome = o, !.diag = diag, !.reply = reply]
  <2>1. req' = [req EXCEPT ![r] = new]
    BY <1>2
  <2>2. new = [f \in ReqFields |-> new[f]] /\ new.pc = "done"
    BY <1>1, FieldsOf
  <2> HIDE DEF new
  <2> QED
    BY <1>1, <2>1, <2>2, Ends, Written DEF ReqInv
<1>3. CASE ServeVerb(r)
  <2>1. PICK o, reply : req' = [req EXCEPT ![r].pc = "done", ![r].outcome = o, ![r].reply = reply]
    BY <1>3 DEF ServeVerb
  <2>2. req' = [req EXCEPT ![r].pc = "done", ![r].outcome = o, ![r].diag = req[r].diag, ![r].reply = reply]
    BY <1>1, <2>1, FieldsOf DEF ReqInv
  <2> QED
    BY <1>2, <2>2
<1>4. CASE Diagnose(r) \/ ReportConfig(r) \/ CheckPaths(r)
  <2>1. PICK diag, reply : req' = [req EXCEPT ![r].pc = "done", ![r].diag = diag, ![r].reply = reply]
    BY <1>4 DEF Diagnose, ReportConfig, CheckPaths
  <2>2. req' = [req EXCEPT ![r].pc = "done", ![r].outcome = req[r].outcome, ![r].diag = diag, ![r].reply = reply]
    BY <1>1, <2>1, FieldsOf DEF ReqInv
  <2> QED
    BY <1>2, <2>2
<1> QED
  BY <1>3, <1>4

\* An edit of the project marks the requests at work on it; a death ends some.
LEMMA Others ==
    ASSUME ReqInv, EditTree \/ \E p : Die(p)
    PROVE  /\ req' = [q \in Requests |-> req'[q]]
           /\ \A q \in Requests :
                /\ ReqOK(req'[q], q)
                /\ req'[q].pc \in {req[q].pc, "dead"}
                /\ req[q].pc \in {"idle", "done", "dead"} => req'[q].pc = req[q].pc
                /\ \A f \in ReqFields \ {"pc", "dirty"} : req'[q][f] = req[q][f]
<1>0. \A q \in Requests : req[q] = [f \in ReqFields |-> req[q][f]] /\ ReqOK(req[q], q)
  BY DEF ReqInv, ReqOK
<1>1. CASE EditTree
  <2>1. ASSUME NEW q \in Requests
        PROVE  /\ req'[q] = [f \in ReqFields |-> req'[q][f]]
               /\ \A f \in ReqFields \ {"dirty"} : req'[q][f] = req[q][f]
    BY <1>0, <1>1, FieldsOf DEF EditTree
  <2>2. ASSUME NEW q \in Requests PROVE ReqOK(req'[q], q)
    <3>1. req'[q].pc = req[q].pc /\ req'[q].ask = req[q].ask /\ req'[q].out = req[q].out
          /\ req'[q].target = req[q].target
      BY <2>1, FieldsOf
    <3> QED
      BY <1>0, <2>1, <3>1 DEF ReqOK
  <2>3. \A q \in Requests : req'[q].pc = req[q].pc
    BY <2>1, FieldsOf
  <2>4. req' = [q \in Requests |-> req'[q]]
    BY <1>1 DEF EditTree
  <2> QED
    BY <2>1, <2>2, <2>3, <2>4
<1>2. CASE \E p : Die(p)
  <2>1. PICK its \in SUBSET {r \in Requests : Active(r)} :
            req' = [r \in Requests |-> IF r \in its THEN [req[r] EXCEPT !.pc = "dead"] ELSE req[r]]
    BY <1>2 DEF Die
  <2>2. ASSUME NEW q \in Requests, q \in its
        PROVE  /\ req'[q] = [f \in ReqFields |-> req'[q][f]] /\ req'[q].pc = "dead"
               /\ \A f \in ReqFields \ {"pc"} : req'[q][f] = req[q][f]
               /\ req[q].pc \notin {"idle", "done", "dead"}
    BY <1>0, <2>1, <2>2, FieldsOf DEF Active
  <2>3. ASSUME NEW q \in Requests, q \notin its PROVE req'[q] = req[q]
    BY <2>1, <2>3
  <2>4. ASSUME NEW q \in Requests, q \in its PROVE ReqOK(req'[q], q)
    BY <1>0, <2>2, <2>4, Ends
  <2>5. req' = [q \in Requests |-> req'[q]]
    BY <2>1
  <2> QED
    BY <1>0, <2>2, <2>3, <2>4, <2>5
<1> QED
  BY <1>1, <1>2

-----------------------------------------------------------------------------
(* Intake: the invariant is kept *)

Steps(r) ==
    \/ Arrive(r) \/ TruncateTemplate(r) \/ FillTemplate(r)
    \/ CliValidate(r) \/ McpValidate(r) \/ TuiPlan(r)
    \/ AdapterStart(r) \/ FollowOne(r) \/ EndHop(r) \/ WriteBundle(r)
    \/ Preflight(r) \/ \E o \in Outcomes : RunEnds(r, o)
    \/ EnsureDir(r) \/ WriteText(r) \/ WriteSidecar(r) \/ VerifySaved(r)
    \/ InitStart(r) \/ InitClear(r) \/ InitLink(r)
    \/ ServeVerb(r) \/ Diagnose(r) \/ ReportConfig(r) \/ CheckPaths(r)

\* Who can take a step.
LEMMA Movers ==
    ASSUME [IntakeNext]_intakeVars
    PROVE  \/ \E r \in Requests : Steps(r)
           \/ EditTree \/ (\E p : Die(p))
           \/ MakeDir \/ Tick
           \/ UNCHANGED intakeVars
<1>1. CASE IntakeNext
  <2>1. \/ \E r \in Requests : Steps(r)
        \/ EditTree \/ MakeDir \/ Tick
        \/ \E p \in Requests \cup {"mcp"} : Die(p)
    BY <1>1 DEF IntakeNext, Steps
  <2> QED
    BY <2>1
<1> QED
  BY <1>1 DEF intakeVars

\* Every step of a request keeps what its phase promises.
LEMMA StepMoves ==
    ASSUME ReqInv, NEW r \in Requests, Steps(r)
    PROVE  Moves(r)
BY Arrives, Templates, Validates, Prepares, Preflights, Runs, Saves, Initializes, Serves DEF Steps

\* What no step changes of the agenda, and what only becomes less.
AgendaKept ==
    /\ agenda' = [f \in AgendaFields |-> agenda'[f]]
    /\ agenda'.asks = agenda.asks /\ agenda'.alone = agenda.alone /\ agenda'.locked = agenda.locked
    /\ agenda'.env = agenda.env
    /\ agenda'.dirs \subseteq agenda.dirs /\ agenda'.edits \subseteq agenda.edits

\* The agenda only shrinks.
LEMMA AgendaSteps ==
    ASSUME ReqInv, [IntakeNext]_intakeVars
    PROVE  AgendaKept
<1>0. agenda = [f \in AgendaFields |-> agenda[f]]
  BY DEF ReqInv
<1>1. CASE UNCHANGED agenda
  BY <1>0, <1>1 DEF AgendaKept
<1>2. CASE \E n : agenda' = [agenda EXCEPT !.faults = n]
  BY <1>0, <1>2 DEF AgendaKept, AgendaFields
<1>3. CASE \E n : agenda' = [agenda EXCEPT !.deaths = n]
  BY <1>0, <1>3 DEF AgendaKept, AgendaFields
<1>4. CASE \E e : agenda' = [agenda EXCEPT !.edits = @ \ {e}]
  BY <1>0, <1>4 DEF AgendaKept, AgendaFields
<1>5. CASE \E l : agenda' = [agenda EXCEPT !.dirs = @ \ {l}]
  BY <1>0, <1>5 DEF AgendaKept, AgendaFields
<1>6. ASSUME NEW r, NEW reply, DiskFault(r, reply) PROVE AgendaKept
  BY <1>2, <1>6 DEF DiskFault
<1>7. ASSUME NEW r \in Requests, Steps(r) PROVE AgendaKept
  <2>1. CASE Arrive(r) \/ TruncateTemplate(r) \/ FillTemplate(r)
             \/ CliValidate(r) \/ McpValidate(r) \/ TuiPlan(r)
    BY <1>1, <2>1 DEF Arrive, TruncateTemplate, FillTemplate, CliValidate, McpValidate, TuiPlan
  <2>2. CASE AdapterStart(r) \/ FollowOne(r) \/ EndHop(r) \/ Preflight(r)
             \/ \E o \in Outcomes : RunEnds(r, o)
    BY <1>1, <2>2 DEF AdapterStart, FollowOne, EndHop, Preflight, RunEnds
  <2>3. CASE WriteBundle(r) \/ WriteSidecar(r) \/ VerifySaved(r)
    BY <1>1, <1>6, <2>3 DEF WriteBundle, WriteSidecar, VerifySaved
  <2>4. CASE EnsureDir(r)
    BY <1>1, <1>6, <2>4 DEF EnsureDir
  <2>5. CASE WriteText(r)
    BY <1>1, <1>6, <2>5 DEF WriteText
  <2>6. CASE InitStart(r) \/ InitClear(r) \/ InitLink(r)
    BY <1>1, <1>6, <2>6 DEF InitStart, InitClear, InitLink
  <2>7. CASE ServeVerb(r) \/ Diagnose(r) \/ ReportConfig(r) \/ CheckPaths(r)
    BY <1>1, <2>7 DEF ServeVerb, Diagnose, ReportConfig, CheckPaths
  <2> QED
    BY <1>7, <2>1, <2>2, <2>3, <2>4, <2>5, <2>6, <2>7 DEF Steps
<1>8. CASE EditTree
  BY <1>4, <1>8 DEF EditTree
<1>9. CASE MakeDir
  BY <1>5, <1>9 DEF MakeDir
<1>10. CASE \E p : Die(p)
  BY <1>3, <1>10 DEF Die
<1>11. CASE Tick \/ UNCHANGED intakeVars
  BY <1>1, <1>11 DEF Tick, intakeVars
<1> QED
  BY <1>7, <1>8, <1>9, <1>10, <1>11, Movers

\* Of a step that no request takes, too, a request ends where it began or is dead.
Follows ==
    /\ req' = [q \in Requests |-> req'[q]]
    /\ \A q \in Requests :
         /\ ReqOK(req'[q], q)
         /\ req'[q].pc \in Unwritten => req[q].pc \in Unwritten
         /\ req'[q].pc \in Uncleared => req[q].pc \in Uncleared

\* No step takes a request back to a phase it has left.
LEMMA AllFollow ==
    ASSUME ReqInv, [IntakeNext]_intakeVars
    PROVE  Follows
<1>1. ASSUME NEW r \in Requests, Steps(r) PROVE Follows
  BY <1>1, StepMoves DEF Moves, Follows, ReqInv
<1>2. CASE EditTree \/ \E p : Die(p)
  BY <1>2, Others DEF Follows, Unwritten, Uncleared, Early, Prep, Placed, Inits
<1>3. CASE MakeDir \/ Tick \/ UNCHANGED intakeVars
  BY <1>3 DEF MakeDir, Tick, intakeVars, Follows, ReqInv
<1> QED
  BY <1>1, <1>2, <1>3, Movers

\* The promises of the phases are kept by every step.
LEMMA ReqStep ==
    ASSUME ReqInv, [IntakeNext]_intakeVars
    PROVE  ReqInv'
<1>1. AgendaKept /\ Follows
  BY AgendaSteps, AllFollow
<1>2. \A r \in Requests : ReqOK(req[r], r)'
  BY <1>1 DEF Follows, ReqOK, Outs
<1> QED
  BY <1>1, <1>2 DEF ReqInv, AgendaKept, Follows

\* A path of words is no directory kept aside by an init.
LEMMA NotKept ==
    ASSUME NEW d \in Seq(Words), NEW r \in Requests
    PROVE  d # <<"backup", r>>
<1> SUFFICES ASSUME d = <<"backup", r>> PROVE FALSE
  OBVIOUS
<1>1. Len(d) = 2 /\ d[2] = r
  OBVIOUS
<1>2. d[2] \in Words
  BY <1>1
<1> QED
  BY <1>1, <1>2, IntakeAssumption

\* Nothing new on the disk is nothing to worry about.
LEMMA DiskFrame ==
    ASSUME DiskInv, Follows, DOMAIN disk' \subseteq DOMAIN disk
    PROVE  DiskInv'
BY DEF DiskInv, Follows

\* A file or a directory is put where no request that has not written may write.
LEMMA DiskPut ==
    ASSUME DiskInv, Follows, NEW r, (r \in Requests /\ req'[r].pc \notin Unwritten) \/ r \in Words,
           NEW place \in Outs(r), NEW v, disk' = Put(disk, place, v)
    PROVE  DiskInv'
<1>1. DOMAIN disk' = DOMAIN disk \cup {place}
  BY PutsOne
<1>2. place.dir \in Seq(Words) /\ place.name \in Words \X (Words \cup {r}) /\ place.ext \in Words
      /\ place = [dir |-> place.dir, name |-> place.name, ext |-> place.ext]
  BY DEF Outs
<1>3. place \in [dir : Seq(Words) \cup {<<"backup", q>> : q \in Requests},
                 name : Words \X (Words \cup Requests), ext : Words]
  BY <1>2
<1>4. \A q \in Requests : req'[q].pc \in Unwritten => place.name[2] # q
  BY <1>2, IntakeAssumption
<1>5. \A q \in Requests : place.dir # <<"backup", q>>
  BY <1>2, NotKept
<1> QED
  BY <1>1, <1>3, <1>4, <1>5 DEF DiskInv, Follows

\* What is moved aside keeps its name, and nothing else is in the way.
LEMMA Moved ==
    ASSUME DiskInv, NEW r \in Requests, req[r].pc \in Uncleared
    PROVE  /\ DOMAIN MovedAside(r) = {Aside(r, l) : l \in DOMAIN disk}
           /\ \A l \in DOMAIN disk : /\ Aside(r, l) \in DOMAIN MovedAside(r)
                                     /\ MovedAside(r)[Aside(r, l)] = disk[l]
                                     /\ Aside(r, l).name = l.name
                                     /\ Aside(r, l) = [dir |-> Aside(r, l).dir, name |-> l.name, ext |-> l.ext]
                                     /\ Aside(r, l).dir \in {l.dir, <<"backup", r>>}
<1>1. DOMAIN MovedAside(r) = {Aside(r, l) : l \in DOMAIN disk}
  BY DEF MovedAside
<1>2. ASSUME NEW l \in DOMAIN disk
      PROVE  /\ l = [dir |-> l.dir, name |-> l.name, ext |-> l.ext] /\ l.dir # <<"backup", r>>
             /\ Aside(r, l) = [dir |-> IF l.dir = LocalOut THEN <<"backup", r>> ELSE l.dir,
                               name |-> l.name, ext |-> l.ext]
  <2>1. l = [dir |-> l.dir, name |-> l.name, ext |-> l.ext] /\ l.dir # <<"backup", r>>
    BY DEF DiskInv
  <2> QED
    BY <2>1 DEF Aside
<1>3. ASSUME NEW l \in DOMAIN disk, NEW m \in DOMAIN disk, Aside(r, l) = Aside(r, m) PROVE l = m
  <2>1. l.name = m.name /\ l.ext = m.ext
    BY <1>2, <1>3
  <2>2. (IF l.dir = LocalOut THEN <<"backup", r>> ELSE l.dir) = (IF m.dir = LocalOut THEN <<"backup", r>> ELSE m.dir)
    BY <1>2, <1>3
  <2>3. l.dir = m.dir
    BY <1>2, <2>2
  <2> QED
    BY <1>2, <2>1, <2>3
<1>4. ASSUME NEW l \in DOMAIN disk PROVE MovedAside(r)[Aside(r, l)] = disk[l]
  <2> DEFINE m == CHOOSE x \in DOMAIN disk : Aside(r, x) = Aside(r, l)
  <2>1. m \in DOMAIN disk /\ Aside(r, m) = Aside(r, l)
    OBVIOUS
  <2>2. m = l
    BY <1>3, <2>1
  <2>3. MovedAside(r)[Aside(r, l)] = disk[m]
    BY DEF MovedAside
  <2> QED
    BY <2>2, <2>3
<1> QED
  BY <1>1, <1>2, <1>4

\* Three actions alone touch the disk.
LEMMA DiskStays ==
    ASSUME NEW r \in Requests, Steps(r)
    PROVE  UNCHANGED disk \/ EnsureDir(r) \/ WriteText(r) \/ InitClear(r)
<1>1. CASE Arrive(r) \/ TruncateTemplate(r) \/ FillTemplate(r)
           \/ CliValidate(r) \/ McpValidate(r) \/ TuiPlan(r)
  BY <1>1 DEF Arrive, TruncateTemplate, FillTemplate, CliValidate, McpValidate, TuiPlan, files
<1>2. CASE AdapterStart(r) \/ FollowOne(r) \/ EndHop(r) \/ Preflight(r)
           \/ \E o \in Outcomes : RunEnds(r, o)
  BY <1>2 DEF AdapterStart, FollowOne, EndHop, Preflight, RunEnds, files
<1>3. CASE WriteBundle(r) \/ WriteSidecar(r) \/ VerifySaved(r)
  BY <1>3 DEF WriteBundle, WriteSidecar, VerifySaved, files
<1>4. CASE InitStart(r) \/ InitLink(r)
  BY <1>4 DEF InitStart, InitLink
<1>5. CASE ServeVerb(r) \/ Diagnose(r) \/ ReportConfig(r) \/ CheckPaths(r)
  BY <1>5 DEF ServeVerb, Diagnose, ReportConfig, CheckPaths, files
<1> QED
  BY <1>1, <1>2, <1>3, <1>4, <1>5 DEF Steps

\* How the disk looks after each of the four writes.
LEMMA Ensured ==
    ASSUME ReqInv, NEW r \in Requests, EnsureDir(r)
    PROVE  /\ req[r].pc = "save"
           /\ \/ UNCHANGED disk
              \/ \E place \in Outs(r) : \E v :
                   /\ disk' = Put(disk, place, v) /\ place.name[2] = r
                   /\ req'[r].pc = "write" /\ req'[r].target = place
<1>1. req[r] = [f \in ReqFields |-> req[r][f]] /\ ReqOK(req[r], r) /\ req[r].pc = "save"
  BY DEF ReqInv, ReqOK, EnsureDir, At
<1> DEFINE out == req[r].out
           inside == [OwnName(r, PathOf(out), "output") EXCEPT !.ext = ".md"]
           empty == [by |-> r, kind |-> "empty"]
<1>2. \/ UNCHANGED disk
      \/ req' = [req EXCEPT ![r].pc = "write", ![r].target = inside] /\ disk' = Put(disk, inside, empty)
  BY DEF EnsureDir
<1>3. out \in Outs(r)
  BY <1>1 DEF ReqOK, Placed
<1>4. inside \in Outs(r) /\ inside.name[2] = r
  <2>1. PathOf(out) \in Seq(Words) /\ "output" \in Words /\ ".md" \in Words
    BY <1>3, Paths, IntakeAssumption
  <2> HIDE DEF out
  <2> QED
    BY <2>1 DEF OwnName, Outs
<1> HIDE DEF inside, empty
<1>5. CASE req' = [req EXCEPT ![r].pc = "write", ![r].target = inside] /\ disk' = Put(disk, inside, empty)
  <2>1. req'[r].pc = "write" /\ req'[r].target = inside
    BY <1>1, <1>5, FieldsOf DEF ReqInv
  <2> QED
    BY <1>1, <1>4, <1>5, <2>1
<1> QED
  BY <1>1, <1>2, <1>5

\* The write of a text puts it at the target, or releases an empty name.
LEMMA TextWritten ==
    ASSUME ReqInv, NEW r \in Requests, WriteText(r)
    PROVE  /\ req[r].pc = "write" /\ req[r].target \in Outs(r)
           /\ req'[r].pc \notin Unwritten /\ req'[r].target = req[r].target
           /\ \/ UNCHANGED disk
              \/ /\ DOMAIN disk' \subseteq DOMAIN disk
                 /\ \A l \in DOMAIN disk : disk[l].kind # "empty" => l \in DOMAIN disk' /\ disk'[l] = disk[l]
                 /\ \A l \in DOMAIN disk' : disk'[l] = disk[l]
              \/ \E v : /\ disk' = Put(disk, Phys(req[r].target), v) /\ v.by = r
                        /\ req'[r].pc = "sidecar"
<1>1. /\ req[r] = [f \in ReqFields |-> req[r][f]] /\ ReqOK(req[r], r) /\ req[r].pc = "write"
      /\ req[r].target \in Outs(r)
  BY DEF ReqInv, ReqOK, WriteText, At, Saving
<1>2. req'[r].pc \notin Unwritten /\ req'[r].target = req[r].target
  <2>1. \E at \in {"done", "sidecar"} : \E h, reply :
            req' = [req EXCEPT ![r].pc = at, ![r].hit = h, ![r].reply = reply]
    <3>1. [req EXCEPT ![r].pc = "sidecar"]
            = [req EXCEPT ![r].pc = "sidecar", ![r].hit = req[r].hit, ![r].reply = req[r].reply]
      BY <1>1, FieldsOf DEF ReqInv
    <3>2. ASSUME NEW reply
          PROVE [req EXCEPT ![r].pc = "done", ![r].reply = reply]
                  = [req EXCEPT ![r].pc = "done", ![r].hit = req[r].hit, ![r].reply = reply]
      BY <1>1, FieldsOf DEF ReqInv
    <3>3. \/ \E reply : req' = [req EXCEPT ![r].pc = "done", ![r].hit = TRUE, ![r].reply = reply]
          \/ \E reply : req' = [req EXCEPT ![r].pc = "done", ![r].reply = reply]
          \/ req' = [req EXCEPT ![r].pc = "sidecar"]
      BY DEF WriteText, DiskFault, Fail, Reply, Goto
    <3>4. CASE \E reply : req' = [req EXCEPT ![r].pc = "done", ![r].hit = TRUE, ![r].reply = reply]
      <4>1. PICK reply : req' = [req EXCEPT ![r].pc = "done", ![r].hit = TRUE, ![r].reply = reply]
        BY <3>4
      <4> WITNESS "done" \in {"done", "sidecar"}, TRUE, reply
      <4> QED
        BY <4>1
    <3>5. CASE \E reply : req' = [req EXCEPT ![r].pc = "done", ![r].reply = reply]
      <4>1. PICK reply : req' = [req EXCEPT ![r].pc = "done", ![r].reply = reply]
        BY <3>5
      <4> WITNESS "done" \in {"done", "sidecar"}, req[r].hit, reply
      <4> QED
        BY <3>2, <4>1
    <3>6. CASE req' = [req EXCEPT ![r].pc = "sidecar"]
      <4> WITNESS "sidecar" \in {"done", "sidecar"}, req[r].hit, req[r].reply
      <4> QED
        BY <3>1, <3>6
    <3> QED
      BY <3>3, <3>4, <3>5, <3>6
  <2>2. PICK at \in {"done", "sidecar"} : \E h, reply :
            req' = [req EXCEPT ![r].pc = at, ![r].hit = h, ![r].reply = reply]
    BY <2>1
  <2>3. req'[r].pc = at /\ req'[r].target = req[r].target
    BY <1>1, <2>2, FieldsOf DEF ReqInv
  <2> QED
    BY <2>3 DEF Unwritten, Early, Prep, Placed, Inits
<1>3. CASE disk' = ReleaseReservedName(Phys(req[r].target))
  BY <1>1, <1>2, <1>3 DEF ReleaseReservedName
<1>4. ASSUME NEW v, disk' = Put(disk, Phys(req[r].target), v), v.by = r, Goto(r, "sidecar")
      PROVE  req'[r].pc = "sidecar"
  BY <1>1, <1>4, FieldsOf DEF ReqInv, Goto
<1>5. \/ UNCHANGED disk
      \/ disk' = ReleaseReservedName(Phys(req[r].target))
      \/ \E v : disk' = Put(disk, Phys(req[r].target), v) /\ v.by = r /\ Goto(r, "sidecar")
  BY DEF WriteText
<1> QED
  BY <1>1, <1>2, <1>3, <1>4, <1>5

\* Names of its own appear on the disk only once their request writes.
LEMMA DiskStep ==
    ASSUME ReqInv, DiskInv, [IntakeNext]_intakeVars
    PROVE  DiskInv'
<1>1. Follows
  BY AllFollow
<1>2. CASE UNCHANGED disk
  BY <1>1, <1>2, DiskFrame
<1>3. ASSUME NEW r \in Requests, EnsureDir(r) PROVE DiskInv'
  <2>1. CASE \E place \in Outs(r) : \E v :
                   /\ disk' = Put(disk, place, v) /\ place.name[2] = r
                   /\ req'[r].pc = "write" /\ req'[r].target = place
    BY <1>1, <2>1, DiskPut DEF Unwritten, Early, Prep, Placed, Inits
  <2> QED
    BY <1>2, <1>3, <2>1, Ensured
<1>4. ASSUME NEW r \in Requests, WriteText(r) PROVE DiskInv'
  <2>1. req'[r].pc \notin Unwritten /\ Phys(req[r].target) \in Outs(r)
    BY <1>4, TextWritten, Paths
  <2>2. CASE \E v : disk' = Put(disk, Phys(req[r].target), v)
    BY <1>1, <2>1, <2>2, DiskPut
  <2>3. CASE DOMAIN disk' \subseteq DOMAIN disk
    BY <1>1, <2>3, DiskFrame
  <2> QED
    BY <1>2, <1>4, <2>2, <2>3, TextWritten
<1>5. ASSUME NEW r \in Requests, InitClear(r) PROVE DiskInv'
  <2>1. req[r].pc = "clear"
    BY <1>5 DEF InitClear, At
  <2>2. CASE UNCHANGED disk
    BY <1>2, <2>2
  <2>3. CASE Goto(r, "link") /\ disk' = MovedAside(r)
    <3>1. req'[r].pc = "link"
      BY <2>3, FieldsOf DEF ReqInv, ReqOK, Goto
    <3>2. ASSUME NEW m \in DOMAIN disk'
          PROVE  /\ m \in [dir : Seq(Words) \cup {<<"backup", q>> : q \in Requests},
                           name : Words \X (Words \cup Requests), ext : Words]
                 /\ \A q \in Requests : req'[q].pc \in Unwritten => m.name[2] # q
                 /\ \A q \in Requests : req'[q].pc \in Uncleared => m.dir # <<"backup", q>>
      <4>1. PICK l \in DOMAIN disk :
                 m = [dir |-> m.dir, name |-> l.name, ext |-> l.ext] /\ m.dir \in {l.dir, <<"backup", r>>}
        <5>0. m \in {Aside(r, l) : l \in DOMAIN disk}
          <6>1. DOMAIN MovedAside(r) = {Aside(r, l) : l \in DOMAIN disk}
            BY <2>1, Moved DEF Uncleared
          <6> QED
            BY <2>3, <3>2, <6>1
        <5>1. PICK l \in DOMAIN disk : m = Aside(r, l)
          BY <5>0
        <5>2. /\ Aside(r, l) = [dir |-> Aside(r, l).dir, name |-> l.name, ext |-> l.ext]
              /\ Aside(r, l).dir \in {l.dir, <<"backup", r>>}
          BY <2>1, Moved DEF Uncleared
        <5>3. m = [dir |-> m.dir, name |-> l.name, ext |-> l.ext] /\ m.dir \in {l.dir, <<"backup", r>>}
          BY <5>1, <5>2
        <5> QED
          BY <5>3
      <4>2. m.name = l.name
        BY <4>1
      <4>3. \A q \in Requests : q # r => <<"backup", q>> # <<"backup", r>>
        OBVIOUS
      <4>4. \A q \in Requests : req'[q].pc \in Uncleared => q # r /\ req[q].pc \in Uncleared
        BY <1>1, <3>1 DEF Follows, Uncleared
      <4> QED
        BY <1>1, <4>1, <4>2, <4>3, <4>4 DEF DiskInv, Follows
    <3> QED
      BY <3>2 DEF DiskInv
  <2> QED
    BY <1>5, <2>2, <2>3 DEF InitClear
<1>6. CASE MakeDir
  <2>1. PICK l \in agenda.dirs : disk' = Put(disk, l, [by |-> "operator", kind |-> "dir"])
    BY <1>6 DEF MakeDir
  <2>2. "xdg" \in Words /\ l \in Outs("xdg")
    BY <2>1, IntakeAssumption DEF ReqInv, Places, Outs
  <2> QED
    BY <1>1, <2>1, <2>2, DiskPut
<1>7. CASE EditTree \/ Tick \/ (\E p : Die(p)) \/ UNCHANGED intakeVars
  BY <1>2, <1>7 DEF EditTree, Tick, Die, files, intakeVars
<1> QED
  BY <1>2, <1>3, <1>4, <1>5, <1>6, <1>7, Movers, DiskStays

\* Before the first request the disk has the operator's names only.
LEMMA IntakeStarts ==
    ASSUME IntakeInit
    PROVE  ReqInv /\ DiskInv
<1>1. agenda \in Agendas /\ disk = agenda.disk /\ req = [r \in Requests |-> Idle]
  BY DEF IntakeInit
<1>2. ReqInv
  <2>1. \A r \in Requests : ReqOK(Idle, r)
    BY FieldsOf DEF ReqOK, Idle, Unwritten, Early, Prep, Placed, Saving, Inits
  <2>2. agenda = [f \in AgendaFields |-> agenda[f]]
    BY <1>1, IntakeAssumption
  <2> QED
    BY <1>1, <2>1, <2>2, IntakeAssumption DEF ReqInv
<1>3. ASSUME NEW l \in DOMAIN disk
      PROVE  /\ l \in [dir : Seq(Words) \cup {<<"backup", r>> : r \in Requests},
                       name : Words \X (Words \cup Requests), ext : Words]
             /\ \A r \in Requests : l.name[2] # r /\ l.dir # <<"backup", r>>
  <2>1. l \in Places
    BY <1>1, <1>3, IntakeAssumption
  <2>2. l.dir \in Seq(Words) /\ l.name[2] \in Words
    BY <2>1 DEF Places
  <2> QED
    BY <2>1, <2>2, NotKept, IntakeAssumption DEF Places
<1> QED
  BY <1>2, <1>3 DEF DiskInv

\* What a request holds in each of its phases, for every number of requests.
THEOREM RequestsSound == IntakeSpec => [](ReqInv /\ DiskInv)
<1>1. IntakeInit => ReqInv /\ DiskInv
  BY IntakeStarts
<1>2. ReqInv /\ DiskInv /\ [IntakeNext]_intakeVars => ReqInv' /\ DiskInv'
  BY ReqStep, DiskStep
<1> QED
  BY <1>1, <1>2, PTL DEF IntakeSpec

-----------------------------------------------------------------------------
(* Intake: no step loses what the disk holds *)

\* What is at a place after a step, of what was there before it.
KeptAt(l) ==
    \/ \E m \in DOMAIN disk' : disk'[m] = disk[l] /\ m.name = l.name
    \/ /\ l \in DOMAIN disk'
       /\ \E r \in Requests : disk'[l].by = r /\ Base(req[r].target) = Base(l)

\* A link to the shared directory leads to the same place.
LEMMA SameBase ==
    ASSUME NEW r, NEW loc \in Outs(r)
    PROVE  Base(Phys(loc)) = Base(loc)
<1>1. loc = [dir |-> loc.dir, name |-> loc.name, ext |-> loc.ext]
  BY DEF Outs
<1>2. CASE loc.dir = LocalOut /\ local = "link"
  <2>1. Phys(loc) = [dir |-> XdgOut, name |-> loc.name, ext |-> loc.ext]
    BY <1>1, <1>2 DEF Phys
  <2> QED
    BY <1>2, <2>1 DEF Base
<1>3. CASE ~(loc.dir = LocalOut /\ local = "link")
  BY <1>3 DEF Phys
<1> QED
  BY <1>2, <1>3

\* What a write at a place leaves alone.
LEMMA PutStays ==
    ASSUME NEW l \in DOMAIN disk, NEW p, NEW v, disk' = Put(disk, p, v)
    PROVE  l \in DOMAIN disk' /\ disk'[p] = v /\ (l # p => disk'[l] = disk[l])
BY DEF Put

\* What a place holds is kept, moved aside or overwritten by a request sent there.
LEMMA DiskKept ==
    ASSUME ReqInv, DiskInv, [IntakeNext]_intakeVars, NEW l \in DOMAIN disk, disk[l].kind # "empty"
    PROVE  KeptAt(l)
<1>1. CASE l \in DOMAIN disk' /\ disk'[l] = disk[l]
  BY <1>1 DEF KeptAt
<1>2. CASE UNCHANGED disk
  BY <1>1, <1>2
<1>3. ASSUME NEW r \in Requests, EnsureDir(r) PROVE KeptAt(l)
  <2>1. CASE \E place \in Outs(r) : \E v :
               /\ disk' = Put(disk, place, v) /\ place.name[2] = r
               /\ req'[r].pc = "write" /\ req'[r].target = place
    <3>1. PICK place \in Outs(r) : (\E v : disk' = Put(disk, place, v)) /\ place.name[2] = r
      BY <2>1
    <3>2. req[r].pc = "save"
      BY <1>3, Ensured
    <3>3. l # place
      BY <3>1, <3>2 DEF DiskInv, Unwritten, Placed
    <3>4. l \in DOMAIN disk' /\ disk'[l] = disk[l]
      BY <3>1, <3>3, PutStays
    <3> QED
      BY <1>1, <3>4
  <2> QED
    BY <1>2, <1>3, <2>1, Ensured
<1>4. ASSUME NEW r \in Requests, WriteText(r) PROVE KeptAt(l)
  <2>1. req[r].target \in Outs(r)
    BY <1>4, TextWritten
  <2>2. CASE \E v : disk' = Put(disk, Phys(req[r].target), v) /\ v.by = r
    <3>1. PICK v : disk' = Put(disk, Phys(req[r].target), v) /\ v.by = r
      BY <2>2
    <3>2. CASE l = Phys(req[r].target)
      <4>1. l \in DOMAIN disk' /\ disk'[l].by = r
        BY <3>1, <3>2, PutStays
      <4>2. Base(req[r].target) = Base(l)
        BY <2>1, <3>2, SameBase
      <4> QED
        BY <4>1, <4>2 DEF KeptAt
    <3>3. CASE l # Phys(req[r].target)
      <4>1. l \in DOMAIN disk' /\ disk'[l] = disk[l]
        BY <3>1, <3>3, PutStays
      <4> QED
        BY <1>1, <4>1
    <3> QED
      BY <3>2, <3>3
  <2>3. CASE l \in DOMAIN disk' /\ disk'[l] = disk[l]
    BY <1>1, <2>3
  <2> QED
    BY <1>2, <1>4, <2>2, <2>3, TextWritten
<1>5. ASSUME NEW r \in Requests, InitClear(r) PROVE KeptAt(l)
  <2>1. req[r].pc \in Uncleared
    BY <1>5 DEF InitClear, At, Uncleared
  <2>2. CASE disk' = MovedAside(r)
    <3>1. /\ Aside(r, l) \in DOMAIN MovedAside(r) /\ MovedAside(r)[Aside(r, l)] = disk[l]
          /\ Aside(r, l).name = l.name
      BY <2>1, Moved
    <3> QED
      BY <2>2, <3>1 DEF KeptAt
  <2> QED
    BY <1>2, <1>5, <2>2 DEF InitClear
<1>6. CASE MakeDir
  <2>1. PICK p \in agenda.dirs \ DOMAIN disk : disk' = Put(disk, p, [by |-> "operator", kind |-> "dir"])
    BY <1>6 DEF MakeDir
  <2>2. l \in DOMAIN disk' /\ disk'[l] = disk[l]
    BY <2>1, PutStays
  <2> QED
    BY <1>1, <2>2
<1>7. CASE EditTree \/ Tick \/ (\E p : Die(p)) \/ UNCHANGED intakeVars
  BY <1>2, <1>7 DEF EditTree, Tick, Die, files, intakeVars
<1> QED
  BY <1>2, <1>3, <1>4, <1>5, <1>6, <1>7, Movers, DiskStays

\* Only an init touches the legacy directory.
LEMMA LegacyStays ==
    ASSUME NEW r \in Requests, Steps(r)
    PROVE  UNCHANGED legacy \/ InitStart(r)
<1>1. CASE Arrive(r) \/ TruncateTemplate(r) \/ FillTemplate(r)
           \/ CliValidate(r) \/ McpValidate(r) \/ TuiPlan(r)
  BY <1>1 DEF Arrive, TruncateTemplate, FillTemplate, CliValidate, McpValidate, TuiPlan, files
<1>2. CASE AdapterStart(r) \/ FollowOne(r) \/ EndHop(r) \/ Preflight(r)
           \/ \E o \in Outcomes : RunEnds(r, o)
  BY <1>2 DEF AdapterStart, FollowOne, EndHop, Preflight, RunEnds, files
<1>3. CASE WriteBundle(r) \/ EnsureDir(r) \/ WriteText(r) \/ WriteSidecar(r) \/ VerifySaved(r)
  BY <1>3 DEF WriteBundle, EnsureDir, WriteText, WriteSidecar, VerifySaved, files
<1>4. CASE InitClear(r) \/ InitLink(r)
  BY <1>4 DEF InitClear, InitLink
<1>5. CASE ServeVerb(r) \/ Diagnose(r) \/ ReportConfig(r) \/ CheckPaths(r)
  BY <1>5 DEF ServeVerb, Diagnose, ReportConfig, CheckPaths, files
<1> QED
  BY <1>1, <1>2, <1>3, <1>4, <1>5 DEF Steps

\* The directory of an older release is moved aside, and only once.
LEMMA LegacyKept ==
    ASSUME [IntakeNext]_intakeVars, legacy.now = "dir", legacy'.now # "dir"
    PROVE  ~legacy.kept /\ legacy'.kept
<1>1. ASSUME NEW r \in Requests, InitStart(r) PROVE ~legacy.kept /\ legacy'.kept
  <2>1. ~(legacy.now = "dir" /\ legacy.kept)
        /\ legacy' = [now |-> "absent", kept |-> legacy.kept \/ legacy.now = "dir"]
    BY <1>1 DEF InitStart
  <2> QED
    BY <2>1
<1>2. CASE UNCHANGED legacy
  BY <1>2
<1>3. CASE EditTree \/ MakeDir \/ Tick \/ (\E p : Die(p)) \/ UNCHANGED intakeVars
  BY <1>3 DEF EditTree, MakeDir, Tick, Die, files, intakeVars
<1> QED
  BY <1>1, <1>2, <1>3, Movers, LegacyStays

\* No step of a run or of an init loses an answer that was saved before, or what the
\* operator kept in the directories that init replaces.
THEOREM NothingIsLost == IntakeSpec => NothingLost
<1>1. ReqInv /\ DiskInv /\ [IntakeNext]_intakeVars =>
        /\ \A l \in DOMAIN disk : disk[l].kind # "empty" =>
             \/ \E m \in DOMAIN disk' : disk'[m] = disk[l] /\ m.name = l.name
             \/ /\ l \in DOMAIN disk'
                /\ \E r \in Requests : disk'[l].by = r /\ Base(req[r].target) = Base(l)
        /\ legacy.now = "dir" /\ legacy'.now # "dir" => ~legacy.kept /\ legacy'.kept
  BY DiskKept, LegacyKept DEF KeptAt
<1> QED
  BY <1>1, RequestsSound, PTL DEF IntakeSpec, NothingLost

-----------------------------------------------------------------------------
(* Intake: what each step of a request changes in it *)

\* Only these fields of a request may change.
Only(r, fields) == \A f \in ReqFields \ fields : req'[r][f] = req[r][f]

\* A record is what its fields are.
LEMMA Known ==
    ASSUME ReqInv, NEW r \in Requests
    PROVE  /\ req = [q \in Requests |-> req[q]]
           /\ req[r] = [f \in ReqFields |-> req[r][f]] /\ ReqOK(req[r], r)
BY DEF ReqInv, ReqOK

\* A reply changes the phase and the reply.
LEMMA ReplySets ==
    ASSUME ReqInv, NEW r \in Requests, NEW reply, Reply(r, reply)
    PROVE  req'[r].pc = "done" /\ req'[r].reply = reply /\ Only(r, {"pc", "reply"})
<1> DEFINE new == [req[r] EXCEPT !.pc = "done", !.reply = reply]
<1>1. req'[r] = new
  BY Known DEF Reply
<1>2. new.pc = "done" /\ new.reply = reply /\ \A f \in ReqFields \ {"pc", "reply"} : new[f] = req[r][f]
  BY Known, FieldsOf
<1> HIDE DEF new
<1> QED
  BY <1>1, <1>2 DEF Only

\* A refused write is remembered as well.
LEMMA FaultSets ==
    ASSUME ReqInv, NEW r \in Requests, NEW reply, DiskFault(r, reply)
    PROVE  /\ req'[r].pc = "done" /\ req'[r].hit = TRUE /\ req'[r].reply = reply
           /\ Only(r, {"pc", "hit", "reply"})
<1> DEFINE new == [req[r] EXCEPT !.pc = "done", !.hit = TRUE, !.reply = reply]
<1>1. req'[r] = new
  BY Known DEF DiskFault
<1>2. /\ new.pc = "done" /\ new.hit = TRUE /\ new.reply = reply
      /\ \A f \in ReqFields \ {"pc", "hit", "reply"} : new[f] = req[r][f]
  BY Known, FieldsOf
<1> HIDE DEF new
<1> QED
  BY <1>1, <1>2 DEF Only

\* Going on changes the phase alone.
LEMMA GotoSets ==
    ASSUME ReqInv, NEW r \in Requests, NEW at, Goto(r, at)
    PROVE  req'[r].pc = at /\ Only(r, {"pc"})
<1> DEFINE new == [req[r] EXCEPT !.pc = at]
<1>1. req'[r] = new
  BY Known DEF Goto
<1>2. new.pc = at /\ \A f \in ReqFields \ {"pc"} : new[f] = req[r][f]
  BY Known, FieldsOf
<1> HIDE DEF new
<1> QED
  BY <1>1, <1>2 DEF Only

\* An arrival brings the ask.
LEMMA ArriveSets ==
    ASSUME ReqInv, NEW r \in Requests, Arrive(r)
    PROVE  /\ req[r].pc = "idle" /\ Only(r, {"pc", "ask"})
           /\ req'[r].ask \in AllAsks /\ req'[r].pc = FirstStep(req'[r].ask)
<1>1. PICK a \in agenda.asks : req' = [req EXCEPT ![r].pc = FirstStep(a), ![r].ask = a]
  BY DEF Arrive
<1> DEFINE at == FirstStep(a)
           new == [req[r] EXCEPT !.pc = at, !.ask = a]
<1>2. req'[r] = new
  BY <1>1, Known
<1>3. a \in AllAsks
  BY DEF ReqInv
<1> HIDE DEF at
<1>4. new.pc = at /\ new.ask = a /\ \A f \in ReqFields \ {"pc", "ask"} : new[f] = req[r][f]
  BY Known, FieldsOf
<1> HIDE DEF new
<1> QED
  BY <1>2, <1>3, <1>4 DEF Only, at, Arrive, At

\* A validation refuses, or sets the destination; the plan of a slot may drop the
\* attachment.
LEMMA ValidateSets ==
    ASSUME ReqInv, NEW r \in Requests, CliValidate(r) \/ McpValidate(r) \/ TuiPlan(r)
    PROVE  /\ req[r].pc = "validate"
           /\ \/ \E code : Reply(r, Refuse(code))
              \/ /\ req'[r].pc = "start" /\ Only(r, {"pc", "ask", "out"})
                 /\ req'[r].ask.role = req[r].ask.role
<1>1. req[r].pc = "validate"
  BY DEF CliValidate, McpValidate, TuiPlan, At
<1>2. CASE CliValidate(r) \/ McpValidate(r)
  <2>1. \/ \E code : Reply(r, Refuse(code))
        \/ \E out : req' = [req EXCEPT ![r].pc = "start", ![r].out = out]
    BY <1>2 DEF CliValidate, McpValidate
  <2>2. ASSUME NEW out, req' = [req EXCEPT ![r].pc = "start", ![r].out = out]
        PROVE  req'[r].pc = "start" /\ Only(r, {"pc", "ask", "out"}) /\ req'[r].ask = req[r].ask
    <3> DEFINE new == [req[r] EXCEPT !.pc = "start", !.out = out]
    <3>1. req'[r] = new
      BY <2>2, Known
    <3>2. /\ new.pc = "start" /\ new.ask = req[r].ask
          /\ \A f \in ReqFields \ {"pc", "ask", "out"} : new[f] = req[r][f]
      BY Known, FieldsOf
    <3> HIDE DEF new
    <3> QED
      BY <3>1, <3>2 DEF Only
  <2> QED
    BY <1>1, <2>1, <2>2
<1>3. CASE TuiPlan(r)
  <2>1. \/ Reply(r, Refuse("plan"))
        \/ \E at, v, out : req' = [req EXCEPT ![r].pc = "start", ![r].ask = [Ask(r) EXCEPT !.attach = at, !.verb = v],
                                              ![r].out = out]
    <3> DEFINE plan == SlotPlan(FS, [prompt |-> Ask(r).prompt, role |-> Ask(r).role, attachment |-> Ask(r).attach,
                              output |-> IF Ask(r).out = NoOut THEN NoPath ELSE PathOf(Ask(r).out)])
               at == plan.attachment
               v == IF plan.attachment = NoPath THEN "file" ELSE "attach"
               out == ResolvePipelineOutputPath(r, Ask(r).out)
    <3>1. \/ Reply(r, Refuse("plan"))
          \/ req' = [req EXCEPT ![r].pc = "start", ![r].ask = [Ask(r) EXCEPT !.attach = at, !.verb = v],
                                ![r].out = out]
      BY <1>3 DEF TuiPlan
    <3> HIDE DEF plan, at, v, out
    <3> QED
      BY <3>1
  <2>2. ASSUME NEW at, NEW v, NEW out,
               req' = [req EXCEPT ![r].pc = "start", ![r].ask = [Ask(r) EXCEPT !.attach = at, !.verb = v],
                                  ![r].out = out]
        PROVE  req'[r].pc = "start" /\ Only(r, {"pc", "ask", "out"}) /\ req'[r].ask.role = req[r].ask.role
    <3> DEFINE ask == [Ask(r) EXCEPT !.attach = at, !.verb = v]
               new == [req[r] EXCEPT !.pc = "start", !.ask = ask, !.out = out]
    <3>1. req'[r] = new
      BY <2>2, Known
    <3>2. ask.role = Ask(r).role
      <4>1. Ask(r) \in RunAsks
        BY <1>1, Known DEF Ask, ReqOK, Early
      <4> QED
        BY <4>1 DEF RunAsks
    <3> HIDE DEF ask
    <3>3. new.pc = "start" /\ new.ask = ask /\ \A f \in ReqFields \ {"pc", "ask", "out"} : new[f] = req[r][f]
      BY Known, FieldsOf
    <3> HIDE DEF new
    <3> QED
      BY <3>1, <3>2, <3>3 DEF Only, Ask
  <2>3. CASE \E at, v, out : req' = [req EXCEPT ![r].pc = "start", ![r].ask = [Ask(r) EXCEPT !.attach = at, !.verb = v],
                                              ![r].out = out]
    <3>1. PICK at, v, out : req' = [req EXCEPT ![r].pc = "start", ![r].ask = [Ask(r) EXCEPT !.attach = at, !.verb = v],
                                               ![r].out = out]
      BY <2>3
    <3>2. req'[r].pc = "start" /\ Only(r, {"pc", "ask", "out"}) /\ req'[r].ask.role = req[r].ask.role
      BY <2>2, <3>1
    <3> QED
      BY <1>1, <3>2
  <2> QED
    BY <1>1, <2>1, <2>3
<1> QED
  BY <1>2, <1>3

\* The failure texts of a run and of an init are no success, nor is a refusal.
LEMMA Failures ==
    ASSUME NEW s, NEW code, NEW said \in {"failed", "auth"}
    PROVE  ~RunReply(s, said).ok /\ ~InitReply(s, FALSE).ok /\ ~Refuse(code).ok
BY DEF RunReply, McpRunReply, CliRunReply, Refuse, InitReply

\* A request that ends in a refusal.
Refused(r) == \E reply : ~reply.ok /\ (Reply(r, reply) \/ DiskFault(r, reply))

\* A refused request ends without success.
LEMMA RefusedSets ==
    ASSUME ReqInv, NEW r \in Requests, Refused(r)
    PROVE  req'[r].pc = "done" /\ ~req'[r].reply.ok /\ Only(r, {"pc", "hit", "reply"})
<1>1. PICK reply : ~reply.ok /\ (Reply(r, reply) \/ DiskFault(r, reply))
  BY DEF Refused
<1>2. CASE Reply(r, reply)
  BY <1>1, <1>2, ReplySets DEF Only
<1>3. CASE DiskFault(r, reply)
  BY <1>1, <1>3, FaultSets DEF Only
<1> QED
  BY <1>1, <1>2, <1>3

\* Who has an attachment at the end of its preparation has the file it asked for or a
\* bundle of its own of the folder.
LEMMA PrepareSets ==
    ASSUME ReqInv, NEW r \in Requests, AdapterStart(r) \/ FollowOne(r) \/ EndHop(r) \/ WriteBundle(r)
    PROVE  /\ req[r].pc \in {"start", "follow"}
           /\ \/ Refused(r) /\ UNCHANGED bundles
              \/ /\ req'[r].pc \in {"follow", "preflight", "bundled"} /\ Only(r, {"pc", "walk", "attach"})
                 /\ \/ UNCHANGED bundles /\ req'[r].pc = "follow"
                    \/ UNCHANGED bundles /\ req'[r].attach = req[r].ask.attach
                    \/ /\ UNCHANGED bundles /\ req'[r].attach = req[r].attach
                       /\ req[r].pc = "start" /\ req[r].ask.attach = NoPath
                    \/ \E n, v : /\ req'[r].attach = <<req[r].ask.attach, n>>
                                 /\ bundles' = Put(bundles, <<req[r].ask.attach, n>>, v) /\ v.by = r
<1>1. CASE AdapterStart(r)
  <2>1. req[r].pc = "start" /\ UNCHANGED bundles
    BY <1>1 DEF AdapterStart, At, project
  <2>2. \/ Ask(r).attach = NoPath /\ Goto(r, "preflight")
        \/ Fail(r, "failed")
        \/ \E walk : req' = [req EXCEPT ![r].pc = "follow", ![r].walk = walk]
        \/ req' = [req EXCEPT ![r].pc = "preflight", ![r].attach = Ask(r).attach]
    BY <1>1 DEF AdapterStart
  <2>3. CASE Ask(r).attach = NoPath /\ Goto(r, "preflight")
    BY <2>1, <2>3, GotoSets, FieldsOf DEF Only, Ask
  <2>4. CASE Fail(r, "failed")
    BY <2>1, <2>4, Failures DEF Fail, Refused
  <2>5. CASE \E walk : req' = [req EXCEPT ![r].pc = "follow", ![r].walk = walk]
    <3>1. PICK walk : req' = [req EXCEPT ![r].pc = "follow", ![r].walk = walk]
      BY <2>5
    <3> DEFINE new == [req[r] EXCEPT !.pc = "follow", !.walk = walk]
    <3>2. req'[r] = new
      BY <3>1, Known
    <3>3. new.pc = "follow" /\ \A f \in ReqFields \ {"pc", "walk", "attach"} : new[f] = req[r][f]
      BY Known, FieldsOf
    <3> HIDE DEF new
    <3> QED
      BY <2>1, <3>2, <3>3 DEF Only
  <2>6. CASE req' = [req EXCEPT ![r].pc = "preflight", ![r].attach = Ask(r).attach]
    <3> DEFINE new == [req[r] EXCEPT !.pc = "preflight", !.attach = Ask(r).attach]
    <3>2. req'[r] = new
      BY <2>6, Known
    <3>3. /\ new.pc = "preflight" /\ new.attach = Ask(r).attach
          /\ \A f \in ReqFields \ {"pc", "walk", "attach"} : new[f] = req[r][f]
      BY Known, FieldsOf
    <3> HIDE DEF new
    <3> QED
      BY <2>1, <3>2, <3>3 DEF Only, Ask
  <2> QED
    BY <2>2, <2>3, <2>4, <2>5, <2>6
<1>2. CASE FollowOne(r) \/ EndHop(r)
  <2>1. req[r].pc = "follow" /\ UNCHANGED bundles
    BY <1>2 DEF FollowOne, EndHop, At, project
  <2>2. PICK walk : req' = [req EXCEPT ![r].walk = walk]
    BY <1>2 DEF FollowOne, EndHop
  <2> DEFINE new == [req[r] EXCEPT !.walk = walk]
  <2>3. req'[r] = new
    BY <2>2, Known
  <2>4. new.pc = req[r].pc /\ \A f \in ReqFields \ {"pc", "walk", "attach"} : new[f] = req[r][f]
    BY Known, FieldsOf
  <2> HIDE DEF new
  <2> QED
    BY <2>1, <2>3, <2>4 DEF Only
<1>3. CASE WriteBundle(r)
  <2> DEFINE n == <<Ask(r).attach, second>>
             v == [by |-> r, files |-> CompileFiles(tree, req[r].walk)]
  <2>1. req[r].pc = "follow"
    BY <1>3 DEF WriteBundle, At
  <2>2. \/ Fail(r, "failed") /\ UNCHANGED bundles
        \/ DiskFault(r, RunReply(Ask(r).surface, "failed")) /\ UNCHANGED bundles
        \/ req' = [req EXCEPT ![r].pc = "bundled", ![r].attach = n] /\ bundles' = Put(bundles, n, v)
    BY <1>3 DEF WriteBundle
  <2>3. CASE Fail(r, "failed") /\ UNCHANGED bundles
    BY <2>1, <2>3, Failures DEF Fail, Refused
  <2>4. CASE DiskFault(r, RunReply(Ask(r).surface, "failed")) /\ UNCHANGED bundles
    BY <2>1, <2>4, Failures DEF Refused
  <2>5. CASE req' = [req EXCEPT ![r].pc = "bundled", ![r].attach = n] /\ bundles' = Put(bundles, n, v)
    <3> DEFINE new == [req[r] EXCEPT !.pc = "bundled", !.attach = n]
    <3>1. v.by = r
      OBVIOUS
    <3> HIDE DEF v
    <3>2. req'[r] = new
      BY <2>5, Known
    <3>3. /\ new.pc = "bundled" /\ new.attach = n
          /\ \A f \in ReqFields \ {"pc", "walk", "attach"} : new[f] = req[r][f]
      BY Known, FieldsOf
    <3> HIDE DEF new
    <3>4. req'[r].attach = <<req[r].ask.attach, second>> /\ bundles' = Put(bundles, <<req[r].ask.attach, second>>, v)
      BY <2>5, <3>2, <3>3 DEF Ask
    <3> QED
      BY <2>1, <3>1, <3>2, <3>3, <3>4 DEF Only
  <2> QED
    BY <2>2, <2>3, <2>4, <2>5
<1> QED
  BY <1>1, <1>2, <1>3

\* The pre-flight reads the role's template as it stands.
LEMMA PreflightSets ==
    ASSUME ReqInv, NEW r \in Requests, Preflight(r)
    PROVE  /\ req[r].pc \in {"preflight", "bundled"}
           /\ \/ Refused(r)
              \/ /\ req'[r].pc = "running" /\ Only(r, {"pc", "prompt", "out"})
                 /\ req'[r].prompt = IF req[r].ask.role THEN template ELSE "whole"
<1>1. req[r].pc \in {"preflight", "bundled"}
  BY DEF Preflight
<1> DEFINE p == IF Ask(r).role THEN template ELSE "whole"
           out == ResolvePipelineOutputPath(r, req[r].out)
           new == [req[r] EXCEPT !.pc = "running", !.prompt = p, !.out = out]
<1>2. Fail(r, "failed") \/ req' = [req EXCEPT ![r] = new]
  BY DEF Preflight
<1>3. CASE Fail(r, "failed")
  BY <1>1, <1>3, Failures DEF Fail, Refused
<1>4. CASE req' = [req EXCEPT ![r] = new]
  <2>1. req'[r] = new
    BY <1>4, Known
  <2> HIDE DEF p, out
  <2>2. /\ new.pc = "running" /\ new.prompt = p
        /\ \A f \in ReqFields \ {"pc", "prompt", "out"} : new[f] = req[r][f]
    BY Known, FieldsOf
  <2> HIDE DEF new
  <2>3. p = IF req[r].ask.role THEN template ELSE "whole"
    BY DEF p, Ask
  <2> QED
    BY <1>1, <2>1, <2>2, <2>3 DEF Only
<1> QED
  BY <1>2, <1>3, <1>4

\* A run ends with something to save, or fails; what it uploaded is what its
\* attachment was then.
LEMMA RunSets ==
    ASSUME ReqInv, NEW r \in Requests, NEW o, RunEnds(r, o)
    PROVE  /\ req[r].pc = "running" /\ req'[r].outcome = o
           /\ Only(r, {"pc", "outcome", "sent", "reply"})
           /\ req'[r].sent = IF req[r].attach = req[r].ask.attach THEN [by |-> "none"] ELSE bundles[req[r].attach]
           /\ \/ req'[r].pc = "save" /\ o \in {"answer", "noise", "cut"}
              \/ req'[r].pc = "done" /\ ~req'[r].reply.ok /\ o \notin {"answer", "noise", "cut"}
<1>1. req[r].pc = "running"
  BY DEF RunEnds, At
<1> DEFINE sent == IF req[r].attach = Ask(r).attach THEN [by |-> "none"] ELSE bundles[req[r].attach]
           said == RunReply(Ask(r).surface, IF o = "auth" THEN "auth" ELSE "failed")
           ends == [req[r] EXCEPT !.outcome = o, !.sent = sent]
           saved == [ends EXCEPT !.pc = "save"]
           failed == [ends EXCEPT !.pc = "done", !.reply = said]
<1>2. \/ o \in {"answer", "noise", "cut"}
         /\ req' = [[req EXCEPT ![r].outcome = o, ![r].sent = sent] EXCEPT ![r].pc = "save"]
      \/ o \notin {"answer", "noise", "cut"}
         /\ req' = [[req EXCEPT ![r].outcome = o, ![r].sent = sent] EXCEPT ![r].pc = "done", ![r].reply = said]
  BY DEF RunEnds
<1>3. ~said.ok
  BY Failures
<1>4. sent = IF req[r].attach = req[r].ask.attach THEN [by |-> "none"] ELSE bundles[req[r].attach]
  BY DEF Ask
<1> HIDE DEF sent, said
<1>5. ends = [f \in ReqFields |-> ends[f]] /\ ends.outcome = o /\ ends.sent = sent
      /\ \A f \in ReqFields \ {"outcome", "sent"} : ends[f] = req[r][f]
  BY Known, FieldsOf
<1>6. [req EXCEPT ![r].outcome = o, ![r].sent = sent] = [req EXCEPT ![r] = ends]
  OBVIOUS
<1>7. \/ o \in {"answer", "noise", "cut"} /\ req'[r] = saved
      \/ o \notin {"answer", "noise", "cut"} /\ req'[r] = failed
  BY <1>2, <1>6, Known
<1> HIDE DEF ends
<1>8. /\ saved.pc = "save" /\ failed.pc = "done" /\ failed.reply = said
      /\ saved.outcome = o /\ failed.outcome = o /\ saved.sent = sent /\ failed.sent = sent
      /\ \A f \in ReqFields \ {"pc", "outcome", "sent", "reply"} : saved[f] = req[r][f] /\ failed[f] = req[r][f]
  BY <1>5, FieldsOf
<1> HIDE DEF saved, failed
<1> QED
  BY <1>1, <1>3, <1>4, <1>7, <1>8 DEF Only

\* The inside of a directory, where a file of the request's own goes.
InsideOf(r) == [OwnName(r, PathOf(req[r].out), "output") EXCEPT !.ext = ".md"]

\* The directory of a destination is there, or the request fails for a reason.
LEMMA EnsureSets ==
    ASSUME ReqInv, NEW r \in Requests, EnsureDir(r)
    PROVE  /\ req[r].pc = "save"
           /\ \/ /\ req'[r].pc = "done" /\ ~req'[r].reply.ok /\ Only(r, {"pc", "hit", "reply"})
                 /\ req'[r].hit = TRUE \/ req[r].out.dir = LocalOut
                 /\ UNCHANGED <<disk, local>>
              \/ /\ req'[r].pc = "write" /\ Only(r, {"pc", "target"})
                 /\ \/ /\ IsDirAt(req[r].out) /\ req'[r].target = InsideOf(r)
                       /\ disk' = Put(disk, InsideOf(r), [by |-> r, kind |-> "empty"])
                       /\ UNCHANGED local
                    \/ /\ req'[r].target = req[r].out /\ UNCHANGED disk
                       /\ local' = local \/ (local = "absent" /\ local' = "dir")
<1>1. req[r].pc = "save"
  BY DEF EnsureDir, At
<1> DEFINE out == req[r].out
           inside == InsideOf(r)
           empty == [by |-> r, kind |-> "empty"]
<1>2. \/ DiskFault(r, RunReply(Ask(r).surface, "failed")) /\ UNCHANGED <<disk, local>>
      \/ out.dir = LocalOut /\ Fail(r, "failed") /\ UNCHANGED <<disk, local>>
      \/ /\ IsDirAt(out) /\ req' = [req EXCEPT ![r].pc = "write", ![r].target = inside]
         /\ disk' = Put(disk, inside, empty) /\ UNCHANGED local
      \/ /\ req' = [req EXCEPT ![r].pc = "write", ![r].target = out] /\ UNCHANGED disk
         /\ local' = local \/ (local = "absent" /\ local' = "dir")
  BY DEF EnsureDir, InsideOf
<1>3. CASE DiskFault(r, RunReply(Ask(r).surface, "failed")) /\ UNCHANGED <<disk, local>>
  BY <1>1, <1>3, Failures, FaultSets
<1>4. CASE out.dir = LocalOut /\ Fail(r, "failed") /\ UNCHANGED <<disk, local>>
  <2> DEFINE reply == RunReply(Ask(r).surface, "failed")
  <2>1. Reply(r, reply)
    BY <1>4 DEF Fail
  <2>2. ~reply.ok
    BY Failures
  <2> HIDE DEF reply
  <2>3. req'[r].pc = "done" /\ ~req'[r].reply.ok /\ Only(r, {"pc", "reply"})
    BY <2>1, <2>2, ReplySets
  <2>4. Only(r, {"pc", "hit", "reply"})
    BY <2>3 DEF Only
  <2> QED
    BY <1>1, <1>4, <2>3, <2>4
<1> HIDE DEF out, inside, empty
<1>5. ASSUME NEW place, req' = [req EXCEPT ![r].pc = "write", ![r].target = place]
      PROVE  req'[r].pc = "write" /\ req'[r].target = place /\ Only(r, {"pc", "target"})
  <2> DEFINE new == [req[r] EXCEPT !.pc = "write", !.target = place]
  <2>1. req'[r] = new
    BY <1>5, Known
  <2>2. /\ new.pc = "write" /\ new.target = place
        /\ \A f \in ReqFields \ {"pc", "target"} : new[f] = req[r][f]
    BY Known, FieldsOf
  <2> HIDE DEF new
  <2> QED
    BY <2>1, <2>2 DEF Only
<1>6. CASE /\ IsDirAt(out) /\ req' = [req EXCEPT ![r].pc = "write", ![r].target = inside]
           /\ disk' = Put(disk, inside, empty) /\ UNCHANGED local
  BY <1>1, <1>5, <1>6 DEF out, inside, empty
<1>7. CASE /\ req' = [req EXCEPT ![r].pc = "write", ![r].target = out] /\ UNCHANGED disk
           /\ local' = local \/ (local = "absent" /\ local' = "dir")
  BY <1>1, <1>5, <1>7 DEF out
<1> QED
  BY <1>2, <1>3, <1>4, <1>6, <1>7 DEF out

-----------------------------------------------------------------------------
(* Intake: the verbs *)

\* The first error of a sequence is none when all of them are.
LEMMA FirstOfTwo ==
    ASSUME NEW x, NEW y
    PROVE  FirstError(<<x, y>>) = "none" <=> x = "none" /\ y = "none"
<1> DEFINE errors == <<x, y>>
           found == {i \in DOMAIN errors : errors[i] # "none"}
           i0 == CHOOSE i \in found : \A j \in found : i <= j
<1>1. DOMAIN errors = 1..2 /\ errors[1] = x /\ errors[2] = y
  OBVIOUS
<1>2. found = {} <=> x = "none" /\ y = "none"
  BY <1>1
<1>3. CASE found # {}
  <2>1. \E i \in found : \A j \in found : i <= j
    BY <1>1, <1>3
  <2>2. i0 \in found
    BY <2>1
  <2> QED
    BY <1>2, <1>3, <2>2 DEF FirstError
<1> QED
  BY <1>2, <1>3 DEF FirstError

\* The same of three.
LEMMA FirstOfThree ==
    ASSUME NEW x, NEW y, NEW z
    PROVE  FirstError(<<x, y, z>>) = "none" <=> x = "none" /\ y = "none" /\ z = "none"
<1> DEFINE errors == <<x, y, z>>
           found == {i \in DOMAIN errors : errors[i] # "none"}
           i0 == CHOOSE i \in found : \A j \in found : i <= j
<1>1. DOMAIN errors = 1..3 /\ errors[1] = x /\ errors[2] = y /\ errors[3] = z
  OBVIOUS
<1>2. found = {} <=> x = "none" /\ y = "none" /\ z = "none"
  BY <1>1
<1>3. CASE found # {}
  <2>1. \E i \in found : \A j \in found : i <= j
    <3>1. CASE x # "none"
      BY <1>1, <3>1
    <3>2. CASE x = "none" /\ y # "none"
      BY <1>1, <3>2
    <3>3. CASE x = "none" /\ y = "none"
      <4>1. found = {3}
        BY <1>1, <1>2, <1>3, <3>3
      <4> QED
        BY <4>1
    <3> QED
      BY <3>1, <3>2, <3>3
  <2>2. i0 \in found
    BY <2>1
  <2> QED
    BY <1>2, <1>3, <2>2 DEF FirstError
<1> QED
  BY <1>2, <1>3 DEF FirstError

\* A path is in order when it is of a kind the verb takes and below the root.
LEMMA PathsInOrder ==
    ASSUME NEW fs, NEW path, NEW kinds, kinds \subseteq fs.dirs \cup fs.files
    PROVE  PathError(fs, Root, path, kinds) = "none" <=> path \in kinds /\ IsPrefix(Root, path)
BY DEF PathError, Exists

\* The checks of a submission are the order of its input.
LEMMA SubmitsInOrder ==
    ASSUME NEW a, a.verb = "job submit"
    PROVE  /\ (PromptError(FS, Root, a) = "none" /\ AttachmentError(FS, Root, a) = "none")
                <=> /\ a.role \/ (a.prompt \in FS.files /\ IsPrefix(Root, a.prompt))
                    /\ a.attach = NoPath \/ (Exists(FS, a.attach) /\ IsPrefix(Root, a.attach))
           /\ (a.out = NoPath \/ OutputError(FS, Root, a.out) = "none")
                <=> (a.out # NoPath => ParentOf(a.out) \in FS.dirs /\ IsPrefix(Root, ParentOf(a.out)))
<1>1. PathError(FS, Root, a.prompt, FS.files) = "none" <=> a.prompt \in FS.files /\ IsPrefix(Root, a.prompt)
  BY PathsInOrder
<1>2. PathError(FS, Root, a.attach, FS.files \cup FS.dirs) = "none"
        <=> a.attach \in FS.files \cup FS.dirs /\ IsPrefix(Root, a.attach)
  BY PathsInOrder
<1>3. PathError(FS, Root, ParentOf(a.out), FS.dirs) = "none"
        <=> ParentOf(a.out) \in FS.dirs /\ IsPrefix(Root, ParentOf(a.out))
  BY PathsInOrder
<1> QED
  BY <1>1, <1>2, <1>3 DEF PromptError, AttachmentError, OutputError, Exists

\* A refusal claims no success.
LEMMA Claims == Answer.ok /\ \A code : ~Refuse(code).ok
BY DEF Answer, Refuse

\* What a submission answers.
LEMMA SubmitAnswers ==
    ASSUME NEW a \in VerbAsks, a.verb = "job submit", NEW back
    PROVE  VerbReply(FS, Root, a, back).ok <=> InputInOrder(a) /\ back = "ok"
<1> DEFINE out == IF a.out = NoPath THEN "none" ELSE OutputError(FS, Root, a.out)
           e1 == PromptError(FS, Root, a)
           e2 == AttachmentError(FS, Root, a)
<1>1. a.surface \in {"cli", "mcp"}
  BY DEF VerbAsks, VerbFields
<1>2. InputInOrder(a) <=> e1 = "none" /\ e2 = "none" /\ (a.surface = "cli" => out = "none")
  BY SubmitsInOrder DEF InputInOrder
<1> HIDE DEF out, e1, e2
<1>3. FirstError(<<e1, e2>>) = "none" <=> e1 = "none" /\ e2 = "none"
  BY FirstOfTwo
<1>4. FirstError(<<e1, e2, out>>) = "none" <=> e1 = "none" /\ e2 = "none" /\ out = "none"
  BY FirstOfThree
<1>5. CliJobSubmit(FS, Root, a, back).ok <=> e1 = "none" /\ e2 = "none" /\ out = "none" /\ back = "ok"
  <2> DEFINE error == FirstError(<<e1, e2, out>>)
  <2>1. CliJobSubmit(FS, Root, a, back) = CASE error # "none" -> Refuse("cli-400")
         [] error = "none" /\ back = "full" -> Refuse("cli-429")
         [] error = "none" /\ back \notin {"ok", "full"} -> Refuse("cli-500")
         [] OTHER -> Answer
    BY DEF CliJobSubmit, out, e1, e2
  <2>6. error = "none" <=> e1 = "none" /\ e2 = "none" /\ out = "none"
    BY <1>4
  <2> HIDE DEF error
  <2>2. CASE error # "none"
    BY <2>1, <2>2, <2>6, Claims
  <2>3. CASE error = "none" /\ back \in {"full"}
    BY <2>1, <2>3, <2>6, Claims
  <2>4. CASE error = "none" /\ back \notin {"ok", "full"}
    BY <2>1, <2>4, <2>6, Claims
  <2>5. CASE error = "none" /\ back = "ok"
    BY <2>1, <2>5, <2>6, Claims
  <2> QED
    BY <2>2, <2>3, <2>4, <2>5, <2>6
<1>6. McpJobSubmit(FS, Root, a, back).ok <=> e1 = "none" /\ e2 = "none" /\ back = "ok"
  <2> DEFINE error == FirstError(<<e1, e2>>)
  <2>1. McpJobSubmit(FS, Root, a, back) = CASE error # "none" -> Refuse(error)
         [] error = "none" /\ back = "limited" -> Refuse("RATE_LIMITED")
         [] error = "none" /\ back = "full" -> Refuse("QUEUE_FULL")
         [] error = "none" /\ back \notin {"ok", "limited", "full"} -> Refuse("JOB_SUBMIT_FAILED")
         [] OTHER -> Answer
    BY DEF McpJobSubmit, e1, e2
  <2>6. error = "none" <=> e1 = "none" /\ e2 = "none"
    BY <1>3
  <2> HIDE DEF error
  <2>2. CASE error # "none"
    BY <2>1, <2>2, <2>6, Claims
  <2>3. CASE error = "none" /\ back \in {"limited", "full"}
    BY <2>1, <2>3, <2>6, Claims
  <2>4. CASE error = "none" /\ back \notin {"ok", "limited", "full"}
    BY <2>1, <2>4, <2>6, Claims
  <2>5. CASE error = "none" /\ back = "ok"
    BY <2>1, <2>5, <2>6, Claims
  <2> QED
    BY <2>2, <2>3, <2>4, <2>5, <2>6
<1>7. VerbReply(FS, Root, a, back)
        = IF a.surface = "cli" THEN CliJobSubmit(FS, Root, a, back) ELSE McpJobSubmit(FS, Root, a, back)
  BY DEF VerbReply
<1> QED
  BY <1>1, <1>2, <1>5, <1>6, <1>7

\* When the other replies claim a success.
LEMMA Queries ==
    ASSUME NEW a, NEW back
    PROVE  /\ CliJobQuery(a, back).ok <=> back \notin {"raises", "error"} /\ ~(back = "absent" /\ a.verb = "job status")
           /\ McpJobQuery(a, back).ok <=> a.valid /\ back # "raises" /\ ~(back = "absent" /\ a.verb = "job status")
           /\ CliSwarmStart(FS, Root, a, back).ok
                <=> Exists(FS, a.prompt) /\ IsPrefix(Root, a.prompt) /\ back = "ok"
           /\ CliSwarmVerb(a, back).ok
                <=> /\ a.id = "good" /\ back \notin {"raises", "error"}
                    /\ ~(back = "absent" /\ (a.verb = "swarm status" \/ a.verb = "job status"))
           /\ CliSessionQuery(a, back).ok <=> back = "ok"
           /\ CliReport(back).ok <=> back = "ok"
           /\ CliObservabilityStatus(a.inside, back).ok <=> a.inside /\ back # "raises"
           /\ McpCheckSession(back).ok <=> back # "raises"
           /\ McpSetupSession(back).ok <=> back # "raises"
           /\ McpDeleteSession(a, back).ok <=> a.confirm /\ a.named /\ back # "raises"
           /\ CliSessionRemove(a, back # "absent", a.confirm, back).ok
                <=> \/ ~a.keep /\ Asks(a) /\ ~a.confirm /\ back # "absent"
                    \/ back = "ok"
<1>1. ASSUME NEW x PROVE CliJobQuery(x, back).ok
        <=> back \notin {"raises", "error"} /\ ~(back = "absent" /\ x.verb = "job status")
  <2>1. CliJobQuery(x, back) = CASE back = "raises" -> Refuse("exception")
           [] back = "error" -> Refuse("cli-500")
           [] back = "absent" /\ x.verb = "job status" -> Refuse("cli-400")
           [] OTHER -> Answer
    BY DEF CliJobQuery
  <2> QED
    BY <2>1, Claims
<1>2. McpJobQuery(a, back).ok <=> a.valid /\ back # "raises" /\ ~(back = "absent" /\ a.verb = "job status")
  <2>1. McpJobQuery(a, back) = CASE ~a.valid -> Refuse("VALIDATION_ERROR")
           [] a.valid /\ back = "raises" -> Refuse("exception")
           [] a.valid /\ back = "absent" /\ a.verb = "job status" -> Refuse("JOB_NOT_FOUND")
           [] OTHER -> Answer
    BY DEF McpJobQuery
  <2> QED
    BY <2>1, Claims
<1>3. CliSwarmStart(FS, Root, a, back).ok <=> Exists(FS, a.prompt) /\ IsPrefix(Root, a.prompt) /\ back = "ok"
  <2> DEFINE error == PathError(FS, Root, a.prompt, FS.files \cup FS.dirs)
  <2>1. error = "none" <=> Exists(FS, a.prompt) /\ IsPrefix(Root, a.prompt)
    BY PathsInOrder DEF Exists
  <2>2. CliSwarmStart(FS, Root, a, back) = CASE error # "none" -> Refuse("cli-400")
           [] error = "none" /\ back # "ok" -> Refuse(IF back = "raises" THEN "exception" ELSE "cli-500")
           [] OTHER -> Answer
    BY DEF CliSwarmStart
  <2> HIDE DEF error
  <2> QED
    BY <2>1, <2>2, Claims
<1>4. ASSUME NEW x, NEW y PROVE CliSessionQuery(x, y).ok <=> y = "ok"
  <2>1. CliSessionQuery(x, y) = CASE y = "ok" -> Answer
           [] y = "raises" /\ x.verb \notin {"session login", "session health"} -> Refuse("exception")
           [] OTHER -> Refuse("cli-500")
    BY DEF CliSessionQuery
  <2> QED
    BY <2>1, Claims
<1>5. CliSwarmVerb(a, back).ok
        <=> /\ a.id = "good" /\ back \notin {"raises", "error"}
            /\ ~(back = "absent" /\ (a.verb = "swarm status" \/ a.verb = "job status"))
  <2> DEFINE x == [verb |-> IF a.verb = "swarm status" THEN "job status" ELSE a.verb]
  <2>1. SwarmIdError(a.id) = "none" <=> a.id = "good"
    BY DEF SwarmIdError
  <2>2. CliSwarmVerb(a, back) = CASE SwarmIdError(a.id) # "none" -> Refuse("cli-400")
           [] SwarmIdError(a.id) = "none" -> CliJobQuery(x, back)
    BY DEF CliSwarmVerb
  <2>3. x.verb = "job status" <=> a.verb \in {"swarm status", "job status"}
    OBVIOUS
  <2> HIDE DEF x
  <2>4. CliJobQuery(x, back).ok <=> back \notin {"raises", "error"} /\ ~(back = "absent" /\ x.verb = "job status")
    BY <1>1
  <2>5. CASE a.id = "good"
    <3>1. CliSwarmVerb(a, back) = CliJobQuery(x, back)
      BY <2>1, <2>2, <2>5
    <3> QED
      BY <2>3, <2>4, <2>5, <3>1
  <2>6. CASE a.id # "good"
    <3>1. CliSwarmVerb(a, back) = Refuse("cli-400")
      BY <2>1, <2>2, <2>6
    <3> QED
      BY <2>6, <3>1, Claims
  <2> QED
    BY <2>5, <2>6
<1>6. CliReport(back).ok <=> back = "ok"
  <2>1. (IF back = "absent" THEN "error" ELSE back) = "ok" <=> back = "ok"
    OBVIOUS
  <2> QED
    BY <1>4, <2>1 DEF CliReport
<1>7. CliObservabilityStatus(a.inside, back).ok <=> a.inside /\ back # "raises"
  <2>1. CliObservabilityStatus(a.inside, back) = CASE ~a.inside -> Refuse("cli-400")
           [] a.inside /\ back = "raises" -> Refuse("exception")
           [] OTHER -> Answer
    BY DEF CliObservabilityStatus
  <2> QED
    BY <2>1, Claims
<1>8. (McpCheckSession(back).ok <=> back # "raises") /\ (McpSetupSession(back).ok <=> back # "raises")
  <2>1. /\ McpCheckSession(back) = IF back = "raises" THEN Refuse("SESSION_CHECK_FAILED") ELSE Answer
        /\ McpSetupSession(back) = IF back = "raises" THEN Refuse("SETUP_SESSION_FAILED") ELSE Answer
    BY DEF McpCheckSession, McpSetupSession
  <2> QED
    BY <2>1, Claims
<1>9. McpDeleteSession(a, back).ok <=> a.confirm /\ a.named /\ back # "raises"
  <2>1. McpDeleteSession(a, back) = CASE ~a.confirm -> Refuse("CONFIRMATION_REQUIRED")
           [] a.confirm /\ ~a.named -> Refuse("SESSION_NAME_REQUIRED")
           [] a.confirm /\ a.named /\ back = "raises" -> Refuse("SESSION_DELETE_FAILED")
           [] OTHER -> Answer
    BY DEF McpDeleteSession
  <2> QED
    BY <2>1, Claims
<1>10. CliSessionRemove(a, back # "absent", a.confirm, back).ok
         <=> \/ ~a.keep /\ Asks(a) /\ ~a.confirm /\ back # "absent"
             \/ back = "ok"
  <2> DEFINE asks == Asks(a)
             query == CliSessionQuery(a, back)
  <2>1. CliSessionRemove(a, back # "absent", a.confirm, back) = CASE a.keep -> query
           [] ~a.keep /\ ~(back # "absent") -> Refuse("cli-400")
           [] ~a.keep /\ back # "absent" /\ asks /\ ~a.confirm -> Answer
           [] OTHER -> query
    BY DEF CliSessionRemove
  <2>2. query.ok <=> back = "ok"
    BY <1>4
  <2> HIDE DEF asks, query
  <2>3. \/ ~a.keep /\ back = "absent" /\ CliSessionRemove(a, back # "absent", a.confirm, back) = Refuse("cli-400")
        \/ /\ ~a.keep /\ back # "absent" /\ asks /\ ~a.confirm
           /\ CliSessionRemove(a, back # "absent", a.confirm, back) = Answer
        \/ /\ a.keep \/ (back # "absent" /\ ~(asks /\ ~a.confirm))
           /\ CliSessionRemove(a, back # "absent", a.confirm, back) = query
    BY <2>1
  <2> QED
    BY <2>2, <2>3, Claims DEF asks
<1> QED
  BY <1>1, <1>2, <1>3, <1>4, <1>5, <1>6, <1>7, <1>8, <1>9, <1>10

\* How the component behind each verb may end.
LEMMA Endings ==
    ASSUME NEW v \in DOMAIN Backs, NEW back \in Backs[v]
    PROVE  /\ v \in CliVerbs \cup McpVerbs
           /\ v = "job submit" => back \in {"ok", "raises", "error", "full", "limited", "no record"}
           /\ v \in {"job status", "session remove", "session check", "metrics"} => back \in {"ok", "raises", "absent"}
           /\ v = "job list" => back \in {"ok", "raises"}
           /\ v \in {"swarm status", "swarm cancel"} => back \in {"ok", "error", "absent"}
           /\ v \in {"job cleanup", "swarm start", "session list", "session health", "session login", "brave", "report"} =>
                back \in {"ok", "raises", "error"}
BY DEF Backs, CliVerbs, McpVerbs

\* Whatever a verb is asked and however its component ends, it answers with a success
\* exactly when its input was in order and the component did what was asked, but for
\* the answers that are set apart.
LEMMA VerbAnswers ==
    ASSUME NEW a \in VerbAsks, a.verb \in DOMAIN Backs, NEW back \in Backs[a.verb]
    PROVE  VerbReply(FS, Root, a, back).ok <=>
               \/ Declined(a) /\ back # "absent"
               \/ InputInOrder(a) /\ back \in {"ok"} \cup Whatever(a)
<1> DEFINE cli == a.surface = "cli"
           ok == VerbReply(FS, Root, a, back).ok
<1>1. /\ (a.surface = "cli" /\ a.verb \in CliVerbs) \/ (a.surface = "mcp" /\ a.verb \in McpVerbs)
      /\ a.valid \in BOOLEAN /\ a.inside \in BOOLEAN /\ a.confirm \in BOOLEAN
      /\ a.named \in BOOLEAN /\ a.keep \in BOOLEAN
  <2>1. a.verb \in CliVerbs \cup McpVerbs
    BY Endings
  <2>2. "paths" \notin CliVerbs \cup McpVerbs
    BY DEF CliVerbs, McpVerbs
  <2> QED
    BY <2>1, <2>2 DEF VerbAsks, VerbFields
<1>2. CASE a.verb = "job submit"
  <2>1. ok <=> InputInOrder(a) /\ back = "ok"
    BY <1>2, SubmitAnswers
  <2>2. Whatever(a) = {} /\ ~Declined(a)
    BY <1>2 DEF Whatever, Declined
  <2> QED
    BY <2>1, <2>2
<1>3. CASE a.verb \in {"job status", "job list", "job cleanup"}
  <2>1. VerbReply(FS, Root, a, back) = IF cli THEN CliJobQuery(a, back) ELSE McpJobQuery(a, back)
    BY <1>3 DEF VerbReply
  <2>2. Whatever(a) = {} /\ ~Declined(a)
    BY <1>3 DEF Whatever, Declined
  <2>3. InputInOrder(a) <=> (a.verb \in {"job status", "job list"} => (a.surface = "mcp" => a.valid))
    BY <1>3 DEF InputInOrder
  <2>4. a.surface = "mcp" => a.verb # "job cleanup"
    BY <1>1 DEF McpVerbs
  <2>6. /\ CliJobQuery(a, back).ok <=> back \notin {"raises", "error"} /\ ~(back = "absent" /\ a.verb = "job status")
        /\ McpJobQuery(a, back).ok <=> a.valid /\ back # "raises" /\ ~(back = "absent" /\ a.verb = "job status")
    BY Queries
  <2>5. back \in {"ok", "raises", "absent", "error"} /\ (a.verb # "job cleanup" => back # "error")
        /\ (back = "absent" => a.verb = "job status")
    BY <1>3, Endings
  <2> QED
    BY <1>1, <1>3, <2>1, <2>2, <2>3, <2>4, <2>5, <2>6
<1>4. CASE a.verb = "swarm start"
  <2>1. VerbReply(FS, Root, a, back) = CliSwarmStart(FS, Root, a, back)
    BY <1>4 DEF VerbReply
  <2>2. Whatever(a) = {} /\ ~Declined(a)
    BY <1>4 DEF Whatever, Declined
  <2>3. InputInOrder(a) <=> Exists(FS, a.prompt) /\ IsPrefix(Root, a.prompt)
    BY <1>4 DEF InputInOrder
  <2> QED
    BY <2>1, <2>2, <2>3, Queries
<1>5. CASE a.verb \in {"swarm status", "swarm cancel"}
  <2>1. VerbReply(FS, Root, a, back) = CliSwarmVerb(a, back)
    BY <1>5 DEF VerbReply
  <2>2. Whatever(a) = (IF a.verb = "swarm cancel" THEN {"absent"} ELSE {}) /\ ~Declined(a)
    BY <1>5 DEF Whatever, Declined
  <2>3. InputInOrder(a) <=> a.id = "good"
    BY <1>5 DEF InputInOrder
  <2>4. back \in {"ok", "error", "absent"}
    BY <1>5, Endings
  <2>5. VerbReply(FS, Root, a, back).ok
          <=> a.id = "good" /\ back # "error" /\ ~(back = "absent" /\ a.verb = "swarm status")
    <3>1. CliSwarmVerb(a, back).ok
            <=> /\ a.id = "good" /\ back \notin {"raises", "error"}
                /\ ~(back = "absent" /\ (a.verb = "swarm status" \/ a.verb = "job status"))
      BY Queries
    <3> QED
      BY <1>5, <2>1, <2>4, <3>1
  <2> QED
    BY <1>5, <2>2, <2>3, <2>4, <2>5
<1>6. CASE a.verb \in {"session list", "session health", "brave", "report"}
  <2>1. VerbReply(FS, Root, a, back) = IF a.verb = "report" THEN CliReport(back) ELSE CliSessionQuery(a, back)
    BY <1>6 DEF VerbReply
  <2>2. Whatever(a) = {} /\ ~Declined(a)
    BY <1>6 DEF Whatever, Declined
  <2>3. InputInOrder(a)
    BY <1>6 DEF InputInOrder
  <2> QED
    BY <2>1, <2>2, <2>3, Queries
<1>7. CASE a.verb = "session login"
  <2>1. VerbReply(FS, Root, a, back) = IF cli THEN CliSessionQuery(a, back) ELSE McpSetupSession(back)
    BY <1>7 DEF VerbReply
  <2>2. Whatever(a) = (IF a.surface = "mcp" THEN {"error"} ELSE {}) /\ ~Declined(a)
    BY <1>7 DEF Whatever, Declined
  <2>3. InputInOrder(a)
    BY <1>7 DEF InputInOrder
  <2>4. back \in {"ok", "raises", "error"}
    BY <1>7, Endings
  <2>5. ok <=> IF cli THEN back = "ok" ELSE back # "raises"
    <3>1. (CliSessionQuery(a, back).ok <=> back = "ok") /\ (McpSetupSession(back).ok <=> back # "raises")
      BY Queries
    <3> QED
      BY <2>1, <3>1
  <2> QED
    BY <1>1, <2>2, <2>3, <2>4, <2>5
<1>8. CASE a.verb = "session remove"
  <2>1. VerbReply(FS, Root, a, back) = IF cli THEN CliSessionRemove(a, back # "absent", a.confirm, back)
                                       ELSE McpDeleteSession(a, back)
    BY <1>8 DEF VerbReply
  <2>2. Whatever(a) = IF a.surface = "mcp" THEN {"absent"} ELSE {}
    BY <1>8 DEF Whatever
  <2>3. Declined(a) <=> cli /\ ~a.keep /\ Asks(a) /\ ~a.confirm
    BY <1>8 DEF Declined
  <2>4. InputInOrder(a) <=> (a.surface = "mcp" => a.confirm /\ a.named)
    BY <1>8 DEF InputInOrder
  <2>5. back \in {"ok", "raises", "absent"}
    BY <1>8, Endings
  <2>6. CASE cli
    <3>1. ok <=> (~a.keep /\ Asks(a) /\ ~a.confirm /\ back # "absent") \/ back = "ok"
      <4>1. CliSessionRemove(a, back # "absent", a.confirm, back).ok
              <=> (~a.keep /\ Asks(a) /\ ~a.confirm /\ back # "absent") \/ back = "ok"
        BY Queries
      <4> QED
        BY <2>1, <2>6, <4>1
    <3> QED
      BY <2>2, <2>3, <2>4, <2>6, <3>1
  <2>7. CASE ~cli
    <3>1. ok <=> a.confirm /\ a.named /\ back # "raises"
      <4>1. McpDeleteSession(a, back).ok <=> a.confirm /\ a.named /\ back # "raises"
        BY Queries
      <4> QED
        BY <2>1, <2>7, <4>1
    <3> QED
      BY <1>1, <2>2, <2>3, <2>4, <2>5, <2>7, <3>1
  <2> QED
    BY <2>6, <2>7
<1>9. CASE a.verb = "session check"
  <2>1. VerbReply(FS, Root, a, back) = McpCheckSession(back)
    BY <1>9 DEF VerbReply
  <2>2. Whatever(a) = (IF a.surface = "mcp" THEN {"absent"} ELSE {}) /\ ~Declined(a)
    BY <1>9 DEF Whatever, Declined
  <2>3. InputInOrder(a)
    BY <1>9 DEF InputInOrder
  <2>4. back \in {"ok", "raises", "absent"} /\ a.surface = "mcp"
    BY <1>1, <1>9, Endings DEF CliVerbs
  <2> QED
    BY <2>1, <2>2, <2>3, <2>4, Queries
<1>10. CASE a.verb = "metrics"
  <2>1. VerbReply(FS, Root, a, back) = CliObservabilityStatus(a.inside, back)
    BY <1>10 DEF VerbReply
  <2>2. Whatever(a) = {"absent"} /\ ~Declined(a)
    BY <1>10 DEF Whatever, Declined
  <2>3. InputInOrder(a) <=> a.inside
    BY <1>10 DEF InputInOrder
  <2>4. back \in {"ok", "raises", "absent"}
    BY <1>10, Endings
  <2> QED
    BY <2>1, <2>2, <2>3, <2>4, Queries
<1> QED
  BY <1>1, <1>2, <1>3, <1>4, <1>5, <1>6, <1>7, <1>8, <1>9, <1>10 DEF CliVerbs, McpVerbs

\* The memory supports at least one worker and no more than the default.
LEMMA Recommends ==
    ASSUME NEW m \in [available : Int, spare : Int]
    PROVE  RecommendedMaxWorkers(m) \in 1..DefaultMaxWorkers
<1> DEFINE budget == IF m.available > 0 THEN m.available ELSE m.spare
           share == budget \div MemoryPerWorker
<1>1. DefaultMaxWorkers \in Nat \ {0} /\ MemoryPerWorker \in Nat \ {0}
  BY SettingsAssumption
<1>2. budget \in Int
  OBVIOUS
<1> HIDE DEF budget
<1>3. share \in Int
  BY <1>1, <1>2
<1>4. RecommendedMaxWorkers(m) = IF budget <= 0 THEN 1 ELSE MinOf(DefaultMaxWorkers, MaxOf(1, share))
  BY DEF RecommendedMaxWorkers, budget
<1> HIDE DEF share
<1> QED
  BY <1>1, <1>3, <1>4 DEF MinOf, MaxOf

\* What the doctor says of an environment is what a run started in it gets.
LEMMA DoctorAnswers ==
    ASSUME NEW a \in EnvAsks, a.verb = "doctor"
    PROVE  LET e == a.env IN
           /\ Padded(e) \/ (RunFlag(e.enable) /\ SandboxUnavailable(e.host))
                \/ (DoctorSandboxMode(e) = "disabled" <=> RunsUnsandboxed(e, FALSE))
           /\ (e.workers.form = "digits" /\ e.workers.value = 0) \/ DoctorCapacity(e).effective = MaxWorkers(e)
           /\ MaxWorkers(e) > RecommendedMaxWorkers(e.memory) => DoctorWarns(e, a.facts)
           /\ ~a.deep /\ ~a.smoke =>
                (AllPassed(DoctorChecks(e, a.facts, a.deep, a.smoke)) <=> AllPassed(HealthProbe(e, a.facts)))
           /\ AllPassed(DoctorChecks(e, a.facts, a.deep, a.smoke)) /\ a.smoke => a.facts.validates
<1> DEFINE e == a.env
           f == a.facts
<1>1. e \in Environments /\ f \in FactsFound /\ a.deep \in BOOLEAN /\ a.smoke \in BOOLEAN
  BY DEF EnvAsks
<1>2. e.disable \in Switches /\ e.enable \in Switches /\ e.workers \in Numbers
  BY <1>1 DEF Environments
<1>3. Padded(e) \/ (RunFlag(e.enable) /\ SandboxUnavailable(e.host))
        \/ (DoctorSandboxMode(e) = "disabled" <=> RunsUnsandboxed(e, FALSE))
  <2> DEFINE away == SandboxUnavailable(e.host)
  <2>1. ReportsUnavailable(e.host) <=> away
    BY DEF ReportsUnavailable, SandboxUnavailable
  <2>2. RunsUnsandboxed(e, FALSE) <=> RunFlag(e.disable) \/ (~RunFlag(e.enable) /\ away)
    BY DEF RunsUnsandboxed
  <2>3. DoctorSandboxMode(e) = "disabled" <=> Flag(e.disable) \/ away
    BY <2>1 DEF DoctorSandboxMode
  <2> HIDE DEF away
  <2>4. CASE ~Padded(e)
    <3>1. Flag(e.disable) <=> RunFlag(e.disable)
      BY <1>2, <2>4 DEF Flag, RunFlag, Padded, Switches
    <3> QED
      BY <2>2, <2>3, <3>1 DEF away
  <2> QED
    BY <2>4
<1>4. (e.workers.form = "digits" /\ e.workers.value = 0) \/ DoctorCapacity(e).effective = MaxWorkers(e)
  <2>1. e.workers.form = "digits" => e.workers.value >= 0 /\ e.workers.value \in Int
    BY <1>2 DEF Numbers
  <2> QED
    BY <2>1 DEF DoctorCapacity, MaxWorkers, Override, IsDigit
<1>5. MaxWorkers(e) > RecommendedMaxWorkers(e.memory) => DoctorWarns(e, f)
  <2> SUFFICES ASSUME MaxWorkers(e) > RecommendedMaxWorkers(e.memory) PROVE DoctorCapacity(e).over
    BY DEF DoctorWarns
  <2>1. RecommendedMaxWorkers(e.memory) \in Int
    BY <1>1, Recommends DEF Environments
  <2>2. Override(e.workers) /\ e.workers.value > RecommendedMaxWorkers(e.memory)
    BY <2>1 DEF MaxWorkers
  <2> QED
    BY <2>2 DEF DoctorCapacity, Override
<1>6. DOMAIN HealthProbe(e, f) = {"python", "chromium", "workspace", "session", "output", "capacity", "sandbox",
                                  "contract", "observability"}
      /\ DOMAIN DoctorChecks(e, f, a.deep, a.smoke) = DOMAIN HealthProbe(e, f)
  BY DEF HealthProbe, DoctorChecks
<1>7. ~a.deep /\ ~a.smoke =>
        (AllPassed(DoctorChecks(e, f, a.deep, a.smoke)) <=> AllPassed(HealthProbe(e, f)))
  <2> SUFFICES ASSUME ~a.deep, ~a.smoke
               PROVE \A c \in DOMAIN HealthProbe(e, f) :
                        DoctorChecks(e, f, a.deep, a.smoke)[c] <=> HealthProbe(e, f)[c]
    BY <1>6 DEF AllPassed
  <2> DEFINE P == HealthProbe(e, f)
  <2>1. \A c \in DOMAIN P \ {"chromium", "session"} : DoctorChecks(e, f, a.deep, a.smoke)[c] = P[c]
    BY DEF DoctorChecks
  <2>2. /\ DoctorChecks(e, f, a.deep, a.smoke).chromium <=> P.chromium
        /\ DoctorChecks(e, f, a.deep, a.smoke).session <=> P.session
    BY <1>6 DEF DoctorChecks
  <2> QED
    BY <2>1, <2>2
<1>8. AllPassed(DoctorChecks(e, f, a.deep, a.smoke)) /\ a.smoke => f.validates
  <2> SUFFICES ASSUME AllPassed(DoctorChecks(e, f, a.deep, a.smoke)), a.smoke PROVE f.validates
    OBVIOUS
  <2>1. DoctorChecks(e, f, a.deep, a.smoke).session
    BY <1>6 DEF AllPassed
  <2>2. DoctorChecks(e, f, a.deep, a.smoke).session <=> HealthProbe(e, f).session /\ (a.smoke => f.validates)
    BY <1>6 DEF DoctorChecks
  <2> QED
    BY <2>1, <2>2
<1> QED
  BY <1>3, <1>4, <1>5, <1>7, <1>8

\* A set of naturals that holds something has a least one.
LEMMA LeastOne ==
    ASSUME NEW S, S \subseteq Nat, S # {}
    PROVE  \E m \in S : \A n \in S : m <= n
<1>1. \E m \in S : \A n \in S : ~(<<n, m>> \in OpToRel(<, Nat))
  BY NatLessThanWellFounded, WFMin
<1>2. ASSUME NEW m \in Nat, NEW n \in Nat, ~(<<n, m>> \in OpToRel(<, Nat))
      PROVE  m <= n
  BY <1>2 DEF OpToRel
<1> QED
  BY <1>1, <1>2

\* So is what the config verbs say.
LEMMA ConfigAnswers ==
    ASSUME NEW e \in Environments
    PROVE  LET run == BuildAppConfig(e, FALSE, DefaultRequestTimeout) IN
           /\ Padded(e) \/ (SandboxReport(e) \in {"disabled_by_env", "disabled_by_host"} <=> run.unsandboxed)
           /\ Padded(e) \/ ForMode(e) = run
           /\ CapacityReport(e).effective = MaxWorkers(e)
           /\ ConfigValid(ForMode(e)) <=> MinimumIssues(ForMode(e)) = {}
           /\ SwarmConcurrency(e) \in 1..DefaultMaxWorkers
<1> DEFINE away == SandboxUnavailable(e.host)
           off == SandboxReport(e) \in {"disabled_by_env", "disabled_by_host"}
<1>1. /\ e.disable \in Switches /\ e.enable \in Switches /\ e.timeout \in Numbers /\ e.swarm \in Numbers
      /\ e.memory \in [available : Int, spare : Int]
  BY DEF Environments
<1>2. ASSUME NEW asked PROVE RunsUnsandboxed(e, asked)
                               <=> RunFlag(e.disable) \/ (~RunFlag(e.enable) /\ (asked \/ away))
  BY DEF RunsUnsandboxed
<1>3. off <=> Flag(e.disable) \/ (~Flag(e.enable) /\ away)
  <2>1. ReportsUnavailable(e.host) <=> away
    BY DEF ReportsUnavailable, SandboxUnavailable
  <2> HIDE DEF away
  <2> QED
    BY <2>1 DEF SandboxReport
<1>4. ~Padded(e) => (Flag(e.disable) <=> RunFlag(e.disable)) /\ (Flag(e.enable) <=> RunFlag(e.enable))
  BY <1>1 DEF Flag, RunFlag, Padded, Switches
<1>5. RunsUnsandboxed(e, FALSE) \in BOOLEAN /\ RunsUnsandboxed(e, off) \in BOOLEAN
  BY DEF RunsUnsandboxed, RunFlag, SandboxUnavailable
<1> HIDE DEF away, off
<1>6. ~Padded(e) => (off <=> RunsUnsandboxed(e, FALSE)) /\ (RunsUnsandboxed(e, off) <=> RunsUnsandboxed(e, FALSE))
  BY <1>2, <1>3, <1>4
<1>7. ~Padded(e) => RunsUnsandboxed(e, off) = RunsUnsandboxed(e, FALSE)
  <2> DEFINE x == RunsUnsandboxed(e, off)
             y == RunsUnsandboxed(e, FALSE)
  <2>1. x \in BOOLEAN /\ y \in BOOLEAN /\ (~Padded(e) => (x <=> y))
    BY <1>5, <1>6
  <2> HIDE DEF x, y
  <2>2. ~Padded(e) => x = y
    BY <2>1
  <2> QED
    BY <2>2 DEF x, y
<1>8. ResolveRequestTimeout(e, RequestTimeoutSec(e)) = ResolveRequestTimeout(e, DefaultRequestTimeout)
  BY DEF ResolveRequestTimeout, RequestTimeoutSec, IntText, IsDigit
<1>9. ForMode(e) = [timeout |-> ResolveRequestTimeout(e, RequestTimeoutSec(e)),
                    click |-> ResolveSendClickTimeout(e), unsandboxed |-> RunsUnsandboxed(e, off)]
  BY DEF ForMode, BuildAppConfig, off
<1>10. ~Padded(e) => ForMode(e) = BuildAppConfig(e, FALSE, DefaultRequestTimeout)
  BY <1>7, <1>8, <1>9 DEF BuildAppConfig
<1>11. CapacityReport(e).effective = MaxWorkers(e)
  BY DEF CapacityReport, MaxWorkers
<1>12. ConfigValid(ForMode(e)) <=> MinimumIssues(ForMode(e)) = {}
  <2>1. ResolveRequestTimeout(e, RequestTimeoutSec(e)) \in Int
    BY <1>1, SettingsAssumption DEF ResolveRequestTimeout, RequestTimeoutSec, Numbers
  <2>2. ForMode(e).timeout \in Int
    BY <1>9, <2>1
  <2> QED
    BY <2>2 DEF ConfigValid, MinimumIssues, MinRequestTimeout
<1>13. SwarmConcurrency(e) \in 1..DefaultMaxWorkers
  <2>1. e.swarm.value \in Int /\ DefaultMaxWorkers \in Nat \ {0}
    BY <1>1, SettingsAssumption DEF Numbers
  <2> QED
    BY <1>1, <2>1, Recommends DEF SwarmConcurrency, Override, MinOf
<1> QED
  BY <1>6, <1>10, <1>11, <1>12, <1>13 DEF BuildAppConfig, off

\* A set of places along one path has a longest one, and it is the only one.
LEMMA NearestIsLongest ==
    ASSUME NEW path \in Seq(Words), NEW S \in SUBSET Ancestors(path), <<>> \in S
    PROVE  /\ Nearest(S) \in S /\ \A q \in S : Len(q) <= Len(Nearest(S))
           /\ \A p \in S : (\A q \in S : Len(q) <= Len(p)) => p = Nearest(S)
<1>1. ASSUME NEW p \in S
      PROVE  Len(p) \in 0..Len(path) /\ p = SubSeq(path, 1, Len(p))
  <2>1. PICK n \in 0..Len(path) : p = SubSeq(path, 1, n)
    BY DEF Ancestors
  <2>2. Len(p) = n
    BY <2>1
  <2> QED
    BY <2>1, <2>2
<1> DEFINE L == {Len(path) - Len(p) : p \in S}
<1>2. L \subseteq Nat /\ L # {}
  BY <1>1
<1>3. PICK m \in L : \A n \in L : m <= n
  BY <1>2, LeastOne
<1>4. PICK p \in S : m = Len(path) - Len(p)
  BY <1>3
<1>5. \A q \in S : Len(q) <= Len(p)
  <2> SUFFICES ASSUME NEW q \in S PROVE Len(q) <= Len(p)
    OBVIOUS
  <2>1. Len(path) - Len(q) \in L
    OBVIOUS
  <2>2. Len(path) - Len(p) <= Len(path) - Len(q)
    BY <1>3, <1>4, <2>1
  <2> QED
    BY <1>1, <2>2
<1>6. Nearest(S) \in S /\ \A q \in S : Len(q) <= Len(Nearest(S))
  BY <1>4, <1>5 DEF Nearest
<1>7. ASSUME NEW q \in S, \A x \in S : Len(x) <= Len(q) PROVE q = Nearest(S)
  <2>1. Len(q) <= Len(Nearest(S)) /\ Len(Nearest(S)) <= Len(q)
    BY <1>6, <1>7
  <2>2. Len(q) = Len(Nearest(S))
    BY <1>1, <1>6, <2>1
  <2> QED
    BY <1>1, <1>6, <2>2
<1> QED
  BY <1>6, <1>7

\* The root is a directory, and what accepts a write is one.
LEMMA RootIsThere == <<>> \in FS.dirs /\ FS.writable \subseteq FS.dirs
<1> DEFINE homes == {Dir(f) : f \in tree} \cup {l.dir : l \in DOMAIN disk}
           dirs == UNION {Ancestors(d) : d \in homes \cup {XdgOut}}
                   \cup {PathOf(l) : l \in {m \in DOMAIN disk : disk[m].kind = "dir"}}
<1>1. FS.dirs = dirs /\ FS.writable = dirs \ agenda.locked
  BY DEF FS
<1>2. <<>> \in Ancestors(XdgOut)
  <2>1. XdgOut \in Seq(Words)
    BY LocalIsPath
  <2>2. SubSeq(XdgOut, 1, 0) = <<>> /\ 0 \in 0..Len(XdgOut)
    BY <2>1
  <2> QED
    BY <2>2 DEF Ancestors
<1> QED
  BY <1>1, <1>2

\* What is above a path is made of its words, and a path is above itself.
LEMMA Above ==
    ASSUME NEW path \in Seq(Words)
    PROVE  /\ ParentOf(path) \in Seq(Words) /\ ProbeDir(FS, path) \in Seq(Words)
           /\ <<>> \in Ancestors(path) /\ path \in Ancestors(path)
           /\ \A p \in Ancestors(path) : Len(p) <= Len(path)
<1>1. ParentOf(path) \in Seq(Words)
  BY DEF ParentOf, Front
<1>2. SubSeq(path, 1, 0) = <<>> /\ SubSeq(path, 1, Len(path)) = path /\ {0, Len(path)} \subseteq 0..Len(path)
  OBVIOUS
<1>3. \A n \in 0..Len(path) : Len(SubSeq(path, 1, n)) = n
  OBVIOUS
<1>4. ProbeDir(FS, path) \in Seq(Words)
  BY <1>1 DEF ProbeDir
<1>5. <<>> \in Ancestors(path) /\ path \in Ancestors(path)
  <2>1. SubSeq(path, 1, 0) \in Ancestors(path) /\ SubSeq(path, 1, Len(path)) \in Ancestors(path)
    BY DEF Ancestors
  <2> QED
    BY <1>2, <2>1
<1>6. \A p \in Ancestors(path) : Len(p) <= Len(path)
  <2> SUFFICES ASSUME NEW p \in Ancestors(path) PROVE Len(p) <= Len(path)
    OBVIOUS
  <2>1. PICK n \in 0..Len(path) : p = SubSeq(path, 1, n)
    BY DEF Ancestors
  <2> QED
    BY <1>3, <2>1
<1> QED
  BY <1>1, <1>4, <1>5, <1>6

\* What the slot plan starts and what the validator has nothing against, the resolver
\* accepts.
LEMMA PathAnswers ==
    ASSUME NEW path \in Seq(Words),
           ~OutputDirWriteError(FS, path) \/ (PathIssue(FS, "output_path", path) = "none" /\ path \notin FS.dirs)
    PROVE  PathWritable(FS, path)
<1> DEFINE probe == ProbeDir(FS, path)
           there == {p \in Ancestors(probe) : Exists(FS, p)}
           dirs == {p \in Ancestors(probe) : p \in FS.dirs}
<1>1. probe \in Seq(Words) /\ <<>> \in Ancestors(probe) /\ probe \in Ancestors(probe)
      /\ \A p \in Ancestors(probe) : Len(p) <= Len(probe)
  <2>1. probe \in Seq(Words)
    BY Above
  <2> HIDE DEF probe
  <2> QED
    BY <2>1, Above
<1> HIDE DEF probe
<1>2. <<>> \in there /\ <<>> \in dirs /\ dirs \subseteq there
  BY <1>1, RootIsThere DEF Exists
<1>3. CASE Nearest(there) \in FS.writable
  <2>1. Nearest(there) \in there /\ \A q \in there : Len(q) <= Len(Nearest(there))
    BY <1>1, <1>2, NearestIsLongest
  <2> HIDE DEF there
  <2>2. Nearest(there) \in dirs
    BY <1>3, <2>1, RootIsThere DEF there
  <2> HIDE DEF dirs
  <2>3. dirs \in SUBSET Ancestors(probe)
    BY DEF dirs
  <2>4. Nearest(there) = Nearest(dirs)
    BY <1>1, <1>2, <2>1, <2>2, <2>3, NearestIsLongest
  <2> QED
    BY <1>3, <2>4 DEF PathWritable, probe, dirs
<1>4. CASE PathIssue(FS, "output_path", path) = "none" /\ path \notin FS.dirs
  <2>1. probe = ParentOf(path)
    BY <1>4 DEF probe, ProbeDir
  <2>2. probe \in FS.writable
    BY <1>4, <2>1 DEF PathIssue
  <2>3. probe \in dirs /\ \A q \in dirs : Len(q) <= Len(probe)
    BY <1>1, <2>2, RootIsThere
  <2> HIDE DEF dirs
  <2>4. dirs \in SUBSET Ancestors(probe)
    BY DEF dirs
  <2>5. probe = Nearest(dirs)
    BY <1>1, <1>2, <2>3, <2>4, NearestIsLongest
  <2> QED
    BY <2>2, <2>5 DEF PathWritable, probe, dirs
<1>5. ~OutputDirWriteError(FS, path) <=> Nearest(there) \in FS.writable
  BY DEF OutputDirWriteError, probe
<1> QED
  BY <1>3, <1>4, <1>5

\* A verb is answered by the actions that serve verbs.
LEMMA OnlyServes ==
    ASSUME NEW r \in Requests, Steps(r), req[r].pc = "verb"
    PROVE  ServeVerb(r) \/ Diagnose(r) \/ ReportConfig(r) \/ CheckPaths(r)
<1>1. ~(Arrive(r) \/ TruncateTemplate(r) \/ FillTemplate(r) \/ CliValidate(r) \/ McpValidate(r) \/ TuiPlan(r))
  BY DEF At, Arrive, TruncateTemplate, FillTemplate, CliValidate, McpValidate, TuiPlan
<1>2. ~(AdapterStart(r) \/ FollowOne(r) \/ EndHop(r) \/ WriteBundle(r) \/ Preflight(r))
      /\ ~\E o \in Outcomes : RunEnds(r, o)
  BY DEF At, AdapterStart, FollowOne, EndHop, WriteBundle, Preflight, RunEnds
<1>3. ~(EnsureDir(r) \/ WriteText(r) \/ WriteSidecar(r) \/ VerifySaved(r))
  BY DEF At, EnsureDir, WriteText, WriteSidecar, VerifySaved
<1>4. ~(InitStart(r) \/ InitClear(r) \/ InitLink(r))
  BY DEF At, InitStart, InitClear, InitLink
<1> QED
  BY <1>1, <1>2, <1>3, <1>4 DEF Steps

\* A request that served a verb holds its ask, and what is said of it.
LEMMA ServeSets ==
    ASSUME ReqInv, NEW r \in Requests, ServeVerb(r) \/ Diagnose(r) \/ ReportConfig(r) \/ CheckPaths(r)
    PROVE  /\ req[r].pc = "verb" /\ req'[r].pc = "done" /\ Only(r, {"pc", "outcome", "diag", "reply"})
           /\ FS' = FS
           /\ \/ /\ ServeVerb(r) /\ Ask(r).verb \in DOMAIN Backs
                 /\ req'[r].outcome \in Backs[Ask(r).verb]
                 /\ req'[r].reply = VerbReply(FS, Root, Ask(r), req'[r].outcome)
              \/ /\ Diagnose(r) /\ Ask(r).verb = "doctor"
                 /\ req'[r].diag = [mode |-> DoctorSandboxMode(Ask(r).env), capacity |-> DoctorCapacity(Ask(r).env),
                                    warns |-> DoctorWarns(Ask(r).env, Ask(r).facts),
                                    gate |-> AllPassed(HealthProbe(Ask(r).env, Ask(r).facts))]
                 /\ req'[r].reply = IF AllPassed(DoctorChecks(Ask(r).env, Ask(r).facts, Ask(r).deep, Ask(r).smoke))
                                    THEN Answer ELSE Refuse("unhealthy")
              \/ /\ ReportConfig(r) /\ Ask(r).verb = "config"
                 /\ req'[r].diag = [mode |-> SandboxReport(Ask(r).env), capacity |-> CapacityReport(Ask(r).env),
                                    cfg |-> ForMode(Ask(r).env), issues |-> MinimumIssues(ForMode(Ask(r).env)),
                                    browsers |-> SwarmConcurrency(Ask(r).env)]
              \/ /\ CheckPaths(r) /\ Ask(r).verb = "paths"
                 /\ req'[r].diag = [slot |-> ~OutputDirWriteError(FS, Ask(r).prompt),
                                    resolver |-> PathWritable(FS, Ask(r).prompt),
                                    issue |-> PathIssue(FS, "output_path", Ask(r).prompt)]
<1>1. req[r].pc = "verb" /\ UNCHANGED <<agenda, tree, disk>>
  BY DEF ServeVerb, Diagnose, ReportConfig, CheckPaths, At, project, files
<1>2. FS' = FS
  BY <1>1 DEF FS
<1>3. CASE ServeVerb(r)
  <2>1. PICK back \in Backs[Ask(r).verb] :
           req' = [req EXCEPT ![r].pc = "done", ![r].outcome = back,
                              ![r].reply = VerbReply(FS, Root, Ask(r), back)]
    BY <1>3 DEF ServeVerb
  <2> DEFINE said == VerbReply(FS, Root, Ask(r), back)
             new == [req[r] EXCEPT !.pc = "done", !.outcome = back, !.reply = said]
  <2>2. req'[r] = new
    BY <2>1, Known
  <2> HIDE DEF said
  <2>3. /\ new.pc = "done" /\ new.outcome = back /\ new.reply = said
        /\ \A f \in ReqFields \ {"pc", "outcome", "diag", "reply"} : new[f] = req[r][f]
    BY Known, FieldsOf
  <2> HIDE DEF new
  <2>4. Ask(r).verb \in DOMAIN Backs
    BY <1>3 DEF ServeVerb
  <2> QED
    BY <1>1, <1>2, <1>3, <2>1, <2>2, <2>3, <2>4 DEF Only, said
<1>4. ASSUME NEW diag, NEW reply, req' = [req EXCEPT ![r].pc = "done", ![r].diag = diag, ![r].reply = reply]
      PROVE  /\ req'[r].pc = "done" /\ req'[r].diag = diag /\ req'[r].reply = reply
             /\ Only(r, {"pc", "outcome", "diag", "reply"})
  <2> DEFINE new == [req[r] EXCEPT !.pc = "done", !.diag = diag, !.reply = reply]
  <2>1. req'[r] = new
    BY <1>4, Known
  <2>2. /\ new.pc = "done" /\ new.diag = diag /\ new.reply = reply
        /\ \A f \in ReqFields \ {"pc", "outcome", "diag", "reply"} : new[f] = req[r][f]
    BY Known, FieldsOf
  <2> HIDE DEF new
  <2> QED
    BY <2>1, <2>2 DEF Only
<1>5. CASE Diagnose(r)
  <2> DEFINE diag == [mode |-> DoctorSandboxMode(Ask(r).env), capacity |-> DoctorCapacity(Ask(r).env),
                      warns |-> DoctorWarns(Ask(r).env, Ask(r).facts),
                      gate |-> AllPassed(HealthProbe(Ask(r).env, Ask(r).facts))]
             reply == IF AllPassed(DoctorChecks(Ask(r).env, Ask(r).facts, Ask(r).deep, Ask(r).smoke))
                      THEN Answer ELSE Refuse("unhealthy")
  <2>1. Ask(r).verb = "doctor" /\ req' = [req EXCEPT ![r].pc = "done", ![r].diag = diag, ![r].reply = reply]
    BY <1>5 DEF Diagnose
  <2> HIDE DEF diag, reply
  <2>2. /\ req'[r].pc = "done" /\ req'[r].diag = diag /\ req'[r].reply = reply
        /\ Only(r, {"pc", "outcome", "diag", "reply"})
    BY <1>4, <2>1
  <2> QED
    BY <1>1, <1>2, <1>5, <2>1, <2>2 DEF diag, reply
<1>6. CASE ReportConfig(r)
  <2> DEFINE diag == [mode |-> SandboxReport(Ask(r).env), capacity |-> CapacityReport(Ask(r).env),
                      cfg |-> ForMode(Ask(r).env), issues |-> MinimumIssues(ForMode(Ask(r).env)),
                      browsers |-> SwarmConcurrency(Ask(r).env)]
  <2>1. Ask(r).verb = "config" /\ req' = [req EXCEPT ![r].pc = "done", ![r].diag = diag, ![r].reply = Answer]
    BY <1>6 DEF ReportConfig
  <2> HIDE DEF diag
  <2>2. req'[r].pc = "done" /\ req'[r].diag = diag /\ Only(r, {"pc", "outcome", "diag", "reply"})
    BY <1>4, <2>1
  <2> QED
    BY <1>1, <1>2, <1>6, <2>1, <2>2 DEF diag
<1>7. CASE CheckPaths(r)
  <2> DEFINE diag == [slot |-> ~OutputDirWriteError(FS, Ask(r).prompt),
                      resolver |-> PathWritable(FS, Ask(r).prompt),
                      issue |-> PathIssue(FS, "output_path", Ask(r).prompt)]
  <2>1. Ask(r).verb = "paths" /\ req' = [req EXCEPT ![r].pc = "done", ![r].diag = diag, ![r].reply = Answer]
    BY <1>7 DEF CheckPaths
  <2> HIDE DEF diag
  <2>2. req'[r].pc = "done" /\ req'[r].diag = diag /\ Only(r, {"pc", "outcome", "diag", "reply"})
    BY <1>4, <2>1
  <2> QED
    BY <1>1, <1>2, <1>7, <2>1, <2>2 DEF diag
<1> QED
  BY <1>3, <1>5, <1>6, <1>7

\* What is said of the verbs, of their replies when they are given.
VerbsHonest(r) == VerbHonest(r) /\ DoctorHonest(r) /\ ConfigHonest(r) /\ PathsHonest(r)

\* A verb that is answered is answered the truth.
LEMMA VerbStep ==
    ASSUME ReqInv, [IntakeNext]_intakeVars, NEW r \in Requests, req[r].pc = "verb", req'[r].pc = "done"
    PROVE  VerbsHonest(r)'
<1>1. ServeVerb(r) \/ Diagnose(r) \/ ReportConfig(r) \/ CheckPaths(r)
  <2>1. ASSUME NEW q \in Requests, Steps(q) PROVE q = r
    BY <2>1, StepMoves DEF Moves
  <2>2. ~(EditTree \/ \E p : Die(p))
    BY Others
  <2>3. ~(MakeDir \/ Tick \/ UNCHANGED intakeVars)
    BY DEF MakeDir, Tick, intakeVars
  <2> QED
    BY <2>1, <2>2, <2>3, Movers, OnlyServes
<1> DEFINE a == Ask(r)
<1>2. a \in VerbAsks \cup EnvAsks /\ Ask(r)' = a /\ FS' = FS
  <2>1. Only(r, {"pc", "outcome", "diag", "reply"}) /\ FS' = FS
    BY <1>1, ServeSets
  <2>2. req'[r].ask = req[r].ask
    BY <2>1, FieldsOf DEF Only
  <2> QED
    BY <2>1, <2>2, Known DEF ReqOK, Ask
<1>3. DOMAIN Backs = CliVerbs \cup McpVerbs /\ {"doctor", "config", "paths"} \cap (CliVerbs \cup McpVerbs) = {}
  BY DEF Backs, CliVerbs, McpVerbs
<1>4. /\ a \in VerbAsks => a.verb \notin {"doctor", "config"} /\ a.prompt \in Seq(Words)
      /\ a \in EnvAsks => a.verb \in {"doctor", "config"} /\ a.env \in Environments
  BY DEF VerbAsks, EnvAsks, VerbFields, CliVerbs, McpVerbs
<1> DEFINE diag == req'[r].diag
           reply == req'[r].reply
<1>5. CASE a.verb \in DOMAIN Backs
  <2>1. /\ req'[r].outcome \in Backs[a.verb] /\ reply = VerbReply(FS, Root, a, req'[r].outcome)
        /\ a.verb \notin {"doctor", "config", "paths"}
    BY <1>1, <1>3, <1>5, ServeSets
  <2>2. a \in VerbAsks
    BY <1>2, <1>4, <2>1
  <2>3. reply.ok <=> \/ Declined(a) /\ req'[r].outcome # "absent"
                     \/ InputInOrder(a) /\ req'[r].outcome \in {"ok"} \cup Whatever(a)
    BY <1>5, <2>1, <2>2, VerbAnswers
  <2>4. InputInOrder(Ask(r))' <=> InputInOrder(a)
    BY <1>2 DEF InputInOrder
  <2> HIDE DEF a
  <2>5. VerbHonest(r)'
    BY <1>2, <2>3, <2>4 DEF VerbHonest
  <2> QED
    BY <1>2, <2>1, <2>5 DEF VerbsHonest, DoctorHonest, ConfigHonest, PathsHonest
<1>6. CASE a.verb = "doctor"
  <2>1. /\ diag = [mode |-> DoctorSandboxMode(a.env), capacity |-> DoctorCapacity(a.env),
                   warns |-> DoctorWarns(a.env, a.facts), gate |-> AllPassed(HealthProbe(a.env, a.facts))]
        /\ reply = IF AllPassed(DoctorChecks(a.env, a.facts, a.deep, a.smoke)) THEN Answer ELSE Refuse("unhealthy")
        /\ a.verb \notin DOMAIN Backs \cup {"config", "paths"}
    BY <1>1, <1>3, <1>6, ServeSets
  <2>2. a \in EnvAsks
    BY <1>2, <1>4, <1>6
  <2>3. reply.ok <=> AllPassed(DoctorChecks(a.env, a.facts, a.deep, a.smoke))
    BY <2>1, Claims
  <2>4. /\ diag.mode = DoctorSandboxMode(a.env) /\ diag.capacity = DoctorCapacity(a.env)
        /\ diag.warns = DoctorWarns(a.env, a.facts)
        /\ diag.gate = AllPassed(HealthProbe(a.env, a.facts))
    BY <2>1
  <2> HIDE DEF a
  <2>5. DoctorHonest(r)'
    BY <1>2, <1>6, <2>2, <2>3, <2>4, DoctorAnswers DEF DoctorHonest
  <2> QED
    BY <1>2, <1>6, <2>1, <2>5 DEF VerbsHonest, VerbHonest, ConfigHonest, PathsHonest
<1>7. CASE a.verb = "config"
  <2>1. /\ diag = [mode |-> SandboxReport(a.env), capacity |-> CapacityReport(a.env),
                   cfg |-> ForMode(a.env), issues |-> MinimumIssues(ForMode(a.env)),
                   browsers |-> SwarmConcurrency(a.env)]
        /\ a.verb \notin DOMAIN Backs \cup {"doctor", "paths"}
    BY <1>1, <1>3, <1>7, ServeSets
  <2>2. a.env \in Environments
    BY <1>2, <1>4, <1>7
  <2>3. /\ diag.mode = SandboxReport(a.env) /\ diag.capacity = CapacityReport(a.env)
        /\ diag.cfg = ForMode(a.env) /\ diag.issues = MinimumIssues(ForMode(a.env))
        /\ diag.browsers = SwarmConcurrency(a.env)
    BY <2>1
  <2> HIDE DEF a
  <2>4. ConfigHonest(r)'
    BY <1>2, <1>7, <2>2, <2>3, ConfigAnswers DEF ConfigHonest
  <2> QED
    BY <1>2, <1>7, <2>1, <2>4 DEF VerbsHonest, VerbHonest, DoctorHonest, PathsHonest
<1>8. CASE a.verb = "paths"
  <2> DEFINE slot == ~OutputDirWriteError(FS, a.prompt)
             resolver == PathWritable(FS, a.prompt)
             issue == PathIssue(FS, "output_path", a.prompt)
  <2>1. /\ diag = [slot |-> slot, resolver |-> resolver, issue |-> issue]
        /\ a.verb \notin DOMAIN Backs \cup {"doctor", "config"}
    BY <1>1, <1>3, <1>8, ServeSets
  <2>2. a.prompt \in Seq(Words)
    BY <1>2, <1>4, <1>8
  <2> HIDE DEF slot, resolver, issue
  <2>3. diag.slot = slot /\ diag.resolver = resolver /\ diag.issue = issue
    BY <2>1
  <2>5. slot \/ (issue = "none" /\ a.prompt \notin FS.dirs) => resolver
    BY <2>2, PathAnswers DEF slot, resolver, issue
  <2> HIDE DEF a
  <2>4. PathsHonest(r)'
    BY <1>2, <1>8, <2>3, <2>5 DEF PathsHonest
  <2> QED
    BY <1>2, <1>8, <2>1, <2>4 DEF VerbsHonest, VerbHonest, DoctorHonest, ConfigHonest
<1> QED
  BY <1>1, <1>5, <1>6, <1>7, <1>8, ServeSets

\* What a save writes of an outcome.
KindOf(o) == IF o = "noise" THEN "empty" ELSE "text"

\* The text is written at the target, or the request fails for a reason.
LEMMA WriteSets ==
    ASSUME ReqInv, NEW r \in Requests, WriteText(r)
    PROVE  /\ req[r].pc = "write" /\ Only(r, {"pc", "hit", "reply"}) /\ UNCHANGED <<meta, local>>
           /\ \/ /\ req'[r].pc = "done" /\ ~req'[r].reply.ok /\ req'[r].hit = TRUE
                 /\ disk' = ReleaseReservedName(Phys(req[r].target))
              \/ /\ req'[r].pc = "done" /\ ~req'[r].reply.ok /\ UNCHANGED disk
                 /\ req[r].target.dir = LocalOut \/ IsDirAt(req[r].target)
              \/ /\ req'[r].pc = "sidecar" /\ ~IsDirAt(req[r].target)
                 /\ disk' = Put(disk, Phys(req[r].target), [by |-> r, kind |-> KindOf(req[r].outcome)])
<1>1. req[r].pc = "write" /\ UNCHANGED <<meta, local>>
  BY DEF WriteText, At
<1>2. \/ DiskFault(r, RunReply(Ask(r).surface, "failed")) /\ disk' = ReleaseReservedName(Phys(req[r].target))
      \/ /\ req[r].target.dir = LocalOut \/ IsDirAt(req[r].target)
         /\ Fail(r, "failed") /\ UNCHANGED disk
      \/ /\ ~IsDirAt(req[r].target) /\ Goto(r, "sidecar")
         /\ disk' = Put(disk, Phys(req[r].target), [by |-> r, kind |-> KindOf(req[r].outcome)])
  BY DEF WriteText, KindOf
<1>3. CASE DiskFault(r, RunReply(Ask(r).surface, "failed")) /\ disk' = ReleaseReservedName(Phys(req[r].target))
  BY <1>1, <1>3, Failures, FaultSets
<1>4. CASE /\ req[r].target.dir = LocalOut \/ IsDirAt(req[r].target)
           /\ Fail(r, "failed") /\ UNCHANGED disk
  <2>1. Refused(r)
    BY <1>4, Failures DEF Fail, Refused
  <2>2. req'[r].pc = "done" /\ ~req'[r].reply.ok /\ Only(r, {"pc", "hit", "reply"})
    BY <2>1, RefusedSets
  <2> QED
    BY <1>1, <1>4, <2>2
<1>5. CASE /\ ~IsDirAt(req[r].target) /\ Goto(r, "sidecar")
           /\ disk' = Put(disk, Phys(req[r].target), [by |-> r, kind |-> KindOf(req[r].outcome)])
  BY <1>1, <1>5, GotoSets DEF Only
<1> QED
  BY <1>2, <1>3, <1>4, <1>5

\* The sidecar is written, or the write refused.
LEMMA SidecarSets ==
    ASSUME ReqInv, NEW r \in Requests, WriteSidecar(r)
    PROVE  /\ req[r].pc = "sidecar" /\ Only(r, {"pc", "hit", "reply"}) /\ UNCHANGED <<disk, local>>
           /\ \/ req'[r].pc = "done" /\ ~req'[r].reply.ok /\ req'[r].hit = TRUE /\ UNCHANGED meta
              \/ req'[r].pc = "verify" /\ meta' = Put(meta, Sidecar(req[r].target), r)
<1>1. req[r].pc = "sidecar" /\ UNCHANGED <<disk, local>>
  BY DEF WriteSidecar, At
<1>2. \/ DiskFault(r, RunReply(Ask(r).surface, "failed")) /\ UNCHANGED meta
      \/ Goto(r, "verify") /\ meta' = Put(meta, Sidecar(req[r].target), r)
  BY DEF WriteSidecar
<1>3. CASE DiskFault(r, RunReply(Ask(r).surface, "failed")) /\ UNCHANGED meta
  <2> DEFINE reply == RunReply(Ask(r).surface, "failed")
  <2>1. DiskFault(r, reply) /\ ~reply.ok
    BY <1>3, Failures
  <2> HIDE DEF reply
  <2> QED
    BY <1>1, <1>3, <2>1, FaultSets
<1>4. CASE Goto(r, "verify") /\ meta' = Put(meta, Sidecar(req[r].target), r)
  BY <1>1, <1>4, GotoSets DEF Only
<1> QED
  BY <1>2, <1>3, <1>4

\* A run is a success when its destination holds a text and it was not cut.
LEMMA VerifySets ==
    ASSUME ReqInv, NEW r \in Requests, VerifySaved(r)
    PROVE  /\ req[r].pc = "verify" /\ req'[r].pc = "done" /\ Only(r, {"pc", "reply"})
           /\ UNCHANGED <<disk, meta, local>>
           /\ req'[r].reply.ok <=> Readable(req[r].out) /\ req[r].outcome # "cut"
<1> DEFINE ok == Readable(req[r].out) /\ req[r].outcome # "cut"
           said == IF ok THEN "processed" ELSE "failed"
<1>1. req[r].pc = "verify" /\ UNCHANGED <<disk, meta, local>> /\ Fail(r, said)
  BY DEF VerifySaved, At, files
<1>2. RunReply(Ask(r).surface, "processed").ok
  BY Claims DEF RunReply, McpRunReply, CliRunReply
<1>3. ~RunReply(Ask(r).surface, "failed").ok
  BY Failures
<1>4. said \in {"processed", "failed"} /\ (said = "processed" <=> ok)
  OBVIOUS
<1> HIDE DEF said
<1>5. req'[r].pc = "done" /\ req'[r].reply = RunReply(Ask(r).surface, said) /\ Only(r, {"pc", "reply"})
  BY <1>1, ReplySets DEF Fail
<1> QED
  BY <1>1, <1>2, <1>3, <1>4, <1>5

\* An init goes on, is refused, or ends with a destination.
LEMMA InitSets ==
    ASSUME ReqInv, NEW r \in Requests, InitStart(r) \/ InitClear(r) \/ InitLink(r)
    PROVE  /\ req[r].pc \in Inits /\ Only(r, {"pc", "hit", "reply"}) /\ UNCHANGED <<meta, bundles, template>>
           /\ \/ req'[r].pc = "done" /\ ~req'[r].reply.ok /\ UNCHANGED <<disk, local>>
              \/ req[r].pc = "harden" /\ req'[r].pc = "clear" /\ UNCHANGED <<disk, local>>
              \/ req[r].pc = "clear" /\ req'[r].pc = "link" /\ local' = "absent"
              \/ /\ req[r].pc = "link" /\ req'[r].pc = "done" /\ UNCHANGED disk
                 /\ local' \in IF local = "absent" THEN {"link", "dir"} ELSE {local}
<1>1. /\ \/ InitStart(r) /\ req[r].pc = "harden"
         \/ InitClear(r) /\ req[r].pc = "clear"
         \/ InitLink(r) /\ req[r].pc = "link"
      /\ UNCHANGED <<meta, bundles, template>>
  BY DEF InitStart, InitClear, InitLink, At, project
<1>2. CASE Refused(r) /\ UNCHANGED <<disk, local>>
  BY <1>1, <1>2, RefusedSets DEF Inits
<1>3. CASE InitStart(r)
  <2>1. \/ Refused(r) /\ UNCHANGED <<disk, local>>
        \/ Goto(r, "clear") /\ UNCHANGED <<disk, local>>
    BY <1>3, Failures DEF InitStart, Refused
  <2>2. CASE Goto(r, "clear") /\ UNCHANGED <<disk, local>>
    BY <1>1, <1>3, <2>2, GotoSets DEF Only, Inits, InitStart, At
  <2> QED
    BY <1>2, <2>1, <2>2
<1>4. CASE InitClear(r)
  <2>1. \/ Refused(r) /\ UNCHANGED <<disk, local>>
        \/ Goto(r, "link") /\ local' = "absent"
    BY <1>4, Failures DEF InitClear, Refused
  <2>2. CASE Goto(r, "link") /\ local' = "absent"
    BY <1>1, <1>4, <2>2, GotoSets DEF Only, Inits, InitClear, At
  <2> QED
    BY <1>2, <2>1, <2>2
<1>5. CASE InitLink(r)
  <2> DEFINE links == IF local = "absent" THEN {"link", "dir"} ELSE {local}
  <2>1. /\ UNCHANGED disk
        /\ \/ Refused(r) /\ UNCHANGED local
           \/ Reply(r, InitReply(Ask(r).surface, TRUE)) /\ local' \in links
    BY <1>5, Failures DEF InitLink, Refused
  <2>2. CASE Reply(r, InitReply(Ask(r).surface, TRUE)) /\ local' \in links
    BY <1>1, <1>5, <2>1, <2>2, ReplySets DEF Only, Inits, InitLink, At
  <2> QED
    BY <1>2, <2>1, <2>2
<1> QED
  BY <1>1, <1>3, <1>4, <1>5

\* The template is blank from the truncation to the fill.
LEMMA TemplateSets ==
    ASSUME ReqInv, NEW r \in Requests, TruncateTemplate(r) \/ FillTemplate(r)
    PROVE  /\ Only(r, {"pc"})
           /\ \/ req[r].pc = "template" /\ req'[r].pc = "fill" /\ template' = "blank"
              \/ req[r].pc = "fill" /\ req'[r].pc = "validate" /\ template' = "whole"
BY GotoSets DEF TruncateTemplate, FillTemplate, At

-----------------------------------------------------------------------------
(* Intake: what a request holds in its phases *)

Held(q) ==
    /\ q.pc = "idle" => q.ask.verb = "none"
    /\ q.ask.verb \in RunVerbs => q.ask \in RunAsks /\ q.pc \notin Inits \cup {"idle", "verb"}
    /\ q.ask.verb = "init" => q.pc \in Inits \cup {"done", "dead"}
    /\ q.pc \in {"idle", "running"} \cup Early \cup Prep => q.outcome = "none"
    /\ q.pc \in {"save"} \cup Saving => q.outcome \in {"answer", "noise", "cut"}
    /\ q.pc \in {"idle", "start"} \cup Early => q.attach = NoPath
    /\ q.pc \in {"idle"} \cup Early \cup Prep => q.prompt = "whole"
    /\ q.pc \in {"template", "fill"} => q.ask.role = TRUE
    /\ q.pc = "done" /\ q.ask.verb \in RunVerbs /\ q.reply.ok =>
         q.outcome \in {"answer", "noise"} /\ q.target # NoOut

HeldInv == \A r \in Requests : Held(req[r])

\* Of a request that others stepped beside, only the death or an edit can be seen.
Rests(r) ==
    /\ req'[r].pc \in {req[r].pc, "dead"}
    /\ req[r].pc \in {"idle", "done", "dead"} => req'[r].pc = req[r].pc
    /\ \A f \in ReqFields \ {"pc", "dirty"} : req'[r][f] = req[r][f]

\* A step is the step of one request, or of the world around them.
LEMMA OneSteps ==
    ASSUME ReqInv, [IntakeNext]_intakeVars
    PROVE  \/ \E r \in Requests : Steps(r) /\ \A q \in Requests \ {r} : req'[q] = req[q] /\ Rests(q)
           \/ /\ \A q \in Requests : Rests(q)
              /\ UNCHANGED <<meta, local, template, bundles>>
              /\ UNCHANGED disk \/ MakeDir
<1>1. ASSUME NEW r \in Requests, Steps(r)
      PROVE  \A q \in Requests \ {r} : req'[q] = req[q] /\ Rests(q)
  BY <1>1, StepMoves DEF Moves, Rests
<1>2. CASE EditTree \/ \E p : Die(p)
  <2>1. \A q \in Requests : Rests(q)
    BY <1>2, Others DEF Rests
  <2>2. UNCHANGED <<meta, local, template, bundles, disk>>
    BY <1>2 DEF EditTree, Die, files
  <2> QED
    BY <2>1, <2>2
<1>3. CASE MakeDir \/ Tick \/ UNCHANGED intakeVars
  <2>1. UNCHANGED <<req, meta, local, template, bundles>> /\ (UNCHANGED disk \/ MakeDir)
    BY <1>3 DEF MakeDir, Tick, project, files, intakeVars
  <2> QED
    BY <2>1 DEF Rests
<1> QED
  BY <1>1, <1>2, <1>3, Movers

\* Which actions touch what is beside the disk.
LEMMA FewTouch ==
    ASSUME NEW r \in Requests, Steps(r)
    PROVE  /\ UNCHANGED meta \/ WriteSidecar(r)
           /\ UNCHANGED local \/ EnsureDir(r) \/ InitClear(r) \/ InitLink(r)
           /\ UNCHANGED template \/ TruncateTemplate(r) \/ FillTemplate(r)
           /\ UNCHANGED bundles \/ WriteBundle(r)
<1>1. CASE Arrive(r) \/ TruncateTemplate(r) \/ FillTemplate(r)
           \/ CliValidate(r) \/ McpValidate(r) \/ TuiPlan(r)
  BY <1>1 DEF Arrive, TruncateTemplate, FillTemplate, CliValidate, McpValidate, TuiPlan, files, project
<1>2. CASE AdapterStart(r) \/ FollowOne(r) \/ EndHop(r) \/ Preflight(r)
           \/ \E o \in Outcomes : RunEnds(r, o)
  BY <1>2 DEF AdapterStart, FollowOne, EndHop, Preflight, RunEnds, files, project
<1>3. CASE WriteBundle(r) \/ WriteSidecar(r) \/ VerifySaved(r)
  BY <1>3 DEF WriteBundle, WriteSidecar, VerifySaved, files, project
<1>4. CASE EnsureDir(r) \/ WriteText(r)
  BY <1>4 DEF EnsureDir, WriteText, project
<1>5. CASE InitStart(r) \/ InitClear(r) \/ InitLink(r)
  BY <1>5 DEF InitStart, InitClear, InitLink, project
<1>6. CASE ServeVerb(r) \/ Diagnose(r) \/ ReportConfig(r) \/ CheckPaths(r)
  BY <1>6 DEF ServeVerb, Diagnose, ReportConfig, CheckPaths, files, project
<1> QED
  BY <1>1, <1>2, <1>3, <1>4, <1>5, <1>6 DEF Steps

\* The verb of an ask of each kind.
LEMMA VerbsOfAsks ==
    ASSUME NEW a
    PROVE  /\ a \in RunAsks => a.verb \in RunVerbs /\ a.verb \notin {"none", "init"} /\ a.role \in BOOLEAN
           /\ a \in VerbAsks \cup EnvAsks => a.verb \notin RunVerbs \cup {"init"}
<1>1. a \in RunAsks => a.verb \in RunVerbs /\ a.role \in BOOLEAN
  BY DEF RunAsks
<1>2. a \in VerbAsks \cup EnvAsks => a \in AllAsks
  BY DEF AllAsks
<1> QED
  BY <1>1, <1>2, Kinds DEF RunVerbs

\* A failed request holds nothing more.
LEMMA HeldWhenFailed ==
    ASSUME ReqInv, NEW r \in Requests, Held(req[r]), req[r].pc # "idle", req[r].pc # "verb",
           req'[r].pc = "done", ~req'[r].reply.ok,
           req'[r].ask = req[r].ask
    PROVE  Held(req'[r])
BY DEF Held, Inits, Early, Prep, Saving

\* The steps of a request keep what it holds.
LEMMA HeldStep ==
    ASSUME ReqInv, NEW r \in Requests, Held(req[r]), Steps(r)
    PROVE  Held(req'[r])
<1> DEFINE q == req[r]
           n == req'[r]
<1>1. ReqOK(q, r) /\ ReqOK(n, r)
  BY StepMoves DEF ReqInv, Moves
<1>2. CASE Arrive(r)
  <2>1. /\ q.pc = "idle" /\ n.ask \in AllAsks /\ n.pc = FirstStep(n.ask)
        /\ n.outcome = q.outcome /\ n.attach = q.attach /\ n.prompt = q.prompt
    BY <1>2, ArriveSets, FieldsOf DEF Only
  <2>2. \/ n.ask.verb = "init" /\ n.pc = "harden"
        \/ n.ask \in RunAsks /\ n.ask.role = TRUE /\ n.pc = "template"
        \/ n.ask \in RunAsks /\ n.pc = "validate"
        \/ n.ask \in VerbAsks \cup EnvAsks /\ n.pc = "verb"
    BY <2>1, Kinds DEF FirstStep, RunVerbs
  <2> QED
    BY <1>1, <2>1, <2>2, VerbsOfAsks DEF Held, Inits, Early, Prep, Saving, RunVerbs
<1>3. CASE TruncateTemplate(r) \/ FillTemplate(r)
  <2>1. /\ q.pc \in {"template", "fill"} /\ n.pc \in {"fill", "validate"} /\ n.ask = q.ask
        /\ n.outcome = q.outcome /\ n.attach = q.attach /\ n.prompt = q.prompt
    BY <1>3, TemplateSets, FieldsOf DEF Only
  <2> QED
    BY <1>1, <2>1, VerbsOfAsks DEF Held, Inits, Early, Prep, Saving, ReqOK
<1>4. ASSUME Refused(r), q.pc \notin {"idle", "verb"} PROVE Held(n)
  <2>1. n.pc = "done" /\ ~n.reply.ok /\ n.ask = q.ask
    BY <1>4, RefusedSets, FieldsOf DEF Only
  <2> QED
    BY <1>4, <2>1, HeldWhenFailed
<1>5. CASE CliValidate(r) \/ McpValidate(r) \/ TuiPlan(r)
  <2>1. /\ q.pc = "validate"
        /\ Refused(r) \/ (n.pc = "start" /\ Only(r, {"pc", "ask", "out"}))
    BY <1>5, ValidateSets, Claims DEF Refused
  <2>2. CASE n.pc = "start" /\ Only(r, {"pc", "ask", "out"})
    <3>1. n.outcome = q.outcome /\ n.attach = q.attach /\ n.prompt = q.prompt
      BY <2>2, FieldsOf DEF Only
    <3>2. n.ask \in RunAsks
      BY <1>1, <2>2 DEF ReqOK, Prep
    <3> QED
      BY <2>1, <2>2, <3>1, <3>2, VerbsOfAsks DEF Held, Inits, Early, Prep, Saving
  <2> QED
    BY <1>4, <2>1, <2>2
<1>6. CASE AdapterStart(r) \/ FollowOne(r) \/ EndHop(r) \/ WriteBundle(r)
  <2>1. /\ q.pc \in {"start", "follow"}
        /\ Refused(r) \/ (n.pc \in {"follow", "preflight", "bundled"} /\ Only(r, {"pc", "walk", "attach"}))
    BY <1>6, PrepareSets
  <2>2. CASE n.pc \in {"follow", "preflight", "bundled"} /\ Only(r, {"pc", "walk", "attach"})
    <3>1. n.outcome = q.outcome /\ n.ask = q.ask /\ n.prompt = q.prompt
      BY <2>2, FieldsOf DEF Only
    <3>2. n.ask \in RunAsks
      BY <1>1, <2>2 DEF ReqOK, Prep
    <3> QED
      BY <2>1, <2>2, <3>1, <3>2, VerbsOfAsks DEF Held, Inits, Early, Prep, Saving
  <2> QED
    BY <1>4, <2>1, <2>2
<1>7. CASE Preflight(r)
  <2>1. /\ q.pc \in {"preflight", "bundled"}
        /\ Refused(r) \/ (n.pc = "running" /\ Only(r, {"pc", "prompt", "out"}))
    BY <1>7, PreflightSets
  <2>2. CASE n.pc = "running" /\ Only(r, {"pc", "prompt", "out"})
    <3>1. n.outcome = q.outcome /\ n.ask = q.ask
      BY <2>2, FieldsOf DEF Only
    <3>2. n.ask \in RunAsks
      BY <1>1, <2>2 DEF ReqOK, Placed
    <3> QED
      BY <2>1, <2>2, <3>1, <3>2, VerbsOfAsks DEF Held, Inits, Early, Prep, Saving
  <2> QED
    BY <1>4, <2>1, <2>2
<1>8. CASE \E o \in Outcomes : RunEnds(r, o)
  <2>1. PICK o \in Outcomes : RunEnds(r, o)
    BY <1>8
  <2>2. /\ q.pc = "running" /\ n.outcome = o /\ n.ask = q.ask
        /\ \/ n.pc = "save" /\ o \in {"answer", "noise", "cut"}
           \/ n.pc = "done" /\ ~n.reply.ok
    BY <2>1, RunSets, FieldsOf DEF Only
  <2>3. CASE n.pc = "done" /\ ~n.reply.ok
    BY <2>2, <2>3, HeldWhenFailed
  <2>4. CASE n.pc = "save" /\ o \in {"answer", "noise", "cut"}
    <3>1. n.ask \in RunAsks
      BY <1>1, <2>4 DEF ReqOK, Placed
    <3> QED
      BY <2>2, <2>4, <3>1, VerbsOfAsks DEF Held, Inits, Early, Prep, Saving
  <2> QED
    BY <2>2, <2>3, <2>4
<1>9. CASE EnsureDir(r) \/ WriteText(r) \/ WriteSidecar(r)
  <2>1. /\ q.pc \in {"save", "write", "sidecar"}
        /\ Only(r, {"pc", "hit", "reply", "target"})
        /\ (n.pc = "done" /\ ~n.reply.ok) \/ n.pc \in Saving
    <3>1. CASE EnsureDir(r)
      BY <3>1, EnsureSets DEF Only, Saving
    <3>2. CASE WriteText(r)
      BY <3>2, WriteSets DEF Only, Saving
    <3>3. CASE WriteSidecar(r)
      BY <3>3, SidecarSets DEF Only, Saving
    <3> QED
      BY <1>9, <3>1, <3>2, <3>3
  <2>2. n.ask = q.ask /\ n.outcome = q.outcome
    BY <2>1, FieldsOf DEF Only
  <2>3. CASE n.pc = "done" /\ ~n.reply.ok
    BY <2>1, <2>2, <2>3, HeldWhenFailed
  <2>4. CASE n.pc \in Saving
    <3>1. n.ask \in RunAsks
      BY <1>1, <2>4 DEF ReqOK
    <3> QED
      BY <2>1, <2>2, <2>4, <3>1, VerbsOfAsks DEF Held, Inits, Early, Prep, Saving
  <2> QED
    BY <2>1, <2>3, <2>4
<1>10. CASE VerifySaved(r)
  <2>1. /\ q.pc = "verify" /\ n.pc = "done" /\ (n.reply.ok => q.outcome # "cut")
        /\ n.ask = q.ask /\ n.outcome = q.outcome /\ n.target = q.target
    BY <1>10, VerifySets, FieldsOf DEF Only
  <2>2. q.ask \in RunAsks /\ q.target # NoOut
    <3>1. q.ask \in RunAsks /\ q.target \in Outs(r)
      BY <1>1, <2>1 DEF ReqOK, Saving
    <3> QED
      BY <3>1, Paths
  <2> QED
    BY <2>1, <2>2, VerbsOfAsks DEF Held, Inits, Early, Prep, Saving
<1>11. CASE InitStart(r) \/ InitClear(r) \/ InitLink(r)
  <2>1. q.pc \in Inits /\ n.pc \in Inits \cup {"done"} /\ n.ask = q.ask /\ n.outcome = q.outcome
    BY <1>11, InitSets, FieldsOf DEF Only, Inits
  <2>2. n.ask.verb = "init"
    BY <1>1, <2>1 DEF ReqOK
  <2> QED
    BY <2>1, <2>2 DEF Held, Inits, Early, Prep, Saving, RunVerbs
<1>12. CASE ServeVerb(r) \/ Diagnose(r) \/ ReportConfig(r) \/ CheckPaths(r)
  <2>1. q.pc = "verb" /\ n.ask = q.ask
    BY <1>12, ServeSets, FieldsOf DEF Only
  <2>2. n.pc = "done"
    BY <1>12, ServeSets
  <2>3. n.ask.verb \notin RunVerbs \cup {"init"}
    BY <1>1, <2>1, VerbsOfAsks DEF ReqOK
  <2> QED
    BY <2>2, <2>3 DEF Held, Inits, Early, Prep, Saving
<1> QED
  BY <1>2, <1>3, <1>5, <1>6, <1>7, <1>8, <1>9, <1>10, <1>11, <1>12 DEF Steps

\* What a request holds is kept by every step.
LEMMA HeldKept ==
    ASSUME ReqInv, HeldInv, [IntakeNext]_intakeVars
    PROVE  HeldInv'
<1>1. ASSUME NEW q \in Requests, Rests(q) PROVE Held(req'[q])
  <2>1. /\ req'[q].ask = req[q].ask /\ req'[q].outcome = req[q].outcome /\ req'[q].attach = req[q].attach
        /\ req'[q].prompt = req[q].prompt /\ req'[q].reply = req[q].reply /\ req'[q].target = req[q].target
    BY <1>1, FieldsOf DEF Rests
  <2>2. req'[q].pc = req[q].pc \/ (req'[q].pc = "dead" /\ req[q].pc # "idle")
    BY <1>1 DEF Rests
  <2> QED
    BY <2>1, <2>2 DEF Held, HeldInv, Inits, Early, Prep, Saving
<1>2. ASSUME NEW q \in Requests, Steps(q) PROVE Held(req'[q])
  BY <1>2, HeldStep DEF HeldInv
<1> QED
  BY <1>1, <1>2, OneSteps DEF HeldInv

\* Which actions change which field of a request.
LEMMA FieldSteps ==
    ASSUME ReqInv, NEW r \in Requests, Steps(r)
    PROVE  /\ req'[r].ask = req[r].ask \/ Arrive(r) \/ CliValidate(r) \/ McpValidate(r) \/ TuiPlan(r)
           /\ req'[r].out = req[r].out \/ CliValidate(r) \/ McpValidate(r) \/ TuiPlan(r) \/ Preflight(r)
           /\ req'[r].attach = req[r].attach \/ AdapterStart(r) \/ FollowOne(r) \/ EndHop(r) \/ WriteBundle(r)
           /\ req'[r].prompt = req[r].prompt \/ Preflight(r)
           /\ req'[r].sent = req[r].sent \/ \E o \in Outcomes : RunEnds(r, o)
           /\ req'[r].target = req[r].target \/ EnsureDir(r)
           /\ \/ req'[r].outcome = req[r].outcome
              \/ (\E o \in Outcomes : RunEnds(r, o)) \/ req[r].pc = "verb"
<1>1. CASE Arrive(r)
  BY <1>1, ArriveSets, FieldsOf DEF Only
<1>2. CASE TruncateTemplate(r) \/ FillTemplate(r)
  BY <1>2, TemplateSets, FieldsOf DEF Only
<1>3. CASE CliValidate(r) \/ McpValidate(r) \/ TuiPlan(r)
  <2>1. Refused(r) \/ Only(r, {"pc", "ask", "out"})
    BY <1>3, ValidateSets, Claims DEF Refused
  <2>2. Only(r, {"pc", "ask", "out", "hit", "reply"})
    BY <2>1, RefusedSets DEF Only
  <2> QED
    BY <1>3, <2>2, FieldsOf DEF Only
<1>4. CASE AdapterStart(r) \/ FollowOne(r) \/ EndHop(r) \/ WriteBundle(r)
  <2>1. Refused(r) \/ Only(r, {"pc", "walk", "attach"})
    BY <1>4, PrepareSets
  <2>2. Only(r, {"pc", "walk", "attach", "hit", "reply"})
    BY <2>1, RefusedSets DEF Only
  <2> QED
    BY <1>4, <2>2, FieldsOf DEF Only
<1>5. CASE Preflight(r)
  <2>1. Refused(r) \/ Only(r, {"pc", "prompt", "out"})
    BY <1>5, PreflightSets
  <2>2. Only(r, {"pc", "prompt", "out", "hit", "reply"})
    BY <2>1, RefusedSets DEF Only
  <2> QED
    BY <1>5, <2>2, FieldsOf DEF Only
<1>6. CASE \E o \in Outcomes : RunEnds(r, o)
  BY <1>6, RunSets, FieldsOf DEF Only
<1>7. CASE EnsureDir(r)
  <2>1. Only(r, {"pc", "hit", "reply", "target"})
    BY <1>7, EnsureSets DEF Only
  <2> QED
    BY <1>7, <2>1, FieldsOf DEF Only
<1>8. CASE WriteText(r) \/ WriteSidecar(r) \/ VerifySaved(r)
  <2>1. Only(r, {"pc", "hit", "reply"})
    BY <1>8, WriteSets, SidecarSets, VerifySets DEF Only
  <2> QED
    BY <2>1, FieldsOf DEF Only
<1>9. CASE InitStart(r) \/ InitClear(r) \/ InitLink(r)
  BY <1>9, InitSets, FieldsOf DEF Only
<1>10. CASE ServeVerb(r) \/ Diagnose(r) \/ ReportConfig(r) \/ CheckPaths(r)
  BY <1>10, ServeSets, FieldsOf DEF Only
<1> QED
  BY <1>1, <1>2, <1>3, <1>4, <1>5, <1>6, <1>7, <1>8, <1>9, <1>10 DEF Steps

\* An ask is changed by the arrival and, for the attachment, by the plan of a slot.
LEMMA AskSteps ==
    ASSUME ReqInv, [IntakeNext]_intakeVars, NEW q \in Requests
    PROVE  \/ req'[q].ask = req[q].ask
           \/ req[q].pc = "idle"
           \/ /\ req[q].pc = "validate" /\ req'[q].ask \in RunAsks
              /\ req'[q].ask.role = req[q].ask.role
<1>1. CASE Rests(q)
  BY <1>1, FieldsOf DEF Rests
<1>2. CASE Steps(q)
  <2>1. CASE Arrive(q)
    BY <2>1, ArriveSets
  <2>2. CASE CliValidate(q) \/ McpValidate(q) \/ TuiPlan(q)
    <3>1. /\ req[q].pc = "validate"
          /\ \/ Refused(q)
             \/ req'[q].pc = "start" /\ req'[q].ask.role = req[q].ask.role
      BY <2>2, ValidateSets, Claims DEF Refused
    <3>2. Refused(q) => req'[q].ask = req[q].ask
      BY RefusedSets, FieldsOf DEF Only
    <3>3. req'[q].pc = "start" => req'[q].ask \in RunAsks
      BY <1>2, StepMoves DEF Moves, ReqOK, Prep
    <3> QED
      BY <3>1, <3>2, <3>3
  <2> QED
    BY <1>2, <2>1, <2>2, FieldSteps
<1> QED
  BY <1>1, <1>2, OneSteps

\* What fills a template, or is over, does nothing else.
LEMMA OnlyFills ==
    ASSUME NEW r \in Requests, Steps(r), req[r].pc \in {"fill", "done", "dead"}
    PROVE  FillTemplate(r)
<1>1. ~(Arrive(r) \/ TruncateTemplate(r) \/ CliValidate(r) \/ McpValidate(r) \/ TuiPlan(r))
  BY DEF At, Arrive, TruncateTemplate, CliValidate, McpValidate, TuiPlan
<1>2. ~(AdapterStart(r) \/ FollowOne(r) \/ EndHop(r) \/ WriteBundle(r) \/ Preflight(r))
      /\ ~\E o \in Outcomes : RunEnds(r, o)
  BY DEF At, AdapterStart, FollowOne, EndHop, WriteBundle, Preflight, RunEnds
<1>3. ~(EnsureDir(r) \/ WriteText(r) \/ WriteSidecar(r) \/ VerifySaved(r))
  BY DEF At, EnsureDir, WriteText, WriteSidecar, VerifySaved
<1>4. ~(InitStart(r) \/ InitClear(r) \/ InitLink(r))
  BY DEF At, InitStart, InitClear, InitLink
<1>5. ~(ServeVerb(r) \/ Diagnose(r) \/ ReportConfig(r) \/ CheckPaths(r))
  BY DEF At, ServeVerb, Diagnose, ReportConfig, CheckPaths
<1> QED
  BY <1>1, <1>2, <1>3, <1>4, <1>5 DEF Steps

-----------------------------------------------------------------------------
(* Intake: a blank prompt comes from another materialisation of the role *)

RolePlayed(q) == Ask(q) \in RunAsks /\ Ask(q).role = TRUE

TemplateInv ==
    /\ template = "blank" => \E q \in Requests : RolePlayed(q) /\ req[q].pc \in {"fill", "dead"}
    /\ \A r \in Requests : req[r].prompt = "blank" =>
         RolePlayed(r) /\ \E q \in Requests \ {r} : RolePlayed(q)

\* Once a role is asked for, it is.
LEMMA RoleStays ==
    ASSUME ReqInv, HeldInv, [IntakeNext]_intakeVars, NEW q \in Requests, RolePlayed(q)
    PROVE  RolePlayed(q)'
<1>1. req[q].pc # "idle"
  BY VerbsOfAsks DEF HeldInv, Held, RolePlayed, Ask
<1> QED
  BY <1>1, AskSteps DEF RolePlayed, Ask

\* The invariant of the template is kept.
LEMMA TemplateKept ==
    ASSUME ReqInv, HeldInv, TemplateInv, [IntakeNext]_intakeVars
    PROVE  TemplateInv'
<1>1. ASSUME NEW r \in Requests, TruncateTemplate(r)
      PROVE  \E q \in Requests : RolePlayed(q)' /\ req'[q].pc \in {"fill", "dead"}
  <2>1. req[r].pc = "template" /\ req'[r].pc = "fill" /\ req'[r].ask = req[r].ask
    BY <1>1, TemplateSets, FieldsOf DEF Only, TruncateTemplate, At
  <2>2. RolePlayed(r)
    BY <2>1, Known DEF ReqOK, Early, HeldInv, Held, RolePlayed, Ask
  <2> QED
    BY <2>1, <2>2, RoleStays
<1>2. template' = "blank" => \E q \in Requests : RolePlayed(q)' /\ req'[q].pc \in {"fill", "dead"}
  <2> SUFFICES ASSUME template' = "blank"
               PROVE  \E q \in Requests : RolePlayed(q)' /\ req'[q].pc \in {"fill", "dead"}
    OBVIOUS
  <2>1. CASE \E r \in Requests : TruncateTemplate(r)
    BY <1>1, <2>1
  <2>2. ASSUME NEW r \in Requests, FillTemplate(r) PROVE FALSE
    BY <2>2 DEF FillTemplate
  <2>3. CASE UNCHANGED template /\ \A r \in Requests : ~FillTemplate(r)
    <3>1. PICK q \in Requests : RolePlayed(q) /\ req[q].pc \in {"fill", "dead"}
      BY <2>3 DEF TemplateInv
    <3>2. req'[q].pc \in {"fill", "dead"}
      <4>1. CASE Rests(q)
        BY <3>1, <4>1 DEF Rests
      <4>2. CASE Steps(q)
        BY <2>3, <3>1, <4>2, OnlyFills
      <4> QED
        BY <4>1, <4>2, OneSteps
    <3> QED
      BY <3>1, <3>2, RoleStays
  <2> QED
    BY <2>1, <2>2, <2>3, OneSteps, FewTouch
<1>3. ASSUME NEW r \in Requests, req'[r].prompt = "blank"
      PROVE  RolePlayed(r)' /\ \E q \in Requests \ {r} : RolePlayed(q)'
  <2>1. RolePlayed(r) /\ \E q \in Requests \ {r} : RolePlayed(q)
    <3>1. CASE req'[r].prompt = req[r].prompt
      BY <1>3, <3>1 DEF TemplateInv
    <3>2. CASE Preflight(r) /\ req'[r].prompt # req[r].prompt
      <4>1. /\ req[r].pc \in {"preflight", "bundled"}
            /\ req'[r].prompt = IF req[r].ask.role THEN template ELSE "whole"
        BY <3>2, PreflightSets, RefusedSets, FieldsOf DEF Only
      <4>2. req[r].ask \in RunAsks /\ req[r].ask.role \in BOOLEAN
        BY <4>1, Known, VerbsOfAsks DEF ReqOK, Prep
      <4>3. RolePlayed(r) /\ template = "blank"
        BY <1>3, <4>1, <4>2 DEF RolePlayed, Ask
      <4>4. PICK q \in Requests : RolePlayed(q) /\ req[q].pc \in {"fill", "dead"}
        BY <4>3 DEF TemplateInv
      <4> QED
        BY <4>1, <4>3, <4>4
    <3>3. CASE Rests(r)
      BY <3>1, <3>3, FieldsOf DEF Rests
    <3>4. CASE Steps(r)
      BY <3>1, <3>2, <3>4, FieldSteps
    <3> QED
      BY <3>3, <3>4, OneSteps
  <2> QED
    BY <2>1, RoleStays
<1> QED
  BY <1>2, <1>3 DEF TemplateInv

-----------------------------------------------------------------------------
(* Intake: what a run uploads *)

\* A run that is past its validation.
Settled(q) == req[q].pc \notin {"idle"} \cup Early /\ Ask(q) \in RunAsks

BundleInv ==
    /\ \A k \in DOMAIN bundles : \E q \in Requests :
         bundles[k].by = q /\ Settled(q) /\ \E n : k = <<Ask(q).attach, n>>
    /\ \A r \in Requests : req[r].pc \in {"preflight", "bundled", "running"} =>
         \/ req[r].attach = Ask(r).attach
         \/ req[r].attach \in DOMAIN bundles /\ \E n : req[r].attach = <<Ask(r).attach, n>>
    /\ \A r \in Requests :
         \/ req[r].sent.by \in {"none", r}
         \/ Settled(r) /\ \E q \in Requests \ {r} : Settled(q) /\ Ask(q).attach = Ask(r).attach

\* Who is past its validation stays so.
LEMMA LateStays ==
    ASSUME ReqInv, NEW r \in Requests, Steps(r), req'[r].pc \in {"idle"} \cup Early
    PROVE  req[r].pc \in {"idle"} \cup Early
<1>1. CASE Arrive(r) \/ TruncateTemplate(r) \/ FillTemplate(r) \/ CliValidate(r) \/ McpValidate(r) \/ TuiPlan(r)
  BY <1>1, ArriveSets, TemplateSets, ValidateSets DEF Early
<1>2. CASE AdapterStart(r) \/ FollowOne(r) \/ EndHop(r) \/ WriteBundle(r)
  BY <1>2, PrepareSets, RefusedSets DEF Early
<1>3. CASE Preflight(r)
  BY <1>3, PreflightSets, RefusedSets DEF Early
<1>4. CASE \E o \in Outcomes : RunEnds(r, o)
  BY <1>4, RunSets DEF Early
<1>5. CASE EnsureDir(r) \/ WriteText(r) \/ WriteSidecar(r) \/ VerifySaved(r)
  BY <1>5, EnsureSets, WriteSets, SidecarSets, VerifySets DEF Early
<1>6. CASE InitStart(r) \/ InitClear(r) \/ InitLink(r)
  BY <1>6, InitSets DEF Early
<1>7. CASE ServeVerb(r) \/ Diagnose(r) \/ ReportConfig(r) \/ CheckPaths(r)
  BY <1>7, ServeSets DEF Early
<1> QED
  BY <1>1, <1>2, <1>3, <1>4, <1>5, <1>6, <1>7 DEF Steps

\* What a run past its validation asked for does not change.
LEMMA SettledStays ==
    ASSUME ReqInv, [IntakeNext]_intakeVars, NEW q \in Requests, Settled(q)
    PROVE  Settled(q)' /\ req'[q].ask = req[q].ask
<1>1. req'[q].ask = req[q].ask
  BY AskSteps DEF Settled, Early
<1>2. req'[q].pc \notin {"idle"} \cup Early
  <2>1. CASE Rests(q)
    BY <2>1 DEF Rests, Settled, Early
  <2>2. CASE Steps(q)
    BY <2>2, LateStays DEF Settled
  <2> QED
    BY <2>1, <2>2, OneSteps
<1> QED
  BY <1>1, <1>2 DEF Settled, Ask

\* A run at work is past its validation.
LEMMA AtWork ==
    ASSUME ReqInv, NEW r \in Requests, req[r].pc \in Prep \cup Placed \cup Saving
    PROVE  Settled(r)
BY Known DEF ReqOK, Settled, Prep, Placed, Saving, Early, Ask

\* The preparation of an attachment that goes on leaves the bundles, or puts its own there.
LEMMA Compiled ==
    ASSUME ReqInv, NEW r \in Requests, AdapterStart(r) \/ FollowOne(r) \/ EndHop(r) \/ WriteBundle(r)
    PROVE  \/ /\ UNCHANGED bundles
              /\ \/ Refused(r) \/ req'[r].pc = "follow" \/ req'[r].attach = req[r].ask.attach
                 \/ req'[r].attach = req[r].attach /\ req[r].pc = "start" /\ req[r].ask.attach = NoPath
           \/ \E n, v : /\ req'[r].attach = <<req[r].ask.attach, n>>
                        /\ bundles' = Put(bundles, <<req[r].ask.attach, n>>, v) /\ v.by = r
<1> DEFINE Mine(n, v) == /\ req'[r].attach = <<req[r].ask.attach, n>>
                         /\ bundles' = Put(bundles, <<req[r].ask.attach, n>>, v) /\ v.by = r
           Left == \/ UNCHANGED bundles /\ req'[r].pc = "follow"
                   \/ UNCHANGED bundles /\ req'[r].attach = req[r].ask.attach
                   \/ /\ UNCHANGED bundles /\ req'[r].attach = req[r].attach
                      /\ req[r].pc = "start" /\ req[r].ask.attach = NoPath
<1>1. (Refused(r) /\ UNCHANGED bundles) \/ Left \/ \E n, v : Mine(n, v)
  BY PrepareSets
<1> QED
  BY <1>1

\* A bundle that is there belongs to who compiled it last.
LEMMA BundlesKept ==
    ASSUME ReqInv, BundleInv, [IntakeNext]_intakeVars
    PROVE  /\ \A k \in DOMAIN bundles' : \E q \in Requests :
                bundles'[k].by = q /\ Settled(q)' /\ \E n : k = <<req'[q].ask.attach, n>>
           /\ DOMAIN bundles \subseteq DOMAIN bundles'
<1>1. ASSUME UNCHANGED bundles, NEW k \in DOMAIN bundles'
      PROVE  \E q \in Requests : bundles'[k].by = q /\ Settled(q)' /\ \E n : k = <<req'[q].ask.attach, n>>
  <2>1. PICK q \in Requests : bundles[k].by = q /\ Settled(q) /\ \E n : k = <<req[q].ask.attach, n>>
    BY <1>1 DEF BundleInv, Ask
  <2> QED
    BY <1>1, <2>1, SettledStays
<1>2. ASSUME NEW r \in Requests, WriteBundle(r), ~UNCHANGED bundles
      PROVE  /\ \A k \in DOMAIN bundles' : \E q \in Requests :
                   bundles'[k].by = q /\ Settled(q)' /\ \E n : k = <<req'[q].ask.attach, n>>
             /\ DOMAIN bundles \subseteq DOMAIN bundles'
  <2>1. PICK n, v : bundles' = Put(bundles, <<req[r].ask.attach, n>>, v) /\ v.by = r
    BY <1>2, Compiled
  <2> DEFINE new == <<req[r].ask.attach, n>>
  <2>5. new = <<req[r].ask.attach, n>> /\ bundles' = Put(bundles, new, v)
    BY <2>1
  <2> HIDE DEF new
  <2>2. /\ DOMAIN bundles' = DOMAIN bundles \cup {new} /\ bundles'[new] = v
        /\ \A x \in DOMAIN bundles : x # new => bundles'[x] = bundles[x]
    <3>1. bundles' = Put(bundles, new, v)
      BY <2>5
    <3>2. DOMAIN Put(bundles, new, v) = DOMAIN bundles \cup {new} /\ Put(bundles, new, v)[new] = v
      BY DEF Put
    <3>3. \A x \in DOMAIN bundles : x # new => Put(bundles, new, v)[x] = bundles[x]
      BY DEF Put
    <3> QED
      BY <3>1, <3>2, <3>3
  <2>3. Settled(r) /\ Settled(r)' /\ req'[r].ask = req[r].ask
    BY <1>2, AtWork, SettledStays DEF WriteBundle, At, Prep
  <2>4. ASSUME NEW k \in DOMAIN bundles'
        PROVE  \E q \in Requests : bundles'[k].by = q /\ Settled(q)' /\ \E m : k = <<req'[q].ask.attach, m>>
    <3>1. CASE k = new
      BY <2>1, <2>2, <2>3, <2>5, <3>1
    <3>2. CASE k # new
      <4>1. PICK q \in Requests : bundles[k].by = q /\ Settled(q) /\ \E m : k = <<req[q].ask.attach, m>>
        BY <2>2, <2>4, <3>2 DEF BundleInv, Ask
      <4> QED
        BY <2>2, <2>4, <3>2, <4>1, SettledStays
    <3> QED
      BY <3>1, <3>2
  <2> QED
    BY <2>2, <2>4
<1> QED
  BY <1>1, <1>2, OneSteps, FewTouch

\* The attachment of a run is what it asked for, or a bundle of it.
LEMMA AttachKept ==
    ASSUME ReqInv, HeldInv, BundleInv, [IntakeNext]_intakeVars, NEW r \in Requests,
           req'[r].pc \in {"preflight", "bundled", "running"}
    PROVE  \/ req'[r].attach = req'[r].ask.attach
           \/ req'[r].attach \in DOMAIN bundles' /\ \E n : req'[r].attach = <<req'[r].ask.attach, n>>
<1>0. DOMAIN bundles \subseteq DOMAIN bundles'
  BY BundlesKept
<1>1. CASE req[r].pc \in {"preflight", "bundled", "running"} /\ req'[r].attach = req[r].attach
  <2>1. req'[r].ask = req[r].ask
    BY <1>1, AskSteps
  <2> QED
    BY <1>0, <1>1, <2>1 DEF BundleInv, Ask
<1>2. CASE Rests(r)
  <2>1. req'[r].pc = req[r].pc /\ req'[r].attach = req[r].attach
    BY <1>2, FieldsOf DEF Rests
  <2> QED
    BY <1>1, <2>1
<1>3. CASE AdapterStart(r) \/ FollowOne(r) \/ EndHop(r) \/ WriteBundle(r)
  <2>1. req[r].pc \in {"start", "follow"} /\ ~Refused(r)
    BY <1>3, PrepareSets, RefusedSets
  <2>2. Only(r, {"pc", "walk", "attach"})
    BY <1>3, <2>1, PrepareSets
  <2>3. req'[r].ask = req[r].ask
    BY <2>2, FieldsOf DEF Only
  <2>4. \/ req'[r].attach = req[r].ask.attach
        \/ req'[r].attach = req[r].attach /\ req[r].pc = "start" /\ req[r].ask.attach = NoPath
        \/ \E n, v : /\ req'[r].attach = <<req[r].ask.attach, n>>
                     /\ bundles' = Put(bundles, <<req[r].ask.attach, n>>, v) /\ v.by = r
    BY <1>3, <2>1, Compiled
  <2>5. CASE req'[r].attach = req[r].attach /\ req[r].pc = "start" /\ req[r].ask.attach = NoPath
    BY <2>3, <2>5 DEF HeldInv, Held
  <2>6. CASE \E n, v : /\ req'[r].attach = <<req[r].ask.attach, n>>
                      /\ bundles' = Put(bundles, <<req[r].ask.attach, n>>, v) /\ v.by = r
    <3>1. PICK n, v : req'[r].attach = <<req[r].ask.attach, n>> /\ bundles' = Put(bundles, <<req[r].ask.attach, n>>, v)
      BY <2>6
    <3> DEFINE new == <<req[r].ask.attach, n>>
    <3>2. new = <<req[r].ask.attach, n>> /\ req'[r].attach = new /\ bundles' = Put(bundles, new, v)
      BY <3>1
    <3> HIDE DEF new
    <3>3. DOMAIN bundles' = DOMAIN bundles \cup {new}
      BY <3>2, PutsOne
    <3> QED
      BY <2>3, <3>2, <3>3
  <2> QED
    BY <2>3, <2>4, <2>5, <2>6
<1>4. CASE Preflight(r)
  <2>1. Only(r, {"pc", "prompt", "out"}) /\ req[r].pc \in {"preflight", "bundled"}
    BY <1>4, PreflightSets, RefusedSets
  <2>2. req'[r].attach = req[r].attach
    BY <2>1, FieldsOf DEF Only
  <2> QED
    BY <1>1, <2>1, <2>2
<1>5. ASSUME Steps(r), ~(AdapterStart(r) \/ FollowOne(r) \/ EndHop(r) \/ WriteBundle(r)), ~Preflight(r)
      PROVE  FALSE
  <2>1. ~(Arrive(r) \/ TruncateTemplate(r) \/ FillTemplate(r) \/ CliValidate(r) \/ McpValidate(r) \/ TuiPlan(r))
    <3>1. Arrive(r) => req'[r].pc \in {"harden", "template", "validate", "verb"}
      <4> SUFFICES ASSUME Arrive(r) PROVE req'[r].pc \in {"harden", "template", "validate", "verb"}
        OBVIOUS
      <4>1. req'[r].ask \in AllAsks /\ req'[r].pc = FirstStep(req'[r].ask)
        BY ArriveSets
      <4> QED
        BY <4>1, Kinds DEF FirstStep
    <3> QED
      BY <3>1, TemplateSets, ValidateSets, Claims, RefusedSets DEF Refused
  <2>2. ~\E o \in Outcomes : RunEnds(r, o)
    BY RunSets
  <2>3. ~(EnsureDir(r) \/ WriteText(r) \/ WriteSidecar(r) \/ VerifySaved(r))
    BY EnsureSets, WriteSets, SidecarSets, VerifySets
  <2>4. ~(InitStart(r) \/ InitClear(r) \/ InitLink(r))
    BY InitSets
  <2>5. ~(ServeVerb(r) \/ Diagnose(r) \/ ReportConfig(r) \/ CheckPaths(r))
    BY ServeSets
  <2> QED
    BY <1>5, <2>1, <2>2, <2>3, <2>4, <2>5 DEF Steps
<1> QED
  BY <1>2, <1>3, <1>4, <1>5, OneSteps

\* What a run uploaded is its own, or compiled for the same folder by another one.
LEMMA SentKept ==
    ASSUME ReqInv, HeldInv, BundleInv, [IntakeNext]_intakeVars, NEW r \in Requests
    PROVE  \/ req'[r].sent.by \in {"none", r}
           \/ Settled(r)' /\ \E q \in Requests \ {r} : Settled(q)' /\ req'[q].ask.attach = req'[r].ask.attach
<1>1. CASE req'[r].sent = req[r].sent
  <2>1. CASE req[r].sent.by \in {"none", r}
    BY <1>1, <2>1
  <2>2. CASE Settled(r) /\ \E q \in Requests \ {r} : Settled(q) /\ Ask(q).attach = Ask(r).attach
    BY <2>2, SettledStays DEF Ask
  <2> QED
    BY <2>1, <2>2 DEF BundleInv
<1>2. CASE \E o \in Outcomes : RunEnds(r, o)
  <2>1. /\ req[r].pc = "running"
        /\ req'[r].sent = IF req[r].attach = req[r].ask.attach THEN [by |-> "none"] ELSE bundles[req[r].attach]
    BY <1>2, RunSets
  <2>2. CASE req[r].attach = req[r].ask.attach
    BY <2>1, <2>2
  <2>3. CASE req[r].attach # req[r].ask.attach
    <3>1. PICK n : req[r].attach \in DOMAIN bundles /\ req[r].attach = <<req[r].ask.attach, n>>
      BY <2>1, <2>3 DEF BundleInv, Ask
    <3>2. PICK q \in Requests : /\ bundles[req[r].attach].by = q /\ Settled(q)
                                /\ \E m : req[r].attach = <<req[q].ask.attach, m>>
      BY <3>1 DEF BundleInv, Ask
    <3>3. req[q].ask.attach = req[r].ask.attach
      BY <3>1, <3>2
    <3>4. Settled(r)
      BY <2>1, AtWork DEF Placed
    <3>5. req'[r].sent.by = q
      BY <2>1, <2>3, <3>2
    <3> QED
      BY <3>2, <3>3, <3>4, <3>5, SettledStays
  <2> QED
    BY <2>2, <2>3
<1>3. CASE Rests(r)
  BY <1>1, <1>3, FieldsOf DEF Rests
<1>4. CASE Steps(r)
  BY <1>1, <1>2, <1>4, FieldSteps
<1> QED
  BY <1>3, <1>4, OneSteps

\* The three parts together.
LEMMA BundleKept ==
    ASSUME ReqInv, HeldInv, BundleInv, [IntakeNext]_intakeVars
    PROVE  BundleInv'
BY BundlesKept, AttachKept, SentKept DEF BundleInv, Ask

-----------------------------------------------------------------------------
(* Intake: what became of an answer *)

\* A run that ended, with its success or its failure.
Succeeded(r) == req[r].pc = "done" /\ Ask(r).verb \in RunVerbs /\ req[r].reply.ok
Failed(r) == req[r].pc = "done" /\ Ask(r).verb \in RunVerbs /\ ~req[r].reply.ok

\* The text of a run is where it was sent, or in a directory an init has kept.
TextThere(r) ==
    \E l \in DOMAIN disk : /\ disk[l] = [by |-> r, kind |-> "text"]
                           /\ l.dir \in Seq(Words) => Base(l) = Base(req[r].target)
SidecarThere(r) == \E s \in DOMAIN meta : meta[s] = r /\ Base(s) = Base(req[r].target)

\* What lies at the destination of a run whose text was written.
StoredAt(r) ==
    \/ IsDirAt(req[r].out) \/ Contested(r)
    \/ req[r].out \in DOMAIN disk /\ disk[req[r].out].kind = KindOf(req[r].outcome)

SaveOK(r) ==
    /\ (req[r].pc \in {"sidecar", "verify"} \/ Succeeded(r)) /\ req[r].outcome = "answer" =>
         Contested(r) \/ TextThere(r)
    /\ req[r].pc = "verify" \/ Succeeded(r) => Contested(r) \/ SidecarThere(r)
    /\ req[r].out.dir # LocalOut /\ req[r].pc \in Saving => IsDirAt(req[r].out) \/ req[r].target = req[r].out
    /\ req[r].out.dir # LocalOut /\ req[r].pc \in {"sidecar", "verify"} => StoredAt(r)
    /\ Succeeded(r) /\ req[r].outcome = "noise" => req[r].out.dir = LocalOut \/ Contested(r)
    /\ Failed(r) /\ req[r].outcome = "answer" =>
         \/ req[r].hit \/ req[r].out.dir = LocalOut \/ IsDirAt(req[r].out)
         \/ req[r].target # NoOut /\ Contested(r)

SaveInv == \A r \in Requests : SaveOK(r)

\* An init that reported success left a destination, or another one is not through.
InitInv ==
    /\ \A r \in Requests : req[r].pc = "link" => local \in {"absent", "link", "dir"}
    /\ \A r \in Requests : InitHonest(r)

\* A step of an init is the work of an init.
LEMMA OnlyInits ==
    ASSUME NEW r \in Requests, Steps(r), req[r].pc \in Inits
    PROVE  InitStart(r) \/ InitClear(r) \/ InitLink(r)
BY DEF Steps, Inits, Arrive, TruncateTemplate, FillTemplate, CliValidate, McpValidate, TuiPlan, AdapterStart,
       FollowOne, EndHop, WriteBundle, Preflight, RunEnds, EnsureDir, WriteText, WriteSidecar, VerifySaved,
       ServeVerb, Diagnose, ReportConfig, CheckPaths, At

\* What a step does to the local directory.
LEMMA LocalSteps ==
    ASSUME ReqInv, NEW r \in Requests, Steps(r)
    PROVE  \/ UNCHANGED local
           \/ local = "absent" /\ local' = "dir"
           \/ /\ req[r].pc = "clear" /\ req'[r].pc = "link" /\ local' = "absent"
              /\ req[r].ask.verb = "init" /\ req'[r].ask = req[r].ask
           \/ req[r].pc = "link" /\ local' \in IF local = "absent" THEN {"link", "dir"} ELSE {local}
<1>1. CASE EnsureDir(r)
  BY <1>1, EnsureSets
<1>2. CASE InitClear(r) \/ InitLink(r)
  <2>0. req[r].pc \in Inits /\ Only(r, {"pc", "hit", "reply"})
    BY <1>2, InitSets
  <2>1. req'[r].ask = req[r].ask /\ req[r].ask.verb = "init"
    BY <2>0, Known, FieldsOf DEF Only, ReqOK
  <2> QED
    BY <1>2, <2>1, InitSets
<1> QED
  BY <1>1, <1>2, FewTouch

\* An init that ends with success has just made the link, or found one.
LEMMA InitEnds ==
    ASSUME ReqInv, HeldInv, NEW r \in Requests, Steps(r),
           req'[r].pc = "done", req'[r].ask.verb = "init", req'[r].reply.ok
    PROVE  req[r].pc = "link" /\ local' \in IF local = "absent" THEN {"link", "dir"} ELSE {local}
<1>1. ~Arrive(r)
  <2> SUFFICES ASSUME Arrive(r) PROVE FALSE
    OBVIOUS
  <2>1. req'[r].pc = FirstStep(req'[r].ask)
    BY ArriveSets
  <2> QED
    BY <2>1 DEF FirstStep
<1>2. ~(CliValidate(r) \/ McpValidate(r) \/ TuiPlan(r))
  BY ValidateSets, ReplySets, Claims
<1>3. req'[r].ask = req[r].ask
  BY <1>1, <1>2, FieldSteps
<1>4. req[r].pc \in Inits \cup {"done", "dead"}
  BY <1>3 DEF HeldInv, Held
<1>5. req[r].pc \in Inits
  BY <1>4, OnlyFills DEF FillTemplate, At
<1> QED
  BY <1>5, OnlyInits, InitSets

\* Who has ended, or not begun, does not move.
LEMMA Over ==
    ASSUME NEW r \in Requests, Steps(r)
    PROVE  req[r].pc \notin {"done", "dead"}
BY OnlyFills DEF FillTemplate, At

\* An init that is not through stays so until it makes the link.
LEMMA InitStays ==
    ASSUME ReqInv, HeldInv, [IntakeNext]_intakeVars, NEW q \in Requests,
           req[q].ask.verb = "init", ~(req[q].pc = "done" /\ req[q].reply.ok),
           req'[q].pc = "done" /\ req'[q].reply.ok
    PROVE  Steps(q) /\ req'[q].ask.verb = "init"
<1>1. req'[q].ask = req[q].ask
  <2>1. req[q].pc \in Inits \cup {"done", "dead"}
    BY DEF HeldInv, Held
  <2> QED
    BY <2>1, AskSteps DEF Inits
<1>2. ASSUME Rests(q) PROVE FALSE
  <2>1. req'[q].reply = req[q].reply /\ req'[q].pc \in {req[q].pc, "dead"}
    BY <1>2, FieldsOf DEF Rests
  <2> QED
    BY <2>1
<1> QED
  BY <1>1, <1>2, OneSteps

\* No step takes the destination from an init that succeeded, but the work of another one.
LEMMA InitKept ==
    ASSUME ReqInv, HeldInv, InitInv, [IntakeNext]_intakeVars
    PROVE  InitInv'
<1>1. ASSUME NEW r \in Requests, req'[r].pc = "link"
      PROVE  local' \in {"absent", "link", "dir"}
  <2>1. CASE \E p \in Requests : Steps(p) /\ (p = r \/ Rests(r))
    <3>1. PICK p \in Requests : Steps(p) /\ (p = r \/ Rests(r))
      BY <2>1
    <3>2. CASE req[r].pc = "link"
      BY <3>1, <3>2, LocalSteps DEF InitInv
    <3>3. CASE req[r].pc # "link"
      <4>1. p = r
        BY <1>1, <3>1, <3>3 DEF Rests
      <4>2. InitStart(r) \/ InitClear(r) \/ InitLink(r)
        <5>1. ReqOK(req'[r], r) /\ req'[r].ask.verb = "init"
          BY <1>1, <3>1, <4>1, StepMoves DEF Moves, ReqOK, Inits
        <5>2. Held(req'[r])
          BY <3>1, <4>1, HeldStep DEF HeldInv
        <5>3. ~Arrive(r)
          <6> SUFFICES ASSUME Arrive(r) PROVE FALSE
            OBVIOUS
          <6>1. req'[r].pc = FirstStep(req'[r].ask)
            BY ArriveSets
          <6> QED
            BY <1>1, <6>1 DEF FirstStep
        <5>4. ~(CliValidate(r) \/ McpValidate(r) \/ TuiPlan(r))
          BY <1>1, ValidateSets, ReplySets
        <5>5. req[r].ask.verb = "init"
          BY <3>1, <4>1, <5>1, <5>3, <5>4, FieldSteps
        <5>6. req[r].pc \in Inits
          BY <3>1, <4>1, <5>5, Over DEF HeldInv, Held
        <5> QED
          BY <3>1, <4>1, <5>6, OnlyInits
      <4> QED
        BY <1>1, <3>3, <4>2, InitSets
    <3> QED
      BY <3>2, <3>3
  <2>2. CASE Rests(r) /\ UNCHANGED local
    BY <1>1, <2>2 DEF Rests, InitInv
  <2> QED
    BY <2>1, <2>2, OneSteps
<1>2. ASSUME NEW r \in Requests, req'[r].pc = "done", req'[r].ask.verb = "init", req'[r].reply.ok,
             local' \notin {"link", "dir"}
      PROVE  \E q \in Requests \ {r} : req'[q].ask.verb = "init" /\ ~(req'[q].pc = "done" /\ req'[q].reply.ok)
  <2>1. ASSUME NEW q \in Requests, Steps(q), req'[q].pc = "done", req'[q].ask.verb = "init", req'[q].reply.ok
        PROVE  FALSE
    BY <1>2, <2>1, InitEnds DEF InitInv
  <2>2. Rests(r)
    BY <1>2, <2>1, OneSteps
  <2>3. req[r].pc = "done" /\ req[r].ask.verb = "init" /\ req[r].reply.ok
    BY <1>2, <2>2, FieldsOf DEF Rests
  <2>4. CASE local \in {"link", "dir"}
    <3>1. PICK p \in Requests : Steps(p) /\ ~UNCHANGED local
      BY <1>2, <2>4, OneSteps
    <3>2. req'[p].pc = "link" /\ req'[p].ask.verb = "init"
      BY <1>2, <2>4, <3>1, LocalSteps
    <3> QED
      BY <1>2, <3>2
  <2>5. CASE local \notin {"link", "dir"}
    <3>1. PICK q \in Requests \ {r} : req[q].ask.verb = "init" /\ ~(req[q].pc = "done" /\ req[q].reply.ok)
      BY <2>3, <2>5 DEF InitInv, InitHonest, At, Ask
    <3>2. ~(req'[q].pc = "done" /\ req'[q].reply.ok)
      BY <2>1, <3>1, InitStays
    <3>3. req'[q].ask = req[q].ask
      <4>1. req[q].pc \in Inits \cup {"done", "dead"}
        BY <3>1 DEF HeldInv, Held
      <4> QED
        BY <4>1, AskSteps DEF Inits
    <3> QED
      BY <3>1, <3>2, <3>3
  <2> QED
    BY <2>4, <2>5
<1> QED
  BY <1>1, <1>2 DEF InitInv, InitHonest, At, Ask

\* What a step makes of a place of the disk: it stays, a run writes there (or releases the
\* name it holds there), or an init moves it aside.
LEMMA Fates ==
    ASSUME ReqInv, DiskInv, [IntakeNext]_intakeVars, NEW l \in DOMAIN disk
    PROVE  \/ l \in DOMAIN disk' /\ disk'[l] = disk[l]
           \/ /\ disk[l].kind # "dir"
              /\ \E q \in Requests : /\ req[q].pc = "write" /\ req[q].target \in Outs(q)
                                     /\ l = Phys(req[q].target)
           \/ /\ l.dir = LocalOut
              /\ \E q \in Requests : \E m \in DOMAIN disk' : disk'[m] = disk[l] /\ m.dir = <<"backup", q>>
<1>1. CASE UNCHANGED disk
  BY <1>1
<1>2. ASSUME NEW r \in Requests, EnsureDir(r) PROVE l \in DOMAIN disk' /\ disk'[l] = disk[l]
  <2>1. CASE \E place \in Outs(r) : \E v : disk' = Put(disk, place, v) /\ place.name[2] = r
    <3>1. PICK place \in Outs(r) : (\E v : disk' = Put(disk, place, v)) /\ place.name[2] = r
      BY <2>1
    <3>2. req[r].pc = "save"
      BY <1>2, Ensured
    <3>3. l # place
      BY <3>1, <3>2 DEF DiskInv, Unwritten, Placed
    <3> QED
      BY <3>1, <3>3, PutStays
  <2>2. UNCHANGED disk \/ \E place \in Outs(r) : \E v : disk' = Put(disk, place, v) /\ place.name[2] = r
    BY <1>2, Ensured
  <2> QED
    BY <2>1, <2>2
<1>3. ASSUME NEW r \in Requests, WriteText(r)
      PROVE  \/ l \in DOMAIN disk' /\ disk'[l] = disk[l]
             \/ /\ disk[l].kind # "dir" /\ req[r].pc = "write" /\ req[r].target \in Outs(r)
                /\ l = Phys(req[r].target)
  <2>1. req[r].pc = "write" /\ req[r].target \in Outs(r)
    BY <1>3, TextWritten
  <2> DEFINE p == Phys(req[r].target)
             v == [by |-> r, kind |-> KindOf(req[r].outcome)]
  <2>2. \/ disk' = ReleaseReservedName(p)
        \/ UNCHANGED disk
        \/ ~IsDirAt(req[r].target) /\ disk' = Put(disk, p, v)
    BY <1>3, WriteSets
  <2>3. ~IsDirAt(req[r].target) <=> (p \notin DOMAIN disk \/ disk[p].kind # "dir")
    BY DEF IsDirAt
  <2>4. p = Phys(req[r].target)
    OBVIOUS
  <2> HIDE DEF p, v
  <2>5. CASE disk' = ReleaseReservedName(p)
    BY <2>1, <2>4, <2>5 DEF ReleaseReservedName
  <2>6. CASE ~IsDirAt(req[r].target) /\ disk' = Put(disk, p, v)
    <3>1. CASE l = p
      BY <2>1, <2>3, <2>4, <2>6, <3>1
    <3>2. CASE l # p
      BY <2>6, <3>2, PutStays
    <3> QED
      BY <3>1, <3>2
  <2> QED
    BY <2>2, <2>5, <2>6
<1>4. ASSUME NEW r \in Requests, InitClear(r)
      PROVE  \/ l \in DOMAIN disk' /\ disk'[l] = disk[l]
             \/ l.dir = LocalOut /\ \E m \in DOMAIN disk' : disk'[m] = disk[l] /\ m.dir = <<"backup", r>>
  <2>1. req[r].pc \in Uncleared
    BY <1>4 DEF InitClear, At, Uncleared
  <2>2. CASE disk' = MovedAside(r)
    <3>1. Aside(r, l) \in DOMAIN disk' /\ disk'[Aside(r, l)] = disk[l]
      BY <2>1, <2>2, Moved
    <3>2. CASE l.dir # LocalOut
      BY <3>1, <3>2 DEF Aside
    <3>3. CASE l.dir = LocalOut
      <4>1. Aside(r, l).dir = <<"backup", r>>
        <5>1. l = [dir |-> l.dir, name |-> l.name, ext |-> l.ext]
          BY DEF DiskInv
        <5> QED
          BY <3>3, <5>1 DEF Aside
      <4> QED
        BY <3>1, <3>3, <4>1
    <3> QED
      BY <3>2, <3>3
  <2> QED
    BY <1>1, <1>4, <2>2 DEF InitClear
<1>5. CASE MakeDir
  <2>1. PICK p \in agenda.dirs \ DOMAIN disk : disk' = Put(disk, p, [by |-> "operator", kind |-> "dir"])
    BY <1>5 DEF MakeDir
  <2> QED
    BY <2>1, PutStays
<1>6. CASE EditTree \/ Tick \/ (\E p : Die(p)) \/ UNCHANGED intakeVars
  BY <1>1, <1>6 DEF EditTree, Tick, Die, files, intakeVars
<1> QED
  BY <1>1, <1>2, <1>3, <1>4, <1>5, <1>6, Movers, DiskStays

\* A directory outside the local one stays.
LEMMA DirsStay ==
    ASSUME ReqInv, DiskInv, [IntakeNext]_intakeVars, NEW loc, loc.dir # LocalOut, IsDirAt(loc)
    PROVE  loc \in DOMAIN disk' /\ disk'[loc].kind = "dir"
<1>1. loc \in DOMAIN disk /\ disk[loc].kind = "dir"
  BY DEF IsDirAt, Phys
<1> QED
  BY <1>1, Fates

\* A target, once chosen, is the target for good.
LEMMA TargetStays ==
    ASSUME ReqInv, [IntakeNext]_intakeVars, NEW q \in Requests, req[q].target # NoOut
    PROVE  req'[q].target = req[q].target
<1>1. CASE Rests(q)
  BY <1>1, FieldsOf DEF Rests
<1>2. CASE Steps(q)
  <2>1. ~EnsureDir(q)
    <3> SUFFICES ASSUME EnsureDir(q) PROVE FALSE
      OBVIOUS
    <3>1. req[q].pc = "save" /\ ReqOK(req[q], q)
      BY EnsureSets, Known
    <3> QED
      BY <3>1 DEF ReqOK, Unwritten, Placed
  <2> QED
    BY <1>2, <2>1, FieldSteps
<1> QED
  BY <1>1, <1>2, OneSteps

\* So a contested destination stays contested.
LEMMA ContestedStays ==
    ASSUME ReqInv, [IntakeNext]_intakeVars, NEW r \in Requests, req[r].target # NoOut, Contested(r)
    PROVE  Contested(r)'
<1>1. PICK q \in Requests \ {r} : req[q].target # NoOut /\ Base(req[q].target) = Base(req[r].target)
  BY DEF Contested
<1>2. req'[q].target = req[q].target /\ req'[r].target = req[r].target
  BY <1>1, TargetStays
<1> QED
  BY <1>1, <1>2 DEF Contested, Base

\* Two runs that write to one place are at the same destination.
LEMMA Clash ==
    ASSUME ReqInv, NEW r \in Requests, NEW q \in Requests \ {r}, req[q].target \in Outs(q),
           Base(Phys(req[q].target)) = Base(req[r].target)
    PROVE  Contested(r)
<1>1. req[q].target # NoOut
  BY Paths
<1>2. Base(Phys(req[q].target)) = Base(req[q].target)
  BY SameBase
<1> QED
  BY <1>1, <1>2 DEF Contested

\* The text of a run stays there unless another run is sent to its destination.
LEMMA TextStays ==
    ASSUME ReqInv, DiskInv, [IntakeNext]_intakeVars, NEW r \in Requests,
           req[r].target # NoOut, req[r].pc # "write", TextThere(r)
    PROVE  TextThere(r)' \/ Contested(r)
<1> DEFINE mine == [by |-> r, kind |-> "text"]
<1>1. PICK l \in DOMAIN disk : disk[l] = mine /\ (l.dir \in Seq(Words) => Base(l) = Base(req[r].target))
  BY DEF TextThere
<1>2. req'[r].target = req[r].target
  BY TargetStays
<1>3. CASE l \in DOMAIN disk' /\ disk'[l] = disk[l]
  BY <1>1, <1>2, <1>3 DEF TextThere, Base
<1>4. CASE \E q \in Requests : req[q].pc = "write" /\ req[q].target \in Outs(q) /\ l = Phys(req[q].target)
  <2>1. PICK q \in Requests : req[q].pc = "write" /\ req[q].target \in Outs(q) /\ l = Phys(req[q].target)
    BY <1>4
  <2>2. Phys(req[q].target) \in Outs(q) /\ q # r
    BY <2>1, Paths
  <2>3. l.dir \in Seq(Words)
    BY <2>1, <2>2 DEF Outs
  <2> QED
    BY <1>1, <2>1, <2>2, <2>3, Clash
<1>5. CASE \E q \in Requests : \E m \in DOMAIN disk' : disk'[m] = disk[l] /\ m.dir = <<"backup", q>>
  <2>1. PICK q \in Requests : \E m \in DOMAIN disk' : disk'[m] = disk[l] /\ m.dir = <<"backup", q>>
    BY <1>5
  <2>2. PICK m \in DOMAIN disk' : disk'[m] = disk[l] /\ m.dir = <<"backup", q>>
    BY <2>1
  <2>3. m.dir \notin Seq(Words)
    BY <2>2, NotKept
  <2> QED
    BY <1>1, <2>2, <2>3 DEF TextThere
<1> QED
  BY <1>3, <1>4, <1>5, Fates

\* So does its sidecar.
LEMMA SidecarStays ==
    ASSUME ReqInv, [IntakeNext]_intakeVars, NEW r \in Requests,
           req[r].target # NoOut, req[r].pc # "sidecar", SidecarThere(r)
    PROVE  SidecarThere(r)' \/ Contested(r)
<1>1. PICK s \in DOMAIN meta : meta[s] = r /\ Base(s) = Base(req[r].target)
  BY DEF SidecarThere
<1>2. req'[r].target = req[r].target
  BY TargetStays
<1>3. CASE UNCHANGED meta
  BY <1>1, <1>2, <1>3 DEF SidecarThere, Base
<1>4. CASE \E q \in Requests : WriteSidecar(q)
  <2>1. PICK q \in Requests : WriteSidecar(q)
    BY <1>4
  <2>2. req[q].pc = "sidecar" /\ (UNCHANGED meta \/ meta' = Put(meta, Sidecar(req[q].target), q))
    BY <2>1, SidecarSets
  <2>3. req[q].target \in Outs(q) /\ q # r
    BY <2>2, Known DEF ReqOK, Saving
  <2>4. CASE meta' = Put(meta, Sidecar(req[q].target), q)
    <3>1. CASE s = Sidecar(req[q].target)
      <4>1. Base(Phys(req[q].target)) = Base(s)
        <5>1. req[q].target = [dir |-> req[q].target.dir, name |-> req[q].target.name, ext |-> req[q].target.ext]
          BY <2>3 DEF Outs
        <5>2. Phys(req[q].target).name = req[q].target.name
          BY <5>1 DEF Phys
        <5> QED
          BY <3>1, <5>2 DEF Sidecar, Base
      <4> QED
        BY <1>1, <2>3, <4>1, Clash
    <3>2. CASE s # Sidecar(req[q].target)
      <4> DEFINE k == Sidecar(req[q].target)
      <4>1. s # k /\ meta' = Put(meta, k, q)
        BY <2>4, <3>2
      <4> HIDE DEF k
      <4>2. s \in DOMAIN meta' /\ meta'[s] = meta[s]
        BY <4>1 DEF Put
      <4> QED
        BY <1>1, <1>2, <4>2 DEF SidecarThere, Base
    <3> QED
      BY <3>1, <3>2
  <2> QED
    BY <1>3, <2>2, <2>4
<1> QED
  BY <1>3, <1>4, OneSteps, FewTouch

\* What a run stored at the destination it was given stays there, too.
LEMMA StoredStays ==
    ASSUME ReqInv, DiskInv, [IntakeNext]_intakeVars, NEW r \in Requests,
           req[r].target # NoOut, req[r].pc # "write", req[r].out.dir # LocalOut,
           req[r].target = req[r].out, req[r].out \in DOMAIN disk
    PROVE  \/ req[r].out \in DOMAIN disk' /\ disk'[req[r].out] = disk[req[r].out]
           \/ Contested(r)
<1> DEFINE l == req[r].out
<1>1. CASE \E q \in Requests : req[q].pc = "write" /\ req[q].target \in Outs(q) /\ l = Phys(req[q].target)
  <2>1. PICK q \in Requests : req[q].pc = "write" /\ req[q].target \in Outs(q) /\ l = Phys(req[q].target)
    BY <1>1
  <2> QED
    BY <2>1, Clash
<1> QED
  BY <1>1, Fates

\* While a run rests, what is said of its answer stays true.
LEMMA SaveRests ==
    ASSUME ReqInv, DiskInv, HeldInv, [IntakeNext]_intakeVars, NEW r \in Requests, SaveOK(r), Rests(r)
    PROVE  SaveOK(r)'
<1>1. /\ req'[r].ask = req[r].ask /\ req'[r].out = req[r].out /\ req'[r].target = req[r].target
      /\ req'[r].outcome = req[r].outcome /\ req'[r].reply = req[r].reply /\ req'[r].hit = req[r].hit
  BY FieldsOf DEF Rests
<1>2. req'[r].pc = req[r].pc \/ req'[r].pc = "dead"
  BY DEF Rests
<1>3. (Succeeded(r)' => Succeeded(r)) /\ (Failed(r)' => Failed(r))
  BY <1>1, <1>2 DEF Succeeded, Failed, Ask
<1>4. req[r].pc \in Saving \/ Succeeded(r) => req[r].target # NoOut
  <2>1. req[r].pc \in Saving => req[r].target \in Outs(r)
    BY Known DEF ReqOK
  <2> QED
    BY <2>1, Paths DEF Succeeded, HeldInv, Held, Ask
<1>5. req[r].target # NoOut /\ Contested(r) => Contested(r)'
  BY ContestedStays
<1>6. req[r].out.dir # LocalOut /\ IsDirAt(req[r].out) => IsDirAt(req[r].out)'
  <2> SUFFICES ASSUME req[r].out.dir # LocalOut, IsDirAt(req[r].out) PROVE IsDirAt(req[r].out)'
    OBVIOUS
  <2>1. req[r].out \in DOMAIN disk' /\ disk'[req[r].out].kind = "dir"
    BY DirsStay
  <2> QED
    BY <1>1, <2>1 DEF IsDirAt, Phys
<1>7. /\ req'[r].pc \in {"sidecar", "verify"} => req[r].pc = req'[r].pc
      /\ req'[r].pc \in Saving => req[r].pc = req'[r].pc
  BY <1>2 DEF Saving
<1>8. ASSUME (req[r].pc \in {"sidecar", "verify"} \/ Succeeded(r)) /\ req[r].outcome = "answer"
      PROVE  Contested(r)' \/ TextThere(r)'
  <2>1. req[r].target # NoOut /\ req[r].pc # "write"
    BY <1>4, <1>8 DEF Saving, Succeeded
  <2> QED
    BY <1>5, <1>8, <2>1, TextStays DEF SaveOK
<1>9. ASSUME req[r].pc = "verify" \/ Succeeded(r)
      PROVE  Contested(r)' \/ SidecarThere(r)'
  <2>1. req[r].target # NoOut /\ req[r].pc # "sidecar"
    BY <1>4, <1>9 DEF Saving, Succeeded
  <2> QED
    BY <1>5, <1>9, <2>1, SidecarStays DEF SaveOK
<1>10. ASSUME req[r].out.dir # LocalOut, req[r].pc \in Saving
       PROVE  (IsDirAt(req[r].out) \/ req[r].target = req[r].out)'
  BY <1>1, <1>6, <1>10 DEF SaveOK
<1>11. ASSUME req[r].out.dir # LocalOut, req[r].pc \in {"sidecar", "verify"}
       PROVE  StoredAt(r)'
  <2>1. req[r].target # NoOut /\ req[r].pc \in Saving /\ req[r].pc # "write"
    BY <1>4, <1>11 DEF Saving
  <2>2. CASE IsDirAt(req[r].out)
    BY <1>6, <1>11, <2>2 DEF StoredAt
  <2>3. CASE Contested(r)
    BY <1>5, <2>1, <2>3 DEF StoredAt
  <2>4. CASE ~IsDirAt(req[r].out) /\ req[r].out \in DOMAIN disk /\ disk[req[r].out].kind = KindOf(req[r].outcome)
    <3>1. req[r].target = req[r].out
      BY <1>11, <2>1, <2>4 DEF SaveOK
    <3>2. CASE req[r].out \in DOMAIN disk' /\ disk'[req[r].out] = disk[req[r].out]
      BY <1>1, <2>4, <3>2 DEF StoredAt, KindOf
    <3> QED
      BY <1>11, <2>1, <2>3, <2>4, <3>1, <3>2, StoredStays
  <2> QED
    BY <1>11, <2>2, <2>3, <2>4 DEF SaveOK, StoredAt
<1>12. ASSUME Succeeded(r), req[r].outcome = "noise"
       PROVE  req[r].out.dir = LocalOut \/ Contested(r)'
  BY <1>4, <1>5, <1>12 DEF SaveOK
<1>13. ASSUME Failed(r), req[r].outcome = "answer"
       PROVE  \/ req[r].hit \/ req[r].out.dir = LocalOut \/ IsDirAt(req[r].out)'
              \/ req[r].target # NoOut /\ Contested(r)'
  BY <1>5, <1>6, <1>13 DEF SaveOK
<1> QED
  BY <1>1, <1>3, <1>7, <1>8, <1>9, <1>10, <1>11, <1>12, <1>13 DEF SaveOK

\* The steps before and beside a save say nothing of an answer.
LEMMA SaveElse ==
    ASSUME ReqInv, HeldInv, NEW r \in Requests, Steps(r),
           ~(EnsureDir(r) \/ WriteText(r) \/ WriteSidecar(r) \/ VerifySaved(r))
    PROVE  SaveOK(r)'
<1> SUFFICES /\ req'[r].pc \notin Saving /\ ~Succeeded(r)'
             /\ Failed(r)' => req'[r].outcome # "answer"
  BY DEF SaveOK, Saving
<1>1. CASE Arrive(r)
  <2>1. req'[r].pc = FirstStep(req'[r].ask)
    BY <1>1, ArriveSets
  <2> QED
    BY <2>1 DEF FirstStep, Saving, Succeeded, Failed
<1>2. CASE TruncateTemplate(r) \/ FillTemplate(r)
  BY <1>2, TemplateSets DEF Saving, Succeeded, Failed
<1>3. CASE CliValidate(r) \/ McpValidate(r) \/ TuiPlan(r)
  <2>1. req[r].pc = "validate" /\ req[r].outcome = "none"
    BY <1>3, ValidateSets DEF HeldInv, Held, Early
  <2>2. CASE \E code : Reply(r, Refuse(code))
    <3>1. req'[r].pc = "done" /\ ~req'[r].reply.ok /\ req'[r].outcome = req[r].outcome
      BY <2>2, ReplySets, Claims, FieldsOf DEF Only
    <3> QED
      BY <2>1, <3>1 DEF Saving, Succeeded, Failed
  <2>3. CASE req'[r].pc = "start"
    BY <2>3 DEF Saving, Succeeded, Failed
  <2> QED
    BY <1>3, <2>2, <2>3, ValidateSets
<1>4. CASE AdapterStart(r) \/ FollowOne(r) \/ EndHop(r) \/ WriteBundle(r) \/ Preflight(r)
  <2>1. req[r].pc \in Prep
    BY <1>4, PrepareSets, PreflightSets DEF Prep
  <2>2. req[r].outcome = "none"
    BY <2>1 DEF HeldInv, Held
  <2>3. CASE Refused(r)
    <3>1. req'[r].pc = "done" /\ ~req'[r].reply.ok /\ req'[r].outcome = req[r].outcome
      BY <2>3, RefusedSets, FieldsOf DEF Only
    <3> QED
      BY <2>2, <3>1 DEF Saving, Succeeded, Failed
  <2>4. CASE req'[r].pc \in {"follow", "preflight", "bundled", "running"}
    BY <2>4 DEF Saving, Succeeded, Failed
  <2> QED
    BY <1>4, <2>3, <2>4, PrepareSets, PreflightSets
<1>5. CASE \E o \in Outcomes : RunEnds(r, o)
  BY <1>5, RunSets DEF Saving, Succeeded, Failed
<1>6. CASE InitStart(r) \/ InitClear(r) \/ InitLink(r)
  <2>0. req[r].pc \in Inits /\ Only(r, {"pc", "hit", "reply"})
    BY <1>6, InitSets
  <2>1. req'[r].ask.verb = "init"
    <3>1. req'[r].ask = req[r].ask
      BY <2>0, FieldsOf DEF Only
    <3> QED
      BY <2>0, <3>1, Known DEF ReqOK
  <2> QED
    BY <1>6, <2>1, InitSets DEF Saving, Succeeded, Failed, RunVerbs, Ask
<1>7. CASE ServeVerb(r) \/ Diagnose(r) \/ ReportConfig(r) \/ CheckPaths(r)
  <2>0. req[r].pc = "verb" /\ Only(r, {"pc", "outcome", "diag", "reply"})
    BY <1>7, ServeSets
  <2>1. req'[r].ask \in VerbAsks \cup EnvAsks
    BY <2>0, Known, FieldsOf DEF Only, ReqOK
  <2> QED
    BY <1>7, <2>1, ServeSets, VerbsOfAsks DEF Saving, Succeeded, Failed, Ask
<1> QED
  BY <1>1, <1>2, <1>3, <1>4, <1>5, <1>6, <1>7 DEF Steps

\* The directory for an answer is there, or the name reserved in it.
LEMMA SaveBegins ==
    ASSUME ReqInv, DiskInv, [IntakeNext]_intakeVars, NEW r \in Requests, EnsureDir(r)
    PROVE  SaveOK(r)'
<1>1. CASE /\ req'[r].pc = "done" /\ ~req'[r].reply.ok /\ Only(r, {"pc", "hit", "reply"})
           /\ req'[r].hit = TRUE \/ req[r].out.dir = LocalOut
  <2>1. req'[r].out = req[r].out
    BY <1>1, FieldsOf DEF Only
  <2> QED
    BY <1>1, <2>1 DEF SaveOK, Saving, Succeeded, Failed
<1>2. CASE req'[r].pc = "write" /\ Only(r, {"pc", "target"}) /\ (IsDirAt(req[r].out) \/ req'[r].target = req[r].out)
  <2>1. req'[r].out = req[r].out
    BY <1>2, FieldsOf DEF Only
  <2>2. CASE req[r].out.dir # LocalOut /\ IsDirAt(req[r].out)
    <3>1. req[r].out \in DOMAIN disk' /\ disk'[req[r].out].kind = "dir"
      BY <2>2, DirsStay
    <3>2. IsDirAt(req[r].out)'
      BY <2>1, <2>2, <3>1 DEF IsDirAt, Phys
    <3> QED
      BY <1>2, <3>2 DEF SaveOK, Succeeded, Failed
  <2>3. CASE req[r].out.dir = LocalOut \/ req'[r].target = req[r].out
    BY <1>2, <2>1, <2>3 DEF SaveOK, Succeeded, Failed
  <2> QED
    BY <1>2, <2>2, <2>3
<1> QED
  BY <1>1, <1>2, EnsureSets

\* The text is at its destination, or there is a reason.
LEMMA SaveWrites ==
    ASSUME ReqInv, DiskInv, [IntakeNext]_intakeVars, NEW r \in Requests, SaveOK(r), WriteText(r)
    PROVE  SaveOK(r)'
<1>0. Only(r, {"pc", "hit", "reply"})
  BY WriteSets
<1>1. /\ req[r].pc = "write" /\ req[r].target \in Outs(r)
      /\ req'[r].out = req[r].out /\ req'[r].target = req[r].target /\ req'[r].outcome = req[r].outcome
  BY <1>0, TextWritten, FieldsOf DEF Only
<1>2. ASSUME req[r].out.dir # LocalOut, IsDirAt(req[r].out) PROVE IsDirAt(req[r].out)'
  <2>1. req[r].out \in DOMAIN disk' /\ disk'[req[r].out].kind = "dir"
    BY <1>2, DirsStay
  <2> QED
    BY <1>1, <1>2, <2>1 DEF IsDirAt, Phys
<1>3. req[r].out.dir # LocalOut => IsDirAt(req[r].out) \/ req[r].target = req[r].out
  BY <1>1 DEF SaveOK, Saving
<1>4. CASE req'[r].pc = "done" /\ ~req'[r].reply.ok /\ req'[r].hit = TRUE
  BY <1>4 DEF SaveOK, Saving, Succeeded, Failed
<1>5. CASE /\ req'[r].pc = "done" /\ ~req'[r].reply.ok
           /\ req[r].target.dir = LocalOut \/ IsDirAt(req[r].target)
  <2>1. req[r].out.dir = LocalOut \/ IsDirAt(req[r].out)
    BY <1>3, <1>5
  <2>2. req'[r].out.dir = LocalOut \/ IsDirAt(req[r].out)'
    BY <1>1, <1>2, <2>1
  <2> QED
    BY <1>5, <2>2 DEF SaveOK, Saving, Succeeded, Failed
<1>6. CASE /\ req'[r].pc = "sidecar"
           /\ disk' = Put(disk, Phys(req[r].target), [by |-> r, kind |-> KindOf(req[r].outcome)])
  <2> DEFINE p == Phys(req[r].target)
             v == [by |-> r, kind |-> KindOf(req[r].outcome)]
  <2>1. /\ Base(p) = Base(req[r].target)
        /\ req[r].target.dir # LocalOut => p = req[r].target
    BY <1>1, SameBase DEF Phys
  <2>2. v.kind = KindOf(req[r].outcome) /\ (req[r].outcome = "answer" => v = [by |-> r, kind |-> "text"])
    BY DEF KindOf
  <2>3. disk' = Put(disk, p, v)
    BY <1>6
  <2> HIDE DEF p, v
  <2>4. p \in DOMAIN disk' /\ disk'[p] = v
    BY <2>3 DEF Put
  <2>5. req[r].outcome = "answer" => TextThere(r)'
    BY <1>1, <2>1, <2>2, <2>4 DEF TextThere, Base
  <2>6. ASSUME req[r].out.dir # LocalOut PROVE StoredAt(r)' /\ (IsDirAt(req[r].out) \/ req[r].target = req[r].out)'
    <3>1. CASE IsDirAt(req[r].out)
      BY <1>2, <2>6, <3>1 DEF StoredAt
    <3>2. CASE req[r].target = req[r].out
      <4>1. req[r].out \in DOMAIN disk' /\ disk'[req[r].out].kind = KindOf(req[r].outcome)
        BY <2>1, <2>2, <2>4, <2>6, <3>2
      <4> QED
        BY <1>1, <3>2, <4>1 DEF StoredAt, KindOf
    <3> QED
      BY <1>3, <2>6, <3>1, <3>2
  <2> QED
    BY <1>1, <1>6, <2>5, <2>6 DEF SaveOK, Succeeded, Failed
<1> QED
  BY <1>4, <1>5, <1>6, WriteSets

\* The sidecar is beside it, or the write was refused.
LEMMA SaveDescribes ==
    ASSUME ReqInv, [IntakeNext]_intakeVars, NEW r \in Requests, SaveOK(r), WriteSidecar(r)
    PROVE  SaveOK(r)'
<1>0. /\ req[r].pc = "sidecar" /\ Only(r, {"pc", "hit", "reply"}) /\ UNCHANGED <<disk, local>>
      /\ \/ req'[r].pc = "done" /\ ~req'[r].reply.ok /\ req'[r].hit = TRUE
         \/ req'[r].pc = "verify" /\ meta' = Put(meta, Sidecar(req[r].target), r)
  BY SidecarSets
<1>1. /\ req'[r].out = req[r].out /\ req'[r].target = req[r].target /\ req'[r].outcome = req[r].outcome
      /\ req[r].target \in Outs(r)
  BY <1>0, Known, FieldsOf DEF Only, ReqOK, Saving
<1>2. CASE req'[r].pc = "done" /\ ~req'[r].reply.ok /\ req'[r].hit = TRUE
  BY <1>2 DEF SaveOK, Saving, Succeeded, Failed
<1>3. CASE req'[r].pc = "verify" /\ meta' = Put(meta, Sidecar(req[r].target), r)
  <2>1. Contested(r) => Contested(r)'
    BY <1>1, Paths, ContestedStays
  <2>2. TextThere(r) => TextThere(r)'
    BY <1>0, <1>1 DEF TextThere, Base
  <2>3. IsDirAt(req[r].out) => IsDirAt(req[r].out)'
    BY <1>0, <1>1 DEF IsDirAt, Phys
  <2>4. StoredAt(r) => StoredAt(r)'
    BY <1>0, <1>1, <2>1, <2>3 DEF StoredAt, KindOf
  <2>5. SidecarThere(r)'
    <3> DEFINE k == Sidecar(req[r].target)
    <3>1. Base(k) = Base(req[r].target)
      <4>1. req[r].target = [dir |-> req[r].target.dir, name |-> req[r].target.name, ext |-> req[r].target.ext]
        BY <1>1 DEF Outs
      <4>2. k = [dir |-> Phys(req[r].target).dir, name |-> req[r].target.name]
        BY DEF Sidecar
      <4>3. Phys(req[r].target).dir \in {req[r].target.dir, XdgOut}
            /\ (Phys(req[r].target).dir # req[r].target.dir => req[r].target.dir = LocalOut)
        BY <4>1 DEF Phys
      <4> HIDE DEF k
      <4> QED
        BY <4>2, <4>3 DEF Base
    <3>2. meta' = Put(meta, k, r)
      BY <1>3
    <3> HIDE DEF k
    <3>3. k \in DOMAIN meta' /\ meta'[k] = r
      BY <3>2 DEF Put
    <3> QED
      BY <1>1, <3>1, <3>3 DEF SidecarThere, Base
  <2> QED
    BY <1>0, <1>1, <1>3, <2>1, <2>2, <2>3, <2>4, <2>5 DEF SaveOK, Saving, Succeeded, Failed
<1> QED
  BY <1>0, <1>2, <1>3

\* The verification answers for what lies at the destination.
LEMMA SaveVerifies ==
    ASSUME ReqInv, HeldInv, [IntakeNext]_intakeVars, NEW r \in Requests, SaveOK(r), VerifySaved(r)
    PROVE  SaveOK(r)'
<1>0. /\ req[r].pc = "verify" /\ req'[r].pc = "done" /\ Only(r, {"pc", "reply"})
      /\ UNCHANGED <<disk, meta, local>>
      /\ req'[r].reply.ok <=> Readable(req[r].out) /\ req[r].outcome # "cut"
  BY VerifySets
<1>1. /\ req'[r].out = req[r].out /\ req'[r].target = req[r].target /\ req'[r].outcome = req[r].outcome
      /\ req[r].target \in Outs(r)
  BY <1>0, Known, FieldsOf DEF Only, ReqOK, Saving
<1>2. Contested(r) => req'[r].target # NoOut /\ Contested(r)'
  BY <1>1, Paths, ContestedStays
<1>3. TextThere(r) => TextThere(r)'
  BY <1>0, <1>1 DEF TextThere, Base
<1>4. SidecarThere(r) => SidecarThere(r)'
  BY <1>0, <1>1 DEF SidecarThere, Base
<1>5. IsDirAt(req[r].out) => IsDirAt(req[r].out)'
  BY <1>0, <1>1 DEF IsDirAt, Phys
<1>6. ASSUME req[r].out.dir # LocalOut
      PROVE  \/ Contested(r)
             \/ IsDirAt(req[r].out) /\ ~Readable(req[r].out)
             \/ Readable(req[r].out) <=> KindOf(req[r].outcome) = "text"
  <2>1. StoredAt(r)
    BY <1>0, <1>6 DEF SaveOK
  <2>2. Phys(req[r].out) = req[r].out
    BY <1>6 DEF Phys
  <2> QED
    BY <1>6, <2>1, <2>2 DEF StoredAt, IsDirAt, Readable
<1>7. (req[r].outcome = "noise" => KindOf(req[r].outcome) # "text") /\ (req[r].outcome = "answer" => KindOf(req[r].outcome) = "text")
  BY DEF KindOf
<1>8. req'[r].reply.ok /\ req[r].outcome = "noise" => req[r].out.dir = LocalOut \/ Contested(r)
  BY <1>0, <1>6, <1>7
<1>9. ~req'[r].reply.ok /\ req[r].outcome = "answer" =>
        req[r].out.dir = LocalOut \/ IsDirAt(req[r].out) \/ Contested(r)
  BY <1>0, <1>6, <1>7
<1> QED
  BY <1>0, <1>1, <1>2, <1>3, <1>4, <1>5, <1>8, <1>9 DEF SaveOK, Saving, Succeeded, Failed

\* No step unsays what was said of an answer.
LEMMA SaveKept ==
    ASSUME ReqInv, DiskInv, HeldInv, SaveInv, [IntakeNext]_intakeVars
    PROVE  SaveInv'
<1>1. ASSUME NEW r \in Requests PROVE SaveOK(r)'
  <2>1. SaveOK(r)
    BY DEF SaveInv
  <2>2. CASE Rests(r)
    BY <2>1, <2>2, SaveRests
  <2>3. CASE Steps(r)
    BY <2>1, <2>3, SaveElse, SaveBegins, SaveWrites, SaveDescribes, SaveVerifies
  <2> QED
    BY <2>2, <2>3, OneSteps
<1> QED
  BY <1>1 DEF SaveInv

-----------------------------------------------------------------------------
(* Intake: the replies *)

\* What is said of the replies holds of the invariants.
LEMMA RunsHonest ==
    ASSUME HeldInv, TemplateInv, BundleInv, SaveInv, NEW r \in Requests
    PROVE  RunHonest(r)
<1> SUFFICES ASSUME req[r].pc = "done", Ask(r).verb \in RunVerbs
             PROVE  /\ req[r].reply.ok =>
                         /\ req[r].outcome \in {"answer", "noise"}
                         /\ \/ Contested(r)
                            \/ req[r].outcome = "noise" /\ req[r].out.dir = LocalOut
                            \/ /\ req[r].outcome = "answer"
                               /\ \E l \in DOMAIN disk : disk[l] = [by |-> r, kind |-> "text"]
                               /\ \E s \in DOMAIN meta : meta[s] = r
                         /\ req[r].sent.by \in {"none", r} \/ Same(r, "attach")
                    /\ req[r].outcome = "answer" /\ ~req[r].reply.ok =>
                         \/ req[r].hit \/ IsDirAt(req[r].out) \/ req[r].out.dir = LocalOut \/ Contested(r)
                    /\ req[r].prompt = "blank" => Same(r, "role")
  BY DEF RunHonest, At
<1>1. SaveOK(r) /\ Held(req[r])
  BY DEF SaveInv, HeldInv
<1>2. req[r].reply.ok => Succeeded(r) /\ req[r].outcome \in {"answer", "noise"}
  BY <1>1 DEF Succeeded, Held, Ask
<1>3. ASSUME Succeeded(r), ~Contested(r), ~(req[r].outcome = "noise" /\ req[r].out.dir = LocalOut), req[r].reply.ok
      PROVE  /\ req[r].outcome = "answer"
             /\ \E l \in DOMAIN disk : disk[l] = [by |-> r, kind |-> "text"]
             /\ \E s \in DOMAIN meta : meta[s] = r
  <2>1. req[r].outcome = "answer"
    BY <1>1, <1>2, <1>3 DEF SaveOK
  <2>2. TextThere(r) /\ SidecarThere(r)
    BY <1>1, <1>3, <2>1 DEF SaveOK
  <2> QED
    BY <2>1, <2>2 DEF TextThere, SidecarThere
<1>4. req[r].sent.by \in {"none", r} \/ Same(r, "attach")
  <2>1. CASE Settled(r) /\ \E q \in Requests \ {r} : Settled(q) /\ Ask(q).attach = Ask(r).attach
    <3>1. PICK q \in Requests \ {r} : Settled(q) /\ Ask(q).attach = Ask(r).attach
      BY <2>1
    <3>2. "attach" \in DOMAIN Ask(q)
      BY <3>1 DEF Settled, RunAsks
    <3>3. Ask(q)["attach"] = Ask(r)["attach"]
      BY <3>1
    <3> QED
      BY <3>2, <3>3 DEF Same
  <2> QED
    BY <2>1 DEF BundleInv
<1>5. req[r].prompt = "blank" => Same(r, "role")
  <2> SUFFICES ASSUME req[r].prompt = "blank" PROVE Same(r, "role")
    OBVIOUS
  <2>1. PICK q \in Requests \ {r} : RolePlayed(q)
    BY DEF TemplateInv
  <2>2. RolePlayed(r)
    BY DEF TemplateInv
  <2>3. "role" \in DOMAIN Ask(q) /\ Ask(q)["role"] = Ask(r)["role"]
    BY <2>1, <2>2 DEF RolePlayed, RunAsks
  <2> QED
    BY <2>3 DEF Same
<1>6. req[r].outcome = "answer" /\ ~req[r].reply.ok =>
        \/ req[r].hit \/ IsDirAt(req[r].out) \/ req[r].out.dir = LocalOut \/ Contested(r)
  BY <1>1 DEF SaveOK, Failed
<1> QED
  BY <1>2, <1>3, <1>4, <1>5, <1>6

\* The five invariants of the replies, together.
RepliesInv == HeldInv /\ TemplateInv /\ BundleInv /\ InitInv /\ SaveInv

\* They hold before the first request.
LEMMA RepliesStart ==
    ASSUME IntakeInit
    PROVE  RepliesInv
<1>1. \A r \in Requests : req[r] = Idle
  BY DEF IntakeInit
<1>2. /\ Idle.pc = "idle" /\ Idle.ask.verb = "none" /\ Idle.outcome = "none" /\ Idle.attach = NoPath
      /\ Idle.prompt = "whole" /\ Idle.sent.by = "none" /\ ~Idle.reply.ok
  BY Claims DEF Idle
<1>3. HeldInv
  BY <1>1, <1>2 DEF HeldInv, Held, RunVerbs, Saving
<1>4. TemplateInv
  BY <1>1, <1>2 DEF IntakeInit, TemplateInv
<1>5. BundleInv
  BY <1>1, <1>2 DEF IntakeInit, BundleInv
<1>6. InitInv
  BY <1>1, <1>2 DEF InitInv, InitHonest, At
<1>7. SaveInv
  BY <1>1, <1>2 DEF SaveInv, SaveOK, Saving, Succeeded, Failed
<1> QED
  BY <1>3, <1>4, <1>5, <1>6, <1>7 DEF RepliesInv

\* A reply that claims success claims no more than was done, and an answer that was
\* received is denied only for a reason: runs and inits in every state, verbs when
\* they answer.
THEOREM RepliesAreHonest == IntakeSpec => ReplyIsHonest
<1> DEFINE Inv == ReqInv /\ DiskInv /\ RepliesInv
           Honest == \A r \in Requests : RunHonest(r) /\ InitHonest(r)
           Says == \A r \in Requests : req[r].pc = "verb" /\ req'[r].pc = "done" =>
                      (VerbHonest(r) /\ DoctorHonest(r) /\ ConfigHonest(r) /\ PathsHonest(r))'
<1>1. IntakeInit => Inv
  BY IntakeStarts, RepliesStart
<1>2. Inv /\ [IntakeNext]_intakeVars => Inv'
  <2> SUFFICES ASSUME Inv, [IntakeNext]_intakeVars PROVE Inv'
    OBVIOUS
  <2>1. ReqInv' /\ DiskInv'
    BY ReqStep, DiskStep
  <2>2. HeldInv' /\ TemplateInv' /\ BundleInv' /\ InitInv' /\ SaveInv'
    BY HeldKept, TemplateKept, BundleKept, InitKept, SaveKept DEF RepliesInv
  <2> QED
    BY <2>1, <2>2 DEF RepliesInv
<1>3. Inv => Honest
  BY RunsHonest DEF RepliesInv, InitInv
<1>4. Inv /\ [IntakeNext]_intakeVars => [Says]_intakeVars
  BY VerbStep DEF VerbsHonest
<1> HIDE DEF Inv, Honest, Says
<1>5. IntakeSpec => []Honest /\ [][Says]_intakeVars
  BY <1>1, <1>2, <1>3, <1>4, PTL DEF IntakeSpec
<1> QED
  BY <1>5 DEF Honest, Says, ReplyIsHonest
==============================================================================
