------------------------------ MODULE Namespace ------------------------------
(***************************************************************************)
(* What the write side of a Storage promises its callers: one map from      *)
(* names to contents on which AddFile, RemoveFile and RenameFile are        *)
(* atomic.  A rename may take time between its call and its effect, and     *)
(* may fail; a call that fails leaves the map alone.                        *)
(***************************************************************************)
CONSTANTS Name, Data, Absent, Proc

VARIABLES
  files,   \* files[n]: the content a reader gets under n, or Absent
  call     \* call[p]: the last call of p, its result "pending" until it returns

Mutators == {"add", "remove", "rename"}

Init == /\ files \in [Name -> Data \cup {Absent}]
        /\ call \in [Proc -> [op : {"none"}, name : Name, dst : Name, ret : {"none"}]]

Idle(p) == call[p].ret # "pending"
Finish(p, o, r) == call'[p].op = o /\ call'[p].ret = r
OthersWait(p)   == \A q \in Proc \ {p} : call'[q] = call[q]

Add(p) ==
  /\ Idle(p) /\ Finish(p, "add", "ok")
  /\ \E n \in Name, d \in Data : files' = [files EXCEPT ![n] = d]

AddExists(p) ==
  /\ Idle(p) /\ Finish(p, "add", "exists")
  /\ \E n \in Name : files[n] # Absent
  /\ UNCHANGED files

Remove(p) ==
  /\ Idle(p) /\ Finish(p, "remove", "ok")
  /\ \E n \in Name : files' = [files EXCEPT ![n] = Absent]

RenameBegin(p) ==
  /\ Idle(p) /\ Finish(p, "rename", "pending")
  /\ call'[p].name # call'[p].dst
  /\ UNCHANGED files

(* A rename moves the content of an existing file, or reports why not.      *)
Rename(p) ==
  LET o == call[p].name  n == call[p].dst IN
  /\ call[p].op = "rename" /\ ~Idle(p)
  /\ \/ /\ Finish(p, "rename", "ok") /\ files[o] # Absent
        /\ files' = [files EXCEPT ![n] = files[o], ![o] = Absent]
     \/ Finish(p, "rename", "exists") /\ files[n] # Absent /\ UNCHANGED files
     \/ Finish(p, "rename", "notfound") /\ files[o] = Absent /\ UNCHANGED files
     \/ /\ call'[p].op = "rename" /\ call'[p].ret \in {"failed", "unsupported"}
        /\ UNCHANGED files

(* Every other method only reads.                                           *)
Observe(p) ==
  /\ Idle(p) \/ call[p].op \notin Mutators
  /\ call'[p].op \notin Mutators
  /\ UNCHANGED files

Next == \E p \in Proc :
  /\ OthersWait(p)
  /\ \/ Add(p) \/ AddExists(p) \/ Remove(p)
     \/ RenameBegin(p) \/ Rename(p)
     \/ Observe(p)

Spec == Init /\ [][Next]_<<files, call>>
==============================================================================
