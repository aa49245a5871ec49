-------------------------- MODULE MCModuleLoading --------------------------
(***************************************************************************)
(* All disks of three files: the main file with at most three items, a     *)
(* file a with at most two, and a file d in a directory, whose base name   *)
(* is e.  Imports may stand anywhere, name the file they are in, or name a *)
(* file that is missing, unreadable or empty.                              *)
(***************************************************************************)
EXTENDS ModuleLoading

CONSTANTS m, a, d, e, x, y

MCBase(p) == IF p = d THEN e ELSE p

UpTo(n, S) == UNION {[1..k -> S] : k \in 0..n}

MainFiles == {Unreadable} \cup
  {File(s) : s \in UpTo(3, {Import(m), Import(a), Import(d), Decl(x), BadVar, BadFn})}
AFiles == {Missing, Unreadable} \cup
  {File(s) : s \in UpTo(2, {Import(m), Import(a), Decl(y), BadVar})}
DFiles == {Unreadable, File(<<Decl(y)>>)}

Disks == {[p \in Paths |-> CASE p = m -> fm [] p = a -> fa [] p = d -> fd] :
            fm \in MainFiles, fa \in AFiles, fd \in DFiles}

Stopped == phase \in Outcomes /\ UNCHANGED vars

MCSpec == LoadInit(Disks) /\ [][Next \/ Stopped]_vars /\ WF_vars(Next)

(* The compiler comes to a verdict or aborts.  The queue of files only     *)
(* grows without end where files import each other.                        *)
LoadingEnds ==
  /\ <>(phase \in Outcomes)
  /\ ~CyclicDisk => <>(phase \in Outcomes \ {"endless"})
=============================================================================
