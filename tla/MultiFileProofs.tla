--------------------------- MODULE MultiFileProofs ---------------------------
(***************************************************************************)
(* The walk of compile_project on every project: it reads each file once,  *)
(* reads and reports exactly what the entry leads to, and implements the   *)
(* closure of `use'.                                                       *)
(*                                                                         *)
(* And the two walks over a project agree on every project.  The order in  *)
(* which the first walk reads files is determined by the files alone: a    *)
(* file is read before another when the first `use' of it stands before    *)
(* the first `use' of the other, in the files as they are read.  The       *)
(* second walk follows the same uses, so its queue is the part of that     *)
(* order that it has found and not read.                                   *)
(***************************************************************************)
EXTENDS ProjectViews, WellFoundedInduction, FiniteSetTheorems, TLAPS

ElementsOf(s) == {s[i] : i \in DOMAIN s}
NoRepeat(s) == \A i, j \in DOMAIN s : s[i] = s[j] => i = j

LEMMA AppendElements ==
  ASSUME NEW S, NEW s \in Seq(S), NEW e \in S
  PROVE  /\ Append(s, e) \in Seq(S)
         /\ ElementsOf(Append(s, e)) = ElementsOf(s) \cup {e}
         /\ NoRepeat(s) /\ e \notin ElementsOf(s) => NoRepeat(Append(s, e))
<1>1. /\ DOMAIN Append(s, e) = 1 .. Len(s) + 1 /\ DOMAIN s = 1 .. Len(s)
      /\ \A i \in 1 .. Len(s) : Append(s, e)[i] = s[i]
      /\ Append(s, e)[Len(s) + 1] = e
  OBVIOUS
<1>2. ElementsOf(Append(s, e)) = ElementsOf(s) \cup {e}
  <2>1. ASSUME NEW i \in DOMAIN Append(s, e) PROVE Append(s, e)[i] \in ElementsOf(s) \cup {e}
    BY <1>1 DEF ElementsOf
  <2>2. ASSUME NEW x \in ElementsOf(s) \cup {e} PROVE \E i \in DOMAIN Append(s, e) : Append(s, e)[i] = x
    BY <1>1 DEF ElementsOf
  <2> QED BY <2>1, <2>2 DEF ElementsOf
<1>3. NoRepeat(s) /\ e \notin ElementsOf(s) => NoRepeat(Append(s, e))
  BY <1>1 DEF NoRepeat, ElementsOf
<1> QED BY <1>2, <1>3

LEMMA TailElements ==
  ASSUME NEW S, NEW s \in Seq(S), s # <<>>, NoRepeat(s)
  PROVE  /\ Head(s) \in S /\ Head(s) \in ElementsOf(s)
         /\ Tail(s) \in Seq(S)
         /\ NoRepeat(Tail(s))
         /\ ElementsOf(Tail(s)) = ElementsOf(s) \ {Head(s)}
<1>1. /\ Len(s) \in Nat \ {0} /\ DOMAIN s = 1 .. Len(s)
      /\ DOMAIN Tail(s) = 1 .. Len(s) - 1 /\ Head(s) = s[1]
      /\ \A i \in 1 .. Len(s) - 1 : Tail(s)[i] = s[i + 1]
  OBVIOUS
<1>2. NoRepeat(Tail(s))
  BY <1>1 DEF NoRepeat
<1>3. ElementsOf(Tail(s)) \subseteq ElementsOf(s) \ {Head(s)}
  BY <1>1 DEF NoRepeat, ElementsOf
<1>4. ASSUME NEW x \in ElementsOf(s) \ {Head(s)} PROVE x \in ElementsOf(Tail(s))
  <2>1. PICK i \in DOMAIN s : s[i] = x
    BY DEF ElementsOf
  <2>2. i - 1 \in DOMAIN Tail(s) /\ Tail(s)[i - 1] = x
    BY <1>1, <2>1
  <2> QED BY <2>2 DEF ElementsOf
<1>5. Head(s) \in S /\ Tail(s) \in Seq(S)
  OBVIOUS
<1>6. Head(s) \in ElementsOf(s)
  BY <1>1 DEF ElementsOf
<1> QED BY <1>2, <1>3, <1>4, <1>5, <1>6

LEMMA ElementType == ASSUME NEW S, NEW s \in Seq(S), NEW k \in DOMAIN s PROVE s[k] \in S
OBVIOUS

LEMMA LastElement ==
  ASSUME NEW S, NEW s \in Seq(S), s # <<>>
  PROVE  /\ Len(s) \in Nat \ {0} /\ DOMAIN s = 1 .. Len(s)
         /\ Len(s) \in DOMAIN s /\ s[Len(s)] \in S
OBVIOUS

-----------------------------------------------------------------------------
(* The inductive invariant.                                                *)

Read == ElementsOf(file_table)
Reported == {e.path : e \in {x \in errors : x.kind = "missing"}}

\* What has been visited is waiting, read or reported missing, and only one of these
Partition ==
  /\ visited = ElementsOf(queue) \cup Read \cup Reported
  /\ ElementsOf(queue) \cap (Read \cup Reported) = {}
  /\ Reported \cap DOMAIN files = {}
  /\ NoRepeat(queue) /\ NoRepeat(file_table)

\* Files that have been left have all their uses visited; of the file being read
\* those before the next statement
UsesVisited ==
  /\ phase = "read" => /\ file_table # <<>>
                       /\ \A k \in 1 .. pos - 1 : k \in DOMAIN files[Current].stmts =>
                            (IsUse(files[Current].stmts[k]) => PathOf[files[Current].stmts[k].namespace] \in visited)
  /\ \A i \in DOMAIN file_table : phase # "read" \/ i # Len(file_table) => UsedBy(file_table[i]) \subseteq visited

\* Nothing is visited that the entry does not lead to
OnlyReachable == visited \subseteq Reachable

Phases ==
  /\ phase = "start" => visited = {} /\ errors = {} /\ file_table = <<>>
  /\ phase \in {"walk", "read"} \/ (phase = "done" /\ entry \in DOMAIN files) => entry \in visited
  /\ phase = "done" /\ entry \in DOMAIN files => queue = <<>>
  /\ phase \in {"walk", "read"} => entry \in DOMAIN files

IInv == TypeOK /\ Partition /\ UsesVisited /\ OnlyReachable /\ Phases

LEMMA FilesTyped ==
  ASSUME TypeOK, NEW f \in DOMAIN files
  PROVE  /\ f \in Path /\ files[f].stmts \in Seq(Use \cup Declaration)
         /\ \A k \in DOMAIN files[f].stmts : files[f].stmts[k] \in Use \cup Declaration
<1>1. f \in Path /\ files[f].stmts \in Seq(Use \cup Declaration)
  BY DEF TypeOK, File
<1> QED BY <1>1, ElementType

LEMMA UsesTyped == ASSUME TypeOK, NEW f PROVE UsedBy(f) \subseteq Path
<1>1. CASE f \notin DOMAIN files
  BY <1>1 DEF UsedBy, Statements
<1>2. CASE f \in DOMAIN files
  <2>1. ASSUME NEW k \in DOMAIN files[f].stmts, IsUse(files[f].stmts[k])
        PROVE  PathOf[files[f].stmts[k].namespace] \in Path
    BY <1>2, <2>1, FilesTyped, PathOfType DEF IsUse, Use, Declaration
  <2> QED BY <1>2, <2>1 DEF UsedBy, Statements
<1> QED BY <1>1, <1>2

LEMMA CurrentTyped ==
  ASSUME TypeOK, file_table # <<>>
  PROVE  /\ Len(file_table) \in DOMAIN file_table
         /\ Current \in DOMAIN files /\ Current \in Path
         /\ Len(files[Current].stmts) \in Nat
         /\ DOMAIN files[Current].stmts = 1 .. Len(files[Current].stmts)
<1>1. file_table \in Seq(DOMAIN files)
  BY DEF TypeOK
<1>2. Len(file_table) \in DOMAIN file_table /\ Current \in DOMAIN files
  BY <1>1, LastElement DEF Current
<1>3. files[Current].stmts \in Seq(Use \cup Declaration) /\ Current \in Path
  BY <1>2, FilesTyped
<1> QED BY <1>2, <1>3

\* A file index never points past the file that is being read
LEMMA IndexInTable ==
  ASSUME TypeOK, file_table # <<>>
  PROVE  FileIndex \in Nat /\ FileIndex < Len(file_table)
<1>1. Len(file_table) \in Nat \ {0}
  BY LastElement DEF TypeOK
<1>2. ASSUME NEW a \in Nat, NEW r \in Nat \ {0} PROVE a % r \in Nat /\ a % r <= a
  <2>1. a % r \in 0 .. r - 1
    OBVIOUS
  <2>2. CASE a < r
    BY <2>2
  <2>3. CASE a >= r
    BY <2>1, <2>3
  <2> QED BY <2>2, <2>3
<1>3. FileIndex \in Nat /\ FileIndex <= Len(file_table) - 1
  <2>1. Len(file_table) - 1 \in Nat
    BY <1>1
  <2> QED BY <2>1, <1>2, IndexRangeType DEF FileIndex
<1> QED BY <1>1, <1>3

LEMMA TypeInit == Init => TypeOK
<1> SUFFICES ASSUME Init PROVE TypeOK
  OBVIOUS
<1>1. entry \in Path /\ DOMAIN files \subseteq Path /\ \A f \in DOMAIN files : files[f] \in File
  BY CallsTyped DEF Init
<1>2. /\ queue \in Seq(Path) /\ visited \subseteq Path /\ file_table \in Seq(DOMAIN files)
      /\ merged \in Seq([stmt : Declaration, file : Nat]) /\ DOMAIN merged = {}
      /\ DOMAIN template_defs = {} /\ DOMAIN use_graph = {}
  BY DEF Init
<1>3. phase = "start" /\ pos \in Nat \ {0} /\ errors = {}
  BY DEF Init
<1>4. drc \in {"skipped", "run"}
  BY DEF Init
<1> QED BY <1>1, <1>2, <1>3, <1>4 DEF TypeOK

LEMMA TypeStep == TypeOK /\ (phase = "read" => file_table # <<>>) /\ [Next]_vars => TypeOK'
<1> SUFFICES ASSUME TypeOK, phase = "read" => file_table # <<>>, [Next]_vars PROVE TypeOK'
  OBVIOUS
<1>1. CASE EntryMissing
  BY <1>1 DEF EntryMissing, TypeOK
<1>2. CASE Begin
  <2>1. queue' \in Seq(Path) /\ visited' \subseteq Path
    BY <1>2 DEF Begin, TypeOK
  <2> QED BY <1>2, <2>1 DEF Begin, TypeOK
<1>3. CASE MissingFile
  <2>1. Head(queue) \in Path /\ Tail(queue) \in Seq(Path)
    BY <1>3 DEF MissingFile, TypeOK
  <2> QED BY <1>3, <2>1 DEF MissingFile, TypeOK
<1>4. CASE ReadFile
  <2>1. /\ Head(queue) \in Path /\ Tail(queue) \in Seq(Path)
        /\ Append(file_table, Head(queue)) \in Seq(DOMAIN files)
        /\ Len(Append(file_table, Head(queue))) = Len(file_table) + 1
        /\ Len(file_table) \in Nat
    BY <1>4 DEF ReadFile, TypeOK
  <2>2. \A k \in DOMAIN merged : merged[k].file < Len(file_table) + 1
    <3>1. ASSUME NEW k \in DOMAIN merged PROVE merged[k].file \in Nat
      <4>1. merged[k] \in [stmt : Declaration, file : Nat]
        BY ElementType DEF TypeOK
      <4> QED BY <4>1
    <3> QED BY <2>1, <3>1 DEF TypeOK
  <2>3. errors' \subseteq [kind : {"no_entry", "missing", "parse", "duplicate"}, path : Path]
    BY <1>4, <2>1 DEF ReadFile, ParseErrors, TypeOK
  <2>4. DOMAIN use_graph' \subseteq DOMAIN files
    BY <1>4 DEF ReadFile, Put, TypeOK
  <2> QED BY <1>4, <2>1, <2>2, <2>3, <2>4 DEF ReadFile, TypeOK
<1>5. CASE FollowUse
  <2>1. PathOf[Stmt.namespace] \in Path
    <3>1. file_table # <<>> /\ pos \in DOMAIN files[Current].stmts
      BY <1>5, CurrentTyped DEF FollowUse, Reads, TypeOK
    <3>2. Stmt \in Use \cup Declaration /\ Stmt.kind = "use"
      BY <1>5, <3>1, CurrentTyped, FilesTyped DEF FollowUse, Reads, Stmt
    <3> QED BY <3>2, PathOfType DEF Use, Declaration
  <2>2. queue' \in Seq(Path) /\ visited' \subseteq Path
    <3>1. CASE PathOf[Stmt.namespace] \in visited
      BY <1>5, <3>1 DEF FollowUse, Enqueue, TypeOK
    <3>2. CASE PathOf[Stmt.namespace] \notin visited
      <4>1. /\ queue' = Append(queue, PathOf[Stmt.namespace])
            /\ visited' = visited \cup {PathOf[Stmt.namespace]}
        BY <1>5, <3>2 DEF FollowUse, Enqueue
      <4> QED BY <2>1, <4>1, AppendElements DEF TypeOK
    <3> QED BY <3>1, <3>2
  <2> QED BY <1>5, <2>2 DEF FollowUse, Reads, TypeOK
<1>6. ASSUME Merge, Stmt \in Declaration, file_table # <<>>, UNCHANGED file_table
      PROVE  /\ merged' \in Seq([stmt : Declaration, file : Nat])
             /\ \A k \in DOMAIN merged' : merged'[k].file < Len(file_table')
  <2>1. [stmt |-> Stmt, file |-> FileIndex] \in [stmt : Declaration, file : Nat]
    BY <1>6, IndexInTable
  <2>2. /\ DOMAIN merged' = 1 .. Len(merged) + 1 /\ DOMAIN merged = 1 .. Len(merged)
        /\ \A k \in 1 .. Len(merged) : merged'[k] = merged[k]
        /\ merged'[Len(merged) + 1].file = FileIndex
    BY <1>6, <2>1 DEF Merge, TypeOK
  <2> QED BY <1>6, <2>1, <2>2, IndexInTable DEF Merge, TypeOK
<1>7. ASSUME Reads("template") \/ Reads("other") PROVE file_table # <<>> /\ Stmt \in Declaration /\ Current \in DOMAIN files /\ Current \in Path
  <2>1. file_table # <<>> /\ pos \in DOMAIN files[Current].stmts
    BY <1>7, CurrentTyped DEF Reads, TypeOK
  <2>2. Stmt \in Use \cup Declaration /\ Stmt.kind # "use"
    BY <1>7, <2>1, CurrentTyped, FilesTyped DEF Reads, Stmt
  <2> QED BY <2>1, <2>2, CurrentTyped DEF Use
<1>8. CASE MergeTemplate
  <2>1. Stmt.name \in Template
    BY <1>7, <1>8 DEF MergeTemplate, Reads, Stmt, Declaration
  <2>2. /\ DOMAIN template_defs' \subseteq Template
        /\ \A t \in DOMAIN template_defs' : template_defs'[t] \in DOMAIN files
        /\ errors' \subseteq [kind : {"no_entry", "missing", "parse", "duplicate"}, path : Path]
    BY <1>7, <1>8, <2>1 DEF MergeTemplate, Define, Put, TypeOK
  <2> QED BY <1>6, <1>7, <1>8, <2>2 DEF MergeTemplate, Reads, TypeOK
<1>9. CASE MergeOther
  BY <1>6, <1>7, <1>9 DEF MergeOther, Reads, TypeOK
<1>10. CASE EndOfFile
  BY <1>10 DEF EndOfFile, TypeOK
<1>11. CASE Finish
  BY <1>11 DEF Finish, TypeOK
<1>12. CASE UNCHANGED vars
  BY <1>12 DEF vars, TypeOK
<1> QED BY <1>1, <1>2, <1>3, <1>4, <1>5, <1>8, <1>9, <1>10, <1>11, <1>12 DEF Next

-----------------------------------------------------------------------------
(* The rest of the invariant.                                              *)

\* What a file uses, and what the entry leads to, does not change
LEMMA ArgumentsStay ==
  ASSUME [Next]_vars
  PROVE  /\ files' = files /\ entry' = entry /\ Reachable' = Reachable
         /\ \A f : UsedBy(f)' = UsedBy(f)
<1>1. files' = files /\ entry' = entry
  BY DEF Next, vars, EntryMissing, Begin, MissingFile, ReadFile, FollowUse, MergeTemplate,
         MergeOther, Reads, EndOfFile, Finish
<1> QED BY <1>1 DEF Reachable, Closed, UsedBy, Statements

LEMMA ReachableClosed == ASSUME TypeOK PROVE Closed(Reachable)
<1>1. entry \in Reachable
  BY DEF TypeOK, Reachable, Closed
<1>2. ASSUME NEW f \in Reachable, NEW g \in UsedBy(f) PROVE g \in Reachable
  BY <1>2, UsesTyped DEF Reachable, Closed
<1> QED BY <1>1, <1>2 DEF Closed

LEMMA NewError ==
  ASSUME NEW k, NEW p, errors' = errors \cup {[kind |-> k, path |-> p]}
  PROVE  Reported' = IF k = "missing" THEN Reported \cup {p} ELSE Reported
<1>1. ASSUME NEW q \in Reported' PROVE q \in IF k = "missing" THEN Reported \cup {p} ELSE Reported
  BY <1>1 DEF Reported
<1>2. Reported \subseteq Reported'
  BY DEF Reported
<1>3. k = "missing" => p \in Reported'
  <2>1. [kind |-> k, path |-> p] \in errors' /\ [kind |-> k, path |-> p].path = p /\ [kind |-> k, path |-> p].kind = k
    OBVIOUS
  <2> QED BY <2>1 DEF Reported
<1> QED BY <1>1, <1>2, <1>3

LEMMA ReadFileReports == ASSUME ReadFile PROVE Reported' = Reported
<1>1. CASE files[Head(queue)].broken
  <2>1. errors' = errors \cup {[kind |-> "parse", path |-> Head(queue)]}
    BY <1>1 DEF ReadFile, ParseErrors
  <2> QED BY <2>1, NewError
<1>2. CASE ~ files[Head(queue)].broken
  BY <1>2 DEF ReadFile, ParseErrors, Reported
<1> QED BY <1>1, <1>2

\* The statement being followed is used by the file being read, which was visited
LEMMA FollowedUse ==
  ASSUME IInv, Reads("use")
  PROVE  /\ PathOf[Stmt.namespace] \in UsedBy(Current)
         /\ PathOf[Stmt.namespace] \in Reachable
         /\ PathOf[Stmt.namespace] \in Path
<1>1. file_table # <<>> /\ pos \in DOMAIN files[Current].stmts /\ IsUse(Stmt)
  BY CurrentTyped DEF IInv, UsesVisited, Reads, TypeOK, IsUse, Stmt
<1>2. Current \in DOMAIN files /\ Current \in Read
  BY <1>1, CurrentTyped DEF IInv, Read, ElementsOf, Current
<1>3. PathOf[Stmt.namespace] \in UsedBy(Current)
  BY <1>1, <1>2 DEF UsedBy, Statements, Stmt
<1>4. Current \in Reachable
  BY <1>2 DEF IInv, Partition, OnlyReachable
<1> QED BY <1>3, <1>4, ReachableClosed, UsesTyped DEF IInv, Closed

\* Reading a file or reporting it takes it from the queue
LEMMA PartitionStep == IInv /\ [Next]_vars => Partition'
<1> SUFFICES ASSUME IInv, [Next]_vars PROVE Partition'
  OBVIOUS
<1>1. files' = files
  BY ArgumentsStay
<1>2. CASE EntryMissing
  <2>1. Reported' = {}
    BY <1>2 DEF EntryMissing, Reported
  <2>2. Reported = {}
    BY <1>2 DEF EntryMissing, Reported, IInv, Phases
  <2> QED BY <1>2, <2>1, <2>2 DEF EntryMissing, Partition, IInv, Read
<1>3. CASE Begin
  <2>1. visited = {} /\ Read = {} /\ Reported = {} /\ errors' = errors /\ file_table' = file_table
    BY <1>3 DEF Begin, IInv, Phases, Read, Reported, ElementsOf
  <2>2. ElementsOf(queue') = {entry} /\ NoRepeat(queue') /\ visited' = {entry}
    BY <1>3 DEF Begin, ElementsOf, NoRepeat
  <2>3. Read' = {} /\ Reported' = {}
    BY <2>1 DEF Read, Reported
  <2> QED BY <2>1, <2>2, <2>3 DEF Partition, IInv
<1>4. CASE MissingFile
  <2>1. /\ ElementsOf(queue') = ElementsOf(queue) \ {Head(queue)} /\ NoRepeat(queue')
        /\ Head(queue) \in ElementsOf(queue)
    BY <1>4, TailElements DEF MissingFile, IInv, Partition, TypeOK
  <2>2. Reported' = Reported \cup {Head(queue)}
    BY <1>4, NewError DEF MissingFile
  <2> QED BY <1>1, <1>4, <2>1, <2>2 DEF MissingFile, IInv, Partition, Read
<1>5. CASE ReadFile
  <2>1. /\ ElementsOf(queue') = ElementsOf(queue) \ {Head(queue)} /\ NoRepeat(queue')
        /\ Head(queue) \in ElementsOf(queue)
    BY <1>5, TailElements DEF ReadFile, IInv, Partition, TypeOK
  <2>2. Read' = Read \cup {Head(queue)} /\ NoRepeat(file_table')
    <3>1. Head(queue) \in DOMAIN files /\ Head(queue) \notin Read
      BY <1>5, <2>1 DEF ReadFile, IInv, Partition
    <3> QED BY <1>5, <3>1, AppendElements DEF ReadFile, IInv, Partition, TypeOK, Read
  <2>3. Reported' = Reported
    BY <1>5, ReadFileReports
  <2> QED BY <1>1, <1>5, <2>1, <2>2, <2>3 DEF ReadFile, IInv, Partition
<1>6. CASE FollowUse
  <2> DEFINE g == PathOf[Stmt.namespace]
  <2>1. Read' = Read /\ Reported' = Reported /\ file_table' = file_table
    BY <1>6 DEF FollowUse, Reads, Read, Reported
  <2>2. CASE g \in visited
    BY <1>1, <1>6, <2>1, <2>2 DEF FollowUse, Enqueue, IInv, Partition
  <2>3. CASE g \notin visited
    <3>1. queue' = Append(queue, g) /\ visited' = visited \cup {g}
      BY <1>6, <2>3 DEF FollowUse, Enqueue
    <3>2. g \in Path /\ g \notin ElementsOf(queue)
      BY <1>6, <2>3, FollowedUse DEF FollowUse, IInv, Partition
    <3>3. ElementsOf(queue') = ElementsOf(queue) \cup {g} /\ NoRepeat(queue')
      BY <3>1, <3>2, AppendElements DEF IInv, Partition, TypeOK
    <3> QED BY <1>1, <2>1, <2>3, <3>1, <3>3 DEF IInv, Partition
  <2> QED BY <2>2, <2>3
<1>7. CASE MergeTemplate
  <2>1. Reported' = Reported
    <3>1. CASE Stmt.name \in DOMAIN template_defs
      BY <1>7, <3>1, NewError DEF MergeTemplate, Define
    <3>2. CASE Stmt.name \notin DOMAIN template_defs
      BY <1>7, <3>2 DEF MergeTemplate, Define, Reported
    <3> QED BY <3>1, <3>2
  <2> QED BY <1>1, <1>7, <2>1 DEF MergeTemplate, Reads, IInv, Partition, Read
<1>8. CASE MergeOther
  BY <1>1, <1>8 DEF MergeOther, Reads, IInv, Partition, Read, Reported
<1>9. CASE EndOfFile \/ Finish \/ UNCHANGED vars
  BY <1>1, <1>9 DEF EndOfFile, Finish, vars, IInv, Partition, Read, Reported
<1> QED BY <1>2, <1>3, <1>4, <1>5, <1>6, <1>7, <1>8, <1>9 DEF Next

LEMMA PhasesStep == IInv /\ [Next]_vars => Phases'
BY ArgumentsStay DEF IInv, Phases, Next, vars, EntryMissing, Begin, MissingFile, ReadFile, FollowUse,
   Enqueue, MergeTemplate, MergeOther, Reads, EndOfFile, Finish

\* Only Begin and FollowUse visit, and both visit what is reachable
LEMMA OnlyReachableStep == IInv /\ [Next]_vars => OnlyReachable'
<1> SUFFICES ASSUME IInv, [Next]_vars PROVE OnlyReachable'
  OBVIOUS
<1>1. Reachable' = Reachable
  BY ArgumentsStay
<1>2. CASE Begin
  BY <1>1, <1>2, ReachableClosed DEF Begin, IInv, OnlyReachable, Closed
<1>3. CASE FollowUse
  BY <1>1, <1>3, FollowedUse DEF FollowUse, Enqueue, IInv, OnlyReachable
<1>4. CASE visited' = visited
  BY <1>1, <1>4 DEF IInv, OnlyReachable
<1> QED BY <1>2, <1>3, <1>4 DEF Next, vars, EntryMissing, MissingFile, ReadFile, MergeTemplate,
           MergeOther, EndOfFile, Finish

\* A file is left only when every use in it has been followed
LEMMA UsesVisitedStep == IInv /\ [Next]_vars => UsesVisited'
<1> SUFFICES ASSUME IInv, [Next]_vars PROVE UsesVisited'
  OBVIOUS
<1>1. files' = files /\ \A f : UsedBy(f)' = UsedBy(f)
  BY ArgumentsStay
<1>2. CASE EntryMissing \/ Begin \/ MissingFile \/ Finish
  <2>1. phase # "read" /\ phase' # "read" /\ file_table' = file_table
    BY <1>2 DEF EntryMissing, Begin, MissingFile, Finish
  <2>2. visited \subseteq visited'
    BY <1>2 DEF EntryMissing, Begin, MissingFile, Finish, IInv, Phases
  <2> QED BY <1>1, <2>1, <2>2 DEF IInv, UsesVisited
<1>3. CASE ReadFile
  <2>1. /\ DOMAIN file_table' = 1 .. Len(file_table) + 1 /\ Len(file_table') = Len(file_table) + 1
        /\ DOMAIN file_table = 1 .. Len(file_table) /\ Len(file_table) \in Nat
        /\ \A i \in 1 .. Len(file_table) : file_table'[i] = file_table[i]
    BY <1>3 DEF ReadFile, IInv, TypeOK
  <2>2. file_table' # <<>> /\ pos' = 1 /\ phase' = "read" /\ visited' = visited
    BY <1>3, <2>1 DEF ReadFile
  <2>3. \A i \in DOMAIN file_table : UsedBy(file_table[i]) \subseteq visited
    BY <1>3 DEF ReadFile, IInv, UsesVisited
  <2>4. ASSUME NEW i \in DOMAIN file_table', i # Len(file_table') PROVE UsedBy(file_table'[i]) \subseteq visited'
    <3>1. i \in DOMAIN file_table /\ file_table'[i] = file_table[i]
      BY <2>1, <2>4
    <3> QED BY <2>2, <2>3, <3>1
  <2>5. \A i \in DOMAIN file_table' : i # Len(file_table') => (UsedBy(file_table[i]) \subseteq visited)'
    BY <1>1, <2>4 DEF UsedBy, Statements, IsUse
  <2>6. 1 .. pos' - 1 = {}
    BY <2>2
  <2> QED BY <2>2, <2>5, <2>6 DEF UsesVisited
<1>4. CASE FollowUse \/ MergeTemplate \/ MergeOther
  <2>1. /\ phase = "read" /\ phase' = "read" /\ file_table' = file_table /\ pos' = pos + 1
        /\ Current' = Current /\ visited \subseteq visited' /\ pos \in Nat \ {0}
    BY <1>4 DEF FollowUse, MergeTemplate, MergeOther, Reads, Enqueue, Current, IInv, TypeOK
  <2>2. IsUse(files[Current].stmts[pos]) => PathOf[files[Current].stmts[pos].namespace] \in visited'
    BY <1>4 DEF FollowUse, MergeTemplate, MergeOther, Reads, Enqueue, IsUse, Stmt
  <2>3. ASSUME NEW k \in 1 .. pos' - 1, k \in DOMAIN files'[Current'].stmts, IsUse(files'[Current'].stmts[k])
        PROVE  PathOf[files'[Current'].stmts[k].namespace] \in visited'
    <3>1. CASE k = pos
      BY <1>1, <2>1, <2>2, <2>3, <3>1 DEF IsUse
    <3>2. CASE k # pos
      BY <1>1, <2>1, <2>3, <3>2 DEF IInv, UsesVisited, IsUse
    <3> QED BY <3>1, <3>2
  <2> QED BY <1>1, <2>1, <2>3 DEF IInv, UsesVisited, IsUse
<1>5. CASE EndOfFile
  <2>1. file_table # <<>> /\ visited' = visited /\ file_table' = file_table /\ phase' = "walk" /\ pos \in Nat
    BY <1>5 DEF EndOfFile, IInv, UsesVisited, TypeOK
  <2>2. \A k \in DOMAIN files[Current].stmts : k \in 1 .. pos - 1
    BY <1>5, <2>1, CurrentTyped DEF EndOfFile, IInv
  <2>3. UsedBy(Current) \subseteq visited
    <3>1. Current \in DOMAIN files
      BY <2>1, CurrentTyped DEF IInv
    <3> QED BY <1>5, <2>2, <3>1 DEF EndOfFile, IInv, UsesVisited, UsedBy, Statements
  <2> QED BY <1>1, <1>5, <2>1, <2>3 DEF EndOfFile, IInv, UsesVisited, Current
<1>6. CASE UNCHANGED vars
  BY <1>1, <1>6 DEF vars, IInv, UsesVisited, Current
<1> QED BY <1>2, <1>3, <1>4, <1>5, <1>6 DEF Next

LEMMA InitInv == Init => IInv
BY TypeInit DEF Init, IInv, Partition, UsesVisited, OnlyReachable, Phases, Read, Reported, ElementsOf, NoRepeat

LEMMA InvariantStep == IInv /\ [Next]_vars => IInv'
BY TypeStep, PartitionStep, UsesVisitedStep, OnlyReachableStep, PhasesStep DEF IInv, UsesVisited

LEMMA Invariant == Spec => []IInv
BY InitInv, InvariantStep, PTL DEF Spec

-----------------------------------------------------------------------------

\* The tables of the walk keep their shape, and file indices stay inside the table
THEOREM TypeCorrect == Spec => []TypeOK
<1>1. IInv => TypeOK
  BY DEF IInv
<1> QED BY <1>1, Invariant, PTL

\* No file is read twice, in whatever circle files use each other
THEOREM FilesReadOnce == Spec => []ReadOnce
<1>1. IInv => ReadOnce
  BY DEF IInv, Partition, NoRepeat, ReadOnce
<1> QED BY <1>1, Invariant, PTL

\* The files read are the reachable ones that exist, the files reported missing
\* the reachable ones that do not
THEOREM WalkIsComplete == Spec => []CompleteWhenDone
<1>1. IInv => CompleteWhenDone
  <2> SUFFICES ASSUME IInv, phase = "done", entry \in DOMAIN files
               PROVE  Read = Reachable \cap DOMAIN files /\ Reported = Reachable \ DOMAIN files
    BY DEF CompleteWhenDone, Read, Reported, ElementsOf
  <2>1. visited = Read \cup Reported /\ entry \in visited
    BY DEF IInv, Partition, Phases, ElementsOf
  <2>2. Read \subseteq DOMAIN files /\ Reported \cap DOMAIN files = {}
    BY ElementType DEF IInv, Partition, TypeOK, Read, ElementsOf
  <2>3. ASSUME NEW f \in visited PROVE UsedBy(f) \subseteq visited
    <3>1. CASE f \in Read
      BY <3>1 DEF IInv, UsesVisited, Read, ElementsOf
    <3>2. CASE f \in Reported
      BY <2>2, <3>2 DEF UsedBy, Statements
    <3> QED BY <2>1, <3>1, <3>2
  <2>4. Closed(visited) /\ visited \in SUBSET Path
    BY <2>1, <2>3 DEF Closed, IInv, TypeOK
  <2>5. visited = Reachable
    BY <2>4 DEF Reachable, IInv, OnlyReachable
  <2> QED BY <2>1, <2>2, <2>5
<1> QED BY <1>1, Invariant, PTL

-----------------------------------------------------------------------------
(* The walk implements UseClosure.                                         *)

\* Settled files are those read or reported, but for the one being read
LEMMA SettledFiles ==
  IInv => /\ phase # "read" => Settled = Read \cup Reported
          /\ phase = "read" => /\ Settled = (Read \ {Current}) \cup Reported
                               /\ Current \in visited \ Settled
<1> SUFFICES ASSUME IInv
             PROVE  /\ phase # "read" => Settled = Read \cup Reported
                    /\ phase = "read" => /\ Settled = (Read \ {Current}) \cup Reported
                                         /\ Current \in visited \ Settled
  OBVIOUS
<1>1. phase # "read" => Settled = Read \cup Reported
  BY DEF Settled, Reading, Read, Reported, ElementsOf
<1>2. ASSUME phase = "read"
      PROVE  Settled = (Read \ {Current}) \cup Reported /\ Current \in visited \ Settled
  <2>1. /\ Len(file_table) \in DOMAIN file_table
        /\ Current \in DOMAIN files /\ Current = file_table[Len(file_table)]
    BY <1>2, CurrentTyped DEF IInv, UsesVisited, Current
  <2>2. Current \in Read /\ Current \in visited /\ Current \notin Reported
    BY <2>1 DEF IInv, Partition, Read, ElementsOf
  <2>3. \A i \in DOMAIN file_table : file_table[i] = Current <=> i = Len(file_table)
    BY <2>1 DEF IInv, Partition, NoRepeat
  <2>4. Settled = (Read \ {Current}) \cup Reported
    BY <1>2, <2>3 DEF Settled, Reading, Read, Reported, ElementsOf
  <2> QED BY <2>2, <2>4
<1> QED BY <1>1, <1>2

LEMMA ClosureInit == Init => Closure!Init
<1> SUFFICES ASSUME Init PROVE Closure!Init
  OBVIOUS
<1>1. TypeOK
  BY TypeInit
<1>2. [f \in Path |-> UsedBy(f)] \in [Path -> SUBSET Path]
  BY <1>1, UsesTyped
<1>3. Settled = {}
  BY DEF Init, Settled
<1> QED BY <1>1, <1>2, <1>3 DEF Closure!Init, Init, TypeOK

\* Every step of the walk is a step of the closure or none
LEMMA ClosureStep == IInv /\ IInv' /\ [Next]_vars => [Closure!Next]_Closure!vars
<1> SUFFICES ASSUME IInv, IInv', [Next]_vars PROVE [Closure!Next]_Closure!vars
  OBVIOUS
<1> DEFINE U == [f \in Path |-> UsedBy(f)]
<1>1. entry' = entry /\ files' = files /\ U' = U
  BY ArgumentsStay DEF UsedBy, Statements, IsUse
<1>2. ASSUME visited' = visited, Settled' = Settled PROVE UNCHANGED Closure!vars
  BY <1>1, <1>2 DEF Closure!vars
<1>3. /\ phase' # "read" => Settled' = Read' \cup Reported'
      /\ phase' = "read" => Settled' = (Read' \ {Current'}) \cup Reported'
  <2>1. (/\ phase # "read" => Settled = Read \cup Reported
         /\ phase = "read" => /\ Settled = (Read \ {Current}) \cup Reported
                              /\ Current \in visited \ Settled)'
    BY SettledFiles, PTL
  <2> QED BY <2>1
<1>4. ASSUME NEW f \in visited \ Settled, UsedBy(f) \subseteq visited, visited' = visited,
             Settled' = Settled \cup {f}
      PROVE  Closure!Next
  <2>1. f \in Path /\ U[f] \subseteq visited
    BY <1>4 DEF IInv, TypeOK
  <2> QED BY <1>1, <1>4, <2>1 DEF Closure!Next, Closure!Settle
<1>5. CASE EntryMissing
  <2>1. Read' = Read /\ Reported' = Reported /\ phase # "read" /\ phase' # "read" /\ visited' = visited
    BY <1>5 DEF EntryMissing, Read, Reported, IInv, Phases
  <2> QED BY <1>2, <1>3, <2>1, SettledFiles
<1>6. CASE Begin
  <2>1. Read' = Read /\ Reported' = Reported /\ phase # "read" /\ phase' # "read"
    BY <1>6 DEF Begin, Read, Reported
  <2>2. Settled' = Settled
    BY <1>3, <2>1, SettledFiles
  <2>3. visited = {} /\ visited' = {entry}
    BY <1>6 DEF Begin, IInv, Phases
  <2> QED BY <1>1, <2>2, <2>3 DEF Closure!Next, Closure!Begin
<1>7. CASE MissingFile
  <2>1. Head(queue) \in ElementsOf(queue)
    BY <1>7, TailElements DEF MissingFile, IInv, Partition, TypeOK
  <2>2. Reported' = Reported \cup {Head(queue)} /\ Read' = Read
    BY <1>7, NewError DEF MissingFile, Read
  <2>3. Settled = Read \cup Reported /\ Settled' = Settled \cup {Head(queue)}
    BY <1>3, <1>7, <2>2, SettledFiles DEF MissingFile
  <2>4. Head(queue) \in visited \ Settled /\ UsedBy(Head(queue)) = {}
    BY <1>7, <2>1, <2>3 DEF MissingFile, IInv, Partition, UsedBy, Statements
  <2> QED BY <1>4, <1>7, <2>3, <2>4 DEF MissingFile
<1>8. CASE ReadFile
  <2>1. Head(queue) \in ElementsOf(queue)
    BY <1>8, TailElements DEF ReadFile, IInv, Partition, TypeOK
  <2>2. Current' = Head(queue) /\ Read' = Read \cup {Head(queue)}
    BY <1>8, AppendElements DEF ReadFile, Current, Read, IInv, TypeOK
  <2>3. Reported' = Reported
    BY <1>8, ReadFileReports
  <2>4. Head(queue) \notin Read \cup Reported
    BY <2>1 DEF IInv, Partition
  <2>5. Settled' = Settled
    BY <1>3, <1>8, <2>2, <2>3, <2>4, SettledFiles DEF ReadFile
  <2> QED BY <1>2, <1>8, <2>5 DEF ReadFile
<1>9. ASSUME FollowUse \/ MergeTemplate \/ MergeOther
      PROVE  Settled' = Settled
  <2>1. phase = "read" /\ phase' = "read" /\ Current' = Current /\ Read' = Read
    BY <1>9 DEF FollowUse, MergeTemplate, MergeOther, Reads, Current, Read
  <2>2. Reported' = Reported
    <3>1. CASE errors' = errors
      BY <3>1 DEF Reported
    <3>2. CASE errors' = errors \cup {[kind |-> "duplicate", path |-> Current]}
      BY <3>2, NewError
    <3> QED BY <1>9, <3>1, <3>2 DEF FollowUse, MergeTemplate, MergeOther, Define
  <2> QED BY <1>3, <2>1, <2>2, SettledFiles
<1>10. CASE FollowUse
  <2> DEFINE g == PathOf[Stmt.namespace]
  <2>1. CASE g \in visited
    BY <1>2, <1>9, <1>10, <2>1 DEF FollowUse, Enqueue
  <2>2. CASE g \notin visited
    <3>1. visited' = visited \cup {g}
      BY <1>10, <2>2 DEF FollowUse, Enqueue
    <3>2. Current \in visited \ Settled /\ Current \in Path
      BY <1>10, SettledFiles DEF FollowUse, Reads, IInv, TypeOK
    <3>3. g \in U[Current]
      BY <1>10, <3>2, FollowedUse DEF FollowUse
    <3> QED BY <1>1, <1>9, <1>10, <3>1, <3>2, <3>3 DEF Closure!Next, Closure!Find
  <2> QED BY <2>1, <2>2
<1>11. CASE MergeTemplate \/ MergeOther
  BY <1>2, <1>9, <1>11 DEF MergeTemplate, MergeOther
<1>12. CASE EndOfFile
  <2>1. Read' = Read /\ Reported' = Reported /\ phase = "read" /\ phase' # "read" /\ visited' = visited
    BY <1>12 DEF EndOfFile, Read, Reported
  <2>2. Current \in visited \ Settled /\ Settled = (Read \ {Current}) \cup Reported
    BY <2>1, SettledFiles
  <2>3. file_table # <<>> /\ Current \in Read
    BY <2>1, CurrentTyped DEF IInv, UsesVisited, Current, Read, ElementsOf
  <2>4. Settled' = Settled \cup {Current}
    BY <1>3, <2>1, <2>2, <2>3
  <2>5. UsedBy(Current) \subseteq visited
    <3>1. Len(file_table) \in DOMAIN file_table /\ file_table' = file_table
      BY <1>12, <2>3, CurrentTyped DEF EndOfFile, IInv
    <3>2. UsedBy(file_table[Len(file_table)])' \subseteq visited'
      BY <2>1, <3>1 DEF IInv, UsesVisited
    <3> QED BY <1>1, <2>1, <3>1, <3>2 DEF Current, UsedBy, Statements, IsUse
  <2> QED BY <1>4, <2>1, <2>2, <2>4, <2>5
<1>13. CASE Finish \/ UNCHANGED vars
  BY <1>2, <1>13 DEF Finish, vars, Settled, Reading
<1> QED BY <1>5, <1>6, <1>7, <1>8, <1>10, <1>11, <1>12, <1>13 DEF Next

\* compile_project follows `use' statements as the compiler documentation says
THEOREM ImplementsClosure == Spec => ClosureSpec
<1>1. Spec => Closure!Init /\ [][Closure!Next]_Closure!vars
  BY ClosureInit, ClosureStep, Invariant, PTL DEF Spec
<1> QED BY <1>1 DEF ClosureSpec, Closure!Spec

-----------------------------------------------------------------------------
(* Induction, in the form of sets, and the levels of the `use' graph.      *)

LEMMA LeastNatural ==
  ASSUME NEW T, T \subseteq Nat, T # {}
  PROVE  \E m \in T : \A n \in T : m <= n
<1>1. IsWellFoundedOn(OpToRel(<, Nat), Nat)
  BY NatLessThanWellFounded
<1>2. PICK m \in T : \A n \in T : <<n, m>> \notin OpToRel(<, Nat)
  BY <1>1, WFMin
<1>3. m \in Nat /\ \A n \in T : n \in Nat /\ ~ (n < m)
  BY <1>2 DEF OpToRel
<1> QED BY <1>3

LEMMA SetInduction ==
  ASSUME NEW S, 0 \in S, \A n \in Nat : n \in S => n + 1 \in S
  PROVE  Nat \subseteq S
<1> SUFFICES ASSUME Nat \ S # {} PROVE FALSE
  OBVIOUS
<1>1. PICK m \in Nat \ S : \A n \in Nat \ S : m <= n
  BY LeastNatural
<1>2. m # 0 /\ m - 1 \in Nat /\ m - 1 \in S
  BY <1>1
<1> QED BY <1>1, <1>2

\* What is one `use' step further than X
Wider(X) == X \cup UNION {UsedBy(f) : f \in X}

LEMMA WithinUnfolds ==
  ASSUME NEW N \in Nat
  PROVE  Within(N) = [n \in 0 .. N |-> IF n = 0 THEN {entry} ELSE Wider(Within(N)[n - 1])]
<1> DEFINE S == {k \in Nat : \E w : w = [n \in 0 .. k |-> IF n = 0 THEN {entry} ELSE Wider(w[n - 1])]}
<1>1. 0 \in S
  <2> DEFINE w == [n \in 0 .. 0 |-> {entry}]
  <2>1. w = [n \in 0 .. 0 |-> IF n = 0 THEN {entry} ELSE Wider(w[n - 1])]
    OBVIOUS
  <2> HIDE DEF w
  <2> QED BY <2>1
<1>2. ASSUME NEW k \in Nat, k \in S PROVE k + 1 \in S
  <2>1. PICK w : w = [n \in 0 .. k |-> IF n = 0 THEN {entry} ELSE Wider(w[n - 1])]
    BY <1>2
  <2> DEFINE v == [n \in 0 .. k + 1 |-> IF n = k + 1 THEN Wider(w[k]) ELSE w[n]]
  <2>2. v = [n \in 0 .. k + 1 |-> v[n]] /\ v[k + 1] = Wider(w[k]) /\ \A n \in 0 .. k : v[n] = w[n]
    OBVIOUS
  <2> HIDE DEF v
  <2>3. \A n \in 0 .. k + 1 : v[n] = IF n = 0 THEN {entry} ELSE Wider(v[n - 1])
    <3>1. \A n \in 0 .. k : w[n] = IF n = 0 THEN {entry} ELSE Wider(w[n - 1])
      BY <2>1
    <3>2. ASSUME NEW n \in 0 .. k PROVE v[n] = IF n = 0 THEN {entry} ELSE Wider(v[n - 1])
      <4>1. CASE n = 0
        BY <2>2, <3>1, <4>1
      <4>2. CASE n # 0
        <5>1. n - 1 \in 0 .. k
          BY <4>2
        <5>2. v[n - 1] = w[n - 1] /\ v[n] = w[n]
          BY <2>2, <5>1
        <5> QED BY <3>1, <4>2, <5>2
      <4> QED BY <4>1, <4>2
    <3>3. v[k + 1] = Wider(v[k])
      BY <2>2
    <3> QED BY <3>2, <3>3
  <2>4. v = [n \in 0 .. k + 1 |-> IF n = 0 THEN {entry} ELSE Wider(v[n - 1])]
    BY <2>2, <2>3
  <2> QED BY <2>4
<1> HIDE DEF S
<1>3. N \in S
  BY <1>1, <1>2, SetInduction
<1>4. \E w : w = [n \in 0 .. N |-> IF n = 0 THEN {entry} ELSE Wider(w[n - 1])]
  BY <1>3 DEF S
<1> QED BY <1>4 DEF Within, Wider

\* The files at most n steps away
Level(n) == Within(n)[n]

LEMMA WithinLevels == ASSUME NEW N \in Nat, NEW n \in 0 .. N PROVE Within(N)[n] = Level(n)
<1> DEFINE S == {k \in Nat : \A M \in Nat : k <= M => Within(M)[k] = Level(k)}
<1>1. 0 \in S
  <2>1. \A M \in Nat : Within(M)[0] = {entry}
    BY WithinUnfolds
  <2> QED BY <2>1 DEF Level
<1>2. ASSUME NEW k \in Nat, k \in S PROVE k + 1 \in S
  <2>1. ASSUME NEW M \in Nat, k + 1 <= M PROVE Within(M)[k + 1] = Wider(Within(M)[k])
    BY <2>1, WithinUnfolds
  <2>2. ASSUME NEW M \in Nat, k + 1 <= M PROVE Within(M)[k + 1] = Wider(Level(k))
    BY <1>2, <2>1, <2>2
  <2> QED BY <2>2 DEF Level
<1> HIDE DEF S
<1>3. n \in S
  BY <1>1, <1>2, SetInduction
<1> QED BY <1>3 DEF S

LevelByLevel == Level(0) = {entry} /\ \A n \in Nat : Level(n + 1) = Wider(Level(n))

LEMMA Levels == LevelByLevel
<1>1. Level(0) = {entry}
  BY WithinUnfolds DEF Level
<1>2. ASSUME NEW n \in Nat PROVE Level(n + 1) = Wider(Level(n))
  <2>1. Within(n + 1)[n + 1] = Wider(Within(n + 1)[n])
    BY WithinUnfolds
  <2> QED BY <2>1, WithinLevels DEF Level
<1> QED BY <1>1, <1>2 DEF LevelByLevel

-----------------------------------------------------------------------------
(* Breadth first.                                                          *)

\* x is at most as far from the entry as y; at most one step farther
NoFarther(x, y) == \A n \in Nat : y \in Level(n) => x \in Level(n)
OneFarther(x, y) == \A n \in Nat : y \in Level(n) => x \in Level(n + 1)

\* What has been read is in order, what waits comes after it, and is at most
\* one step beyond the file that was read last
InOrder(table, waiting) ==
  /\ \A i, j \in DOMAIN table : i < j => NoFarther(table[i], table[j])
  /\ \A i \in DOMAIN table, k \in DOMAIN waiting : NoFarther(table[i], waiting[k])
  /\ \A k, l \in DOMAIN waiting : k < l => NoFarther(waiting[k], waiting[l])
  /\ table # <<>> => \A k \in DOMAIN waiting : OneFarther(waiting[k], table[Len(table)])
  /\ table = <<>> => \A k \in DOMAIN waiting : waiting[k] = entry

Ordered == InOrder(file_table, queue)

LEMMA LevelsGrow == ASSUME NEW n \in Nat PROVE Level(n) \subseteq Level(n + 1)
BY Levels DEF Wider, LevelByLevel

LEMMA EntryEverywhere == \A n \in Nat : entry \in Level(n)
<1> DEFINE S == {n \in Nat : entry \in Level(n)}
<1>1. 0 \in S /\ \A n \in Nat : n \in S => n + 1 \in S
  BY Levels DEF Wider, LevelByLevel
<1> HIDE DEF S
<1>2. Nat \subseteq S
  BY <1>1, SetInduction
<1> QED BY <1>2 DEF S

LEMMA LevelStays == ASSUME [Next]_vars, NEW n \in Nat PROVE Level(n)' = Level(n)
<1> DEFINE S == {k \in Nat : Level(k)' = Level(k)}
<1>1. /\ Level(0)' = {entry'}
      /\ \A k \in Nat : Level(k + 1)' = Wider(Level(k))'
  <2>1. LevelByLevel'
    BY Levels, PTL
  <2> QED BY <2>1 DEF LevelByLevel
<1>2. entry' = entry /\ \A f : UsedBy(f)' = UsedBy(f)
  BY ArgumentsStay
<1>3. 0 \in S
  BY <1>1, <1>2, Levels DEF LevelByLevel
<1>4. ASSUME NEW k \in Nat, k \in S PROVE k + 1 \in S
  <2>1. Wider(Level(k))' = Wider(Level(k))
    BY <1>2, <1>4 DEF Wider
  <2> QED BY <1>1, <2>1, Levels DEF LevelByLevel
<1> HIDE DEF S
<1>5. n \in S
  BY <1>3, <1>4, SetInduction
<1> QED BY <1>5 DEF S

\* As long as a file is not visited, its way from the entry passes the file
\* being read: who is n + 1 steps away has that file at most n steps away
LEMMA Unvisited ==
  ASSUME IInv, Ordered, phase = "read", NEW n \in Nat, NEW f \in Level(n), f \notin visited
  PROVE  n > 0 /\ Current \in Level(n - 1)
<1> DEFINE S == {m \in Nat : \A g \in Level(m) : g \notin visited => m > 0 /\ Current \in Level(m - 1)}
<1>1. 0 \in S
  <2>1. entry \in visited
    BY DEF IInv, Phases
  <2> QED BY <2>1, Levels DEF LevelByLevel
<1>2. ASSUME NEW m \in Nat, m \in S PROVE m + 1 \in S
  <2> SUFFICES ASSUME NEW g \in Level(m + 1), g \notin visited PROVE Current \in Level(m)
    BY <1>2
  <2>1. CASE g \in Level(m)
    <3>1. m > 0 /\ Current \in Level(m - 1)
      BY <1>2, <2>1
    <3>2. Level(m - 1) \subseteq Level((m - 1) + 1) /\ (m - 1) + 1 = m
      BY <3>1, LevelsGrow
    <3> QED BY <3>1, <3>2
  <2>2. CASE g \notin Level(m)
    <3>1. PICK h \in Level(m) : g \in UsedBy(h)
      BY <2>2, Levels DEF Wider, LevelByLevel
    <3>2. CASE h \notin visited
      <4>1. m > 0 /\ Current \in Level(m - 1)
        BY <1>2, <3>2
      <4>2. Level(m - 1) \subseteq Level((m - 1) + 1) /\ (m - 1) + 1 = m
        BY <4>1, LevelsGrow
      <4> QED BY <4>1, <4>2
    <3>3. CASE h \in ElementsOf(queue)
      <4>1. file_table # <<>>
        BY DEF IInv, UsesVisited
      <4>2. PICK k \in DOMAIN queue : h = queue[k]
        BY <3>3 DEF ElementsOf
      <4>3. NoFarther(Current, queue[k])
        BY <4>1, CurrentTyped DEF Ordered, InOrder, Current, IInv
      <4> QED BY <4>2, <4>3 DEF NoFarther
    <3>4. CASE h \in Read
      <4>1. PICK i \in DOMAIN file_table : h = file_table[i]
        BY <3>4 DEF Read, ElementsOf
      <4>2. i = Len(file_table)
        BY <3>1, <4>1 DEF IInv, UsesVisited
      <4> QED BY <4>1, <4>2 DEF Current
    <3>5. CASE h \in Reported
      BY <3>1, <3>5 DEF IInv, Partition, UsedBy, Statements
    <3> QED BY <3>2, <3>3, <3>4, <3>5 DEF IInv, Partition
  <2> QED BY <2>1, <2>2
<1> HIDE DEF S
<1>3. n \in S
  BY <1>1, <1>2, SetInduction
<1> QED BY <1>3 DEF S

LEMMA OrderStays == ASSUME [Next]_vars, InOrder(file_table', queue') PROVE Ordered'
<1>1. \A n \in Nat : Level(n)' = Level(n)
  BY LevelStays
<1>2. \A x, y : (NoFarther(x, y) <=> NoFarther(x, y)') /\ (OneFarther(x, y) <=> OneFarther(x, y)')
  BY <1>1 DEF NoFarther, OneFarther
<1>3. entry' = entry
  BY ArgumentsStay
<1> QED BY <1>2, <1>3 DEF Ordered, InOrder

\* Taking a file from the queue, to read it or to report it
LEMMA HeadOrdered ==
  ASSUME IInv, Ordered, queue # <<>>
  PROVE  /\ InOrder(Append(file_table, Head(queue)), Tail(queue))
         /\ file_table # <<>> => InOrder(file_table, Tail(queue))
<1> DEFINE N == Len(file_table)
           T == Append(file_table, Head(queue))
<1>1. /\ file_table \in Seq(DOMAIN files) /\ queue \in Seq(Path)
  BY DEF IInv, TypeOK
<1>2. /\ N \in Nat /\ DOMAIN file_table = 1 .. N /\ DOMAIN T = 1 .. N + 1 /\ Len(T) = N + 1 /\ T # <<>>
      /\ \A i \in 1 .. N : T[i] = file_table[i]
      /\ T[N + 1] = queue[1]
  BY <1>1
<1>3. /\ Len(queue) \in Nat \ {0} /\ DOMAIN queue = 1 .. Len(queue) /\ DOMAIN Tail(queue) = 1 .. Len(queue) - 1
      /\ \A k \in 1 .. Len(queue) - 1 : Tail(queue)[k] = queue[k + 1]
  BY <1>1
<1>4. \A k \in DOMAIN Tail(queue) : 1 \in DOMAIN queue /\ k + 1 \in DOMAIN queue /\ 1 < k + 1
  BY <1>3
<1> HIDE DEF T, N
<1>5. ASSUME NEW i \in DOMAIN T, NEW j \in DOMAIN T, i < j PROVE NoFarther(T[i], T[j])
  <2>1. i \in DOMAIN file_table /\ T[i] = file_table[i]
    BY <1>2, <1>5
  <2>2. CASE j = N + 1
    BY <1>2, <1>3, <2>1, <2>2 DEF Ordered, InOrder
  <2>3. CASE j # N + 1
    BY <1>2, <1>5, <2>1, <2>3 DEF Ordered, InOrder
  <2> QED BY <2>2, <2>3
<1>6. ASSUME NEW i \in DOMAIN T, NEW k \in DOMAIN Tail(queue) PROVE NoFarther(T[i], Tail(queue)[k])
  <2>1. CASE i = N + 1
    BY <1>2, <1>3, <1>4, <2>1 DEF Ordered, InOrder
  <2>2. CASE i # N + 1
    BY <1>2, <1>3, <1>4, <2>2 DEF Ordered, InOrder
  <2> QED BY <2>1, <2>2
<1>7. ASSUME NEW k \in DOMAIN Tail(queue), NEW l \in DOMAIN Tail(queue), k < l
      PROVE  NoFarther(Tail(queue)[k], Tail(queue)[l])
  BY <1>3, <1>4, <1>7 DEF Ordered, InOrder
<1>8. ASSUME NEW k \in DOMAIN Tail(queue) PROVE OneFarther(Tail(queue)[k], queue[1])
  <2>1. CASE file_table = <<>>
    BY <1>3, <1>4, <2>1, EntryEverywhere DEF Ordered, InOrder, OneFarther
  <2>2. CASE file_table # <<>>
    <3>1. N \in DOMAIN file_table
      BY <1>1, <2>2, LastElement DEF N
    <3>2. NoFarther(file_table[N], queue[1]) /\ OneFarther(queue[k + 1], file_table[N])
      BY <1>4, <2>2, <3>1 DEF Ordered, InOrder, N
    <3> QED BY <1>3, <3>2 DEF NoFarther, OneFarther
  <2> QED BY <2>1, <2>2
<1>9. InOrder(T, Tail(queue))
  BY <1>2, <1>5, <1>6, <1>7, <1>8 DEF InOrder
<1>10. file_table # <<>> => InOrder(file_table, Tail(queue))
  <2> SUFFICES ASSUME file_table # <<>> PROVE InOrder(file_table, Tail(queue))
    OBVIOUS
  <2>1. \A k \in DOMAIN Tail(queue) : Tail(queue)[k] = queue[k + 1] /\ k + 1 \in DOMAIN queue
    BY <1>3, <1>4
  <2> QED BY <1>7, <2>1 DEF Ordered, InOrder
<1> QED BY <1>9, <1>10 DEF T

\* A file that is found waits behind the others
LEMMA FoundOrdered ==
  ASSUME IInv, Ordered, phase = "read", NEW g \in UsedBy(Current), g \notin visited, g \in Path
  PROVE  InOrder(file_table, Append(queue, g))
<1> DEFINE Q == Append(queue, g)
<1>1. file_table # <<>> /\ Len(file_table) \in DOMAIN file_table /\ Current = file_table[Len(file_table)]
  BY CurrentTyped DEF IInv, UsesVisited, Current
<1>2. file_table \in Seq(DOMAIN files) /\ queue \in Seq(Path)
  BY DEF IInv, TypeOK
<1>3. /\ DOMAIN file_table = 1 .. Len(file_table) /\ DOMAIN queue = 1 .. Len(queue) /\ Len(queue) \in Nat
      /\ DOMAIN Q = 1 .. Len(queue) + 1 /\ Q[Len(queue) + 1] = g
      /\ \A k \in 1 .. Len(queue) : Q[k] = queue[k]
  BY <1>2
<1> HIDE DEF Q
<1>4. ASSUME NEW n \in Nat, g \in Level(n) PROVE Current \in Level(n) /\ \A k \in DOMAIN queue : queue[k] \in Level(n)
  <2>1. n > 0 /\ Current \in Level(n - 1)
    BY <1>4, Unvisited
  <2>2. n - 1 \in Nat /\ (n - 1) + 1 = n
    BY <2>1
  <2>3. Current \in Level(n)
    BY <2>1, <2>2, LevelsGrow
  <2>4. \A k \in DOMAIN queue : OneFarther(queue[k], Current)
    BY <1>1 DEF Ordered, InOrder
  <2> QED BY <2>1, <2>2, <2>3, <2>4 DEF OneFarther
<1>5. ASSUME NEW i \in DOMAIN file_table PROVE NoFarther(file_table[i], g)
  <2>1. \A n \in Nat : Current \in Level(n) => file_table[i] \in Level(n)
    <3>1. i = Len(file_table) \/ i < Len(file_table)
      BY <1>1, <1>3
    <3> QED BY <1>1, <3>1 DEF Ordered, InOrder, NoFarther
  <2> QED BY <1>4, <2>1 DEF NoFarther
<1>6. \A k \in DOMAIN queue : NoFarther(queue[k], g)
  BY <1>4 DEF NoFarther
<1>7. OneFarther(g, Current)
  BY Levels DEF LevelByLevel, Wider, OneFarther
<1>8. \A i \in DOMAIN file_table, k \in DOMAIN Q : NoFarther(file_table[i], Q[k])
  BY <1>3, <1>5 DEF Ordered, InOrder
<1>9. ASSUME NEW k \in DOMAIN Q, NEW l \in DOMAIN Q, k < l PROVE NoFarther(Q[k], Q[l])
  <2>1. k \in DOMAIN queue /\ Q[k] = queue[k]
    BY <1>3, <1>9
  <2>2. CASE l = Len(queue) + 1
    BY <1>3, <1>6, <2>1, <2>2
  <2>3. CASE l # Len(queue) + 1
    BY <1>3, <1>9, <2>1, <2>3 DEF Ordered, InOrder
  <2> QED BY <2>2, <2>3
<1>10. ASSUME NEW k \in DOMAIN Q PROVE OneFarther(Q[k], Current)
  <2>1. CASE k = Len(queue) + 1
    BY <1>3, <1>7, <2>1
  <2>2. CASE k # Len(queue) + 1
    BY <1>1, <1>3, <2>2 DEF Ordered, InOrder
  <2> QED BY <2>1, <2>2
<1>11. InOrder(file_table, Q)
  BY <1>1, <1>8, <1>9, <1>10 DEF Ordered, InOrder
<1> QED BY <1>11 DEF Q

LEMMA OrderedStep == IInv /\ Ordered /\ [Next]_vars => Ordered'
<1> SUFFICES ASSUME IInv, Ordered, [Next]_vars PROVE InOrder(file_table', queue')
  BY OrderStays
<1>1. CASE Begin
  <2>1. file_table' = <<>> /\ queue' = <<entry>>
    BY <1>1 DEF Begin, IInv, Phases
  <2> QED BY <2>1 DEF InOrder
<1>2. CASE MissingFile
  <2>1. file_table # <<>>
    <3> SUFFICES ASSUME file_table = <<>> PROVE FALSE
      OBVIOUS
    <3>1. Head(queue) \in ElementsOf(queue)
      BY <1>2, TailElements DEF MissingFile, IInv, Partition, TypeOK
    <3>2. Head(queue) = entry
      BY <3>1 DEF Ordered, InOrder, ElementsOf
    <3>3. entry \in DOMAIN files
      BY <1>2 DEF MissingFile, IInv, Phases
    <3> QED BY <1>2, <3>2, <3>3 DEF MissingFile
  <2> QED BY <1>2, <2>1, HeadOrdered DEF MissingFile
<1>3. CASE ReadFile
  BY <1>3, HeadOrdered DEF ReadFile
<1>4. CASE FollowUse
  <2>1. phase = "read" /\ file_table' = file_table
    BY <1>4 DEF FollowUse, Reads
  <2>2. CASE PathOf[Stmt.namespace] \in visited
    BY <1>4, <2>1, <2>2 DEF FollowUse, Enqueue, Ordered
  <2>3. CASE PathOf[Stmt.namespace] \notin visited
    <3>1. queue' = Append(queue, PathOf[Stmt.namespace])
      BY <1>4, <2>3 DEF FollowUse, Enqueue
    <3> QED BY <1>4, <2>1, <2>3, <3>1, FollowedUse, FoundOrdered DEF FollowUse
  <2> QED BY <2>2, <2>3
<1>5. CASE UNCHANGED <<file_table, queue>>
  BY <1>5 DEF Ordered
<1> QED BY <1>1, <1>2, <1>3, <1>4, <1>5 DEF Next, vars, EntryMissing, MergeTemplate, MergeOther, Reads,
           EndOfFile, Finish

\* The files are read in breadth-first order, for every project: one that is
\* read earlier is not farther from the entry, by any number of steps
THEOREM WalkIsBreadthFirst == Spec => []BreadthFirst
<1>1. Init => Ordered
  BY DEF Init, Ordered, InOrder
<1>2. Spec => [](IInv /\ Ordered)
  BY <1>1, InitInv, Invariant, OrderedStep, PTL DEF Spec
<1>3. IInv /\ Ordered => BreadthFirst
  <2> SUFFICES ASSUME IInv, Ordered, NEW i \in DOMAIN file_table, NEW j \in DOMAIN file_table, i < j,
                      NEW n \in DOMAIN Within(Len(file_table)),
                      file_table[j] \in Within(Len(file_table))[n]
               PROVE  file_table[i] \in Within(Len(file_table))[n]
    BY DEF BreadthFirst
  <2>1. Len(file_table) \in Nat
    BY DEF IInv, TypeOK
  <2>2. n \in 0 .. Len(file_table)
    BY <2>1, WithinUnfolds
  <2>3. Within(Len(file_table))[n] = Level(n)
    BY <2>1, <2>2, WithinLevels
  <2> QED BY <2>1, <2>2, <2>3 DEF Ordered, InOrder, NoFarther
<1> QED BY <1>2, <1>3, PTL

-----------------------------------------------------------------------------
(* Provenance: the declarations that have been passed stand in the merged  *)
(* program, each at its place.                                             *)

StmtAt(x) == files[file_table[x[1]]].stmts[x[2]]

Laid == {x \in Declarations : phase = "read" /\ x[1] = Len(file_table) => x[2] < pos}

Merged ==
  /\ IsFiniteSet(Laid)
  /\ Len(merged) = Cardinality(Laid)
  /\ \A k \in DOMAIN merged : \E x \in Laid : Place(x) = k
  /\ \A x \in Laid : merged[Place(x)] = [stmt |-> StmtAt(x), file |-> (x[1] - 1) % IndexRange]

\* What is in the set
DeclarationsAre ==
  \A x : x \in Declarations <=>
           /\ x = <<x[1], x[2]>> /\ x[1] \in DOMAIN file_table
           /\ x[2] \in DOMAIN files[file_table[x[1]]].stmts /\ ~ IsUse(StmtAt(x))

LEMMA DeclarationForm == DeclarationsAre
<1> SUFFICES ASSUME NEW x
             PROVE  x \in Declarations <=>
                      /\ x = <<x[1], x[2]>> /\ x[1] \in DOMAIN file_table
                      /\ x[2] \in DOMAIN files[file_table[x[1]]].stmts /\ ~ IsUse(StmtAt(x))
  BY DEF DeclarationsAre
<1>1. ASSUME x \in Declarations
      PROVE  /\ x = <<x[1], x[2]>> /\ x[1] \in DOMAIN file_table
             /\ x[2] \in DOMAIN files[file_table[x[1]]].stmts /\ ~ IsUse(StmtAt(x))
  <2>1. PICK i \in DOMAIN file_table :
          x \in {<<i, k>> : k \in {j \in DOMAIN files[file_table[i]].stmts : ~ IsUse(files[file_table[i]].stmts[j])}}
    BY <1>1 DEF Declarations
  <2>2. PICK k \in DOMAIN files[file_table[i]].stmts : x = <<i, k>> /\ ~ IsUse(files[file_table[i]].stmts[k])
    BY <2>1
  <2>3. x[1] = i /\ x[2] = k
    BY <2>2
  <2> QED BY <2>2, <2>3 DEF StmtAt
<1>2. ASSUME x = <<x[1], x[2]>>, x[1] \in DOMAIN file_table,
             x[2] \in DOMAIN files[file_table[x[1]]].stmts, ~ IsUse(StmtAt(x))
      PROVE  x \in Declarations
  <2> DEFINE i == x[1]
  <2>1. x \in {<<i, k>> : k \in {j \in DOMAIN files[file_table[i]].stmts : ~ IsUse(files[file_table[i]].stmts[j])}}
    BY <1>2 DEF StmtAt
  <2> QED BY <1>2, <2>1 DEF Declarations
<1> QED BY <1>1, <1>2

\* Positions are numbers
LEMMA DeclarationTyped ==
  ASSUME TypeOK, NEW x \in Declarations
  PROVE  /\ x = <<x[1], x[2]>> /\ x[1] \in 1 .. Len(file_table) /\ Len(file_table) \in Nat
         /\ file_table[x[1]] \in DOMAIN files
         /\ x[2] \in 1 .. Len(files[file_table[x[1]]].stmts) /\ Len(files[file_table[x[1]]].stmts) \in Nat
<1>1. file_table \in Seq(DOMAIN files)
  BY DEF TypeOK
<1>2. x = <<x[1], x[2]>> /\ x[1] \in DOMAIN file_table /\ x[2] \in DOMAIN files[file_table[x[1]]].stmts
  BY DeclarationForm DEF DeclarationsAre
<1>3. file_table[x[1]] \in DOMAIN files
  BY <1>1, <1>2
<1>4. files[file_table[x[1]]].stmts \in Seq(Use \cup Declaration)
  BY <1>3, FilesTyped
<1> QED BY <1>1, <1>2, <1>3, <1>4

\* A step that neither reads a file nor passes a declaration keeps the layout
LEMMA LayoutStays ==
  ASSUME Merged, UNCHANGED <<files, file_table, merged>>, Laid' = Laid
  PROVE  Merged'
<1>1. Declarations' = Declarations
  BY DEF Declarations, IsUse
<1>2. \A x : Place(x)' = Place(x) /\ StmtAt(x)' = StmtAt(x)
  BY <1>1 DEF Place, UpToHere, StmtAt
<1> QED BY <1>2 DEF Merged

LEMMA LaidWalk ==
  ASSUME UNCHANGED <<files, file_table>>, phase # "read", phase' # "read"
  PROVE  Laid' = Laid
<1>1. Declarations' = Declarations
  BY DEF Declarations, IsUse
<1> QED BY <1>1 DEF Laid

\* A file that is opened moves no declaration that has been laid
LEMMA ReadFileLays ==
  ASSUME IInv, ReadFile
  PROVE  /\ Laid' = Laid
         /\ \A x \in Laid : /\ Place(x)' = Place(x) /\ StmtAt(x)' = StmtAt(x)
                          /\ file_table'[x[1]] = file_table[x[1]]
<1> DEFINE N == Len(file_table)
<1>1. /\ files' = files /\ phase = "walk" /\ phase' = "read" /\ pos' = 1
      /\ file_table \in Seq(DOMAIN files) /\ file_table' = Append(file_table, Head(queue))
      /\ Head(queue) \in DOMAIN files
  BY DEF ReadFile, IInv, TypeOK
<1>2. /\ N \in Nat /\ DOMAIN file_table = 1 .. N /\ DOMAIN file_table' = 1 .. N + 1 /\ Len(file_table') = N + 1
      /\ \A i \in 1 .. N : file_table'[i] = file_table[i]
  BY <1>1
<1>3. TypeOK /\ TypeOK'
  BY TypeStep DEF IInv, UsesVisited, Next
<1>4. \A x : x \in Declarations' <=>
        /\ x = <<x[1], x[2]>> /\ x[1] \in DOMAIN file_table'
        /\ x[2] \in DOMAIN files[file_table'[x[1]]].stmts /\ ~ IsUse(files[file_table'[x[1]]].stmts[x[2]])
  <2>1. DeclarationsAre'
    BY DeclarationForm, PTL
  <2> QED BY <1>1, <2>1 DEF DeclarationsAre, StmtAt, IsUse
<1>5. \A x : x \in Declarations <=> x \in Declarations' /\ x[1] # N + 1
  BY <1>2, <1>4, DeclarationForm DEF DeclarationsAre, StmtAt
<1>6. \A x \in Declarations' : x[1] \in 1 .. N + 1 /\ x[2] \in Nat \ {0}
  <2>1. ASSUME NEW x \in Declarations' PROVE x[2] \in Nat \ {0}
    <3>1. file_table'[x[1]] \in DOMAIN files
      BY <1>1, <1>3, <1>4, ElementType DEF TypeOK
    <3>2. files[file_table'[x[1]]].stmts \in Seq(Use \cup Declaration)
      BY <1>3, <3>1, FilesTyped
    <3> QED BY <1>4, <3>2
  <2> QED BY <1>2, <1>4, <2>1
<1>7. Laid = Declarations
  BY <1>1 DEF Laid
<1>8. Laid' = Declarations
  BY <1>1, <1>2, <1>5, <1>6 DEF Laid
<1>9. ASSUME NEW x \in Declarations PROVE UpToHere(x)' = UpToHere(x)
  BY <1>2, <1>5, <1>6 DEF UpToHere
<1>10. \A x \in Declarations : Place(x)' = Place(x) /\ StmtAt(x)' = StmtAt(x)
  BY <1>1, <1>2, <1>3, <1>9, DeclarationTyped DEF Place, StmtAt
<1>11. \A x \in Declarations : file_table'[x[1]] = file_table[x[1]]
  BY <1>2, <1>3, DeclarationTyped
<1> QED BY <1>7, <1>8, <1>10, <1>11

LEMMA ReadFileMerged == ASSUME IInv, Merged, ReadFile PROVE Merged'
<1>1. merged' = merged
  BY DEF ReadFile
<1> QED BY <1>1, ReadFileLays DEF Merged

LEMMA EndOfFileLays == ASSUME IInv, EndOfFile PROVE Laid' = Laid
<1>1. /\ UNCHANGED <<files, file_table>> /\ phase = "read" /\ phase' = "walk"
      /\ pos > Len(files[Current].stmts) /\ pos \in Nat
  BY DEF EndOfFile, IInv, TypeOK
<1>2. Declarations' = Declarations
  BY <1>1 DEF Declarations, IsUse
<1>3. \A x \in Declarations : x[1] = Len(file_table) => x[2] < pos
  BY <1>1, DeclarationTyped DEF Current, IInv
<1> QED BY <1>1, <1>2, <1>3 DEF Laid

\* A statement that is passed and is a declaration is the next in the layout
LEMMA ReadsLaid ==
  ASSUME IInv, NEW kind, Reads(kind)
  PROVE  /\ kind = "use" => Laid' = Laid
         /\ kind # "use" => /\ <<Len(file_table), pos>> \in Declarations \ Laid
                            /\ Laid' = Laid \cup {<<Len(file_table), pos>>}
                            /\ UpToHere(<<Len(file_table), pos>>) = Laid'
                            /\ StmtAt(<<Len(file_table), pos>>) = Stmt
<1> DEFINE N == Len(file_table)
           new == <<N, pos>>
<1>1. /\ UNCHANGED <<files, file_table>> /\ phase = "read" /\ phase' = "read" /\ pos' = pos + 1
      /\ pos \in Nat \ {0} /\ TypeOK
  BY DEF Reads, IInv, TypeOK
<1>2. /\ N \in DOMAIN file_table /\ N \in Nat /\ DOMAIN file_table = 1 .. N
      /\ pos \in DOMAIN files[Current].stmts /\ Current = file_table[N]
  BY CurrentTyped, LastElement DEF IInv, UsesVisited, Reads, TypeOK, Current
<1>3. Declarations' = Declarations
  BY <1>1 DEF Declarations, IsUse
<1>4. new[1] = N /\ new[2] = pos
  OBVIOUS
<1>5. StmtAt(new) = Stmt /\ (IsUse(Stmt) <=> kind = "use")
  BY <1>2, <1>4 DEF StmtAt, Stmt, Reads, IsUse
<1> HIDE DEF new, N
<1>6. \A x \in Declarations : /\ x = <<x[1], x[2]>> /\ x[1] \in 1 .. N /\ x[2] \in Nat
  BY <1>1, DeclarationTyped DEF N
<1>7. \A x \in Declarations : x[1] = N /\ x[2] = pos => x = new
  BY <1>6 DEF new
<1>8. /\ Laid = {x \in Declarations : x[1] = N => x[2] < pos}
      /\ Laid' = {x \in Declarations : x[1] = N => x[2] < pos + 1}
  BY <1>1, <1>3 DEF Laid, N
<1>9. new \in Declarations <=> kind # "use"
  BY <1>2, <1>4, <1>5, DeclarationForm DEF DeclarationsAre, new
<1>10. CASE kind = "use"
  <2>1. \A x \in Declarations : x[1] = N => x[2] # pos
    BY <1>7, <1>9, <1>10
  <2>2. Laid' = Laid
    BY <1>1, <1>6, <1>8, <2>1
  <2> QED BY <1>10, <2>2
<1>11. CASE kind # "use"
  <2>1. new \in Declarations \ Laid
    BY <1>1, <1>4, <1>8, <1>9, <1>11
  <2>2. Laid' = Laid \cup {new}
    BY <1>1, <1>4, <1>6, <1>7, <1>8, <2>1
  <2>3. UpToHere(new) = Laid'
    BY <1>1, <1>2, <1>4, <1>6, <1>8 DEF UpToHere
  <2> QED BY <1>5, <1>11, <2>1, <2>2, <2>3 DEF new, N
<1> QED BY <1>10, <1>11

\* The place of a declaration among those of a set that holds all before it
LEMMA PlaceInRange ==
  ASSUME TypeOK, NEW S, IsFiniteSet(S), NEW x \in Declarations, UpToHere(x) \subseteq S
  PROVE  Place(x) \in 1 .. Cardinality(S)
<1>1. x \in UpToHere(x)
  BY DeclarationTyped DEF UpToHere
<1>2. /\ IsFiniteSet(UpToHere(x)) /\ Cardinality(UpToHere(x)) <= Cardinality(S)
      /\ Cardinality(UpToHere(x)) \in Nat /\ Cardinality(S) \in Nat
  BY FS_Subset, FS_CardinalityType
<1>3. Cardinality(UpToHere(x)) # 0
  BY <1>1, <1>2, FS_EmptySet
<1> QED BY <1>2, <1>3 DEF Place

LEMMA MergeMerged ==
  ASSUME IInv, Merged, NEW kind, kind # "use", Reads(kind), Merge
  PROVE  Merged'
<1> DEFINE new == <<Len(file_table), pos>>
           row == [stmt |-> Stmt, file |-> FileIndex]
<1>1. /\ new \in Declarations \ Laid /\ Laid' = Laid \cup {new} /\ UpToHere(new) = Laid' /\ StmtAt(new) = Stmt
  BY ReadsLaid
<1>2. new[1] = Len(file_table)
  OBVIOUS
<1>3. UNCHANGED <<files, file_table>> /\ merged' = Append(merged, row)
  BY DEF Reads, Merge
<1>4. \A x : Place(x)' = Place(x) /\ StmtAt(x)' = StmtAt(x) /\ UpToHere(x)' = UpToHere(x)
  <2>1. Declarations' = Declarations
    BY <1>3 DEF Declarations, IsUse
  <2> QED BY <1>3, <2>1 DEF Place, UpToHere, StmtAt
<1>5. /\ DOMAIN merged = 1 .. Len(merged) /\ Len(merged) \in Nat
      /\ Len(merged') = Len(merged) + 1 /\ merged'[Len(merged) + 1] = row
      /\ \A k \in 1 .. Len(merged) : merged'[k] = merged[k]
  <2>1. merged \in Seq([stmt : Declaration, file : Nat])
    BY DEF IInv, TypeOK
  <2> QED BY <1>3, <2>1
<1> HIDE DEF new, row
<1>6. IsFiniteSet(Laid') /\ Cardinality(Laid') = Len(merged) + 1
  BY <1>1, FS_AddElement DEF Merged
<1>7. Place(new) = Len(merged) + 1
  BY <1>1, <1>6 DEF Place
<1>8. ASSUME NEW x \in Laid PROVE Place(x) \in 1 .. Len(merged)
  <2>1. x \in Declarations /\ x = <<x[1], x[2]>> /\ x[1] \in Nat /\ x[2] \in Nat
    BY DeclarationTyped DEF Laid, IInv
  <2>2. UpToHere(x) \subseteq Laid
    <3>1. ASSUME NEW y \in UpToHere(x) PROVE y \in Laid
      <4>1. y \in Declarations /\ y[1] \in 1 .. Len(file_table) /\ y[2] \in Nat /\ pos \in Nat
        BY DeclarationTyped DEF UpToHere, IInv, TypeOK
      <4>2. x[1] \in 1 .. Len(file_table) /\ Len(file_table) \in Nat
        BY <2>1, DeclarationTyped DEF IInv
      <4> QED BY <2>1, <4>1, <4>2 DEF UpToHere, Laid
    <3> QED BY <3>1
  <2> QED BY <2>1, <2>2, PlaceInRange DEF Merged, IInv
<1>9. \A x \in Laid : merged'[Place(x)] = [stmt |-> StmtAt(x), file |-> (x[1] - 1) % IndexRange]
  BY <1>5, <1>8 DEF Merged
<1>10. merged'[Place(new)] = [stmt |-> StmtAt(new), file |-> (new[1] - 1) % IndexRange]
  BY <1>1, <1>2, <1>5, <1>7 DEF row, FileIndex
<1>11. ASSUME NEW k \in DOMAIN merged' PROVE \E x \in Laid' : Place(x) = k
  <2>1. DOMAIN merged' = 1 .. Len(merged) + 1
    BY <1>3, <1>5
  <2>2. CASE k = Len(merged) + 1
    BY <1>1, <1>7, <2>2
  <2>3. CASE k # Len(merged) + 1
    BY <1>1, <1>5, <2>1, <2>3 DEF Merged
  <2> QED BY <2>2, <2>3
<1> QED BY <1>1, <1>4, <1>5, <1>6, <1>9, <1>10, <1>11 DEF Merged

LEMMA MergedStep == IInv /\ Merged /\ [Next]_vars => Merged'
<1> SUFFICES ASSUME IInv, Merged, [Next]_vars PROVE Merged'
  OBVIOUS
<1>1. CASE EntryMissing \/ Begin \/ MissingFile \/ Finish
  BY <1>1, LaidWalk, LayoutStays DEF EntryMissing, Begin, MissingFile, Finish
<1>2. CASE ReadFile
  BY <1>2, ReadFileMerged
<1>3. CASE FollowUse
  <2>1. Laid' = Laid
    BY <1>3, ReadsLaid DEF FollowUse
  <2> QED BY <1>3, <2>1, LayoutStays DEF FollowUse, Reads
<1>4. CASE MergeTemplate
  BY <1>4, MergeMerged DEF MergeTemplate
<1>5. CASE MergeOther
  BY <1>5, MergeMerged DEF MergeOther
<1>6. CASE EndOfFile
  BY <1>6, EndOfFileLays, LayoutStays DEF EndOfFile
<1>7. CASE UNCHANGED vars
  <2>1. Declarations' = Declarations
    BY <1>7 DEF vars, Declarations, IsUse
  <2>2. Laid' = Laid
    BY <1>7, <2>1 DEF vars, Laid
  <2> QED BY <1>7, <2>2, LayoutStays DEF vars
<1> QED BY <1>1, <1>2, <1>3, <1>4, <1>5, <1>6, <1>7 DEF Next

\* The merged program is the declarations of the files, laid one after the other
\* in the order of reading, each under the index of its file, as long as the
\* files can be told apart by an index of 16 bits
THEOREM MergedInPlace == Spec => [](Len(file_table) <= IndexRange => ProvenanceTrue)
<1>1. Init => Merged
  <2> SUFFICES ASSUME Init PROVE Merged
    OBVIOUS
  <2>1. Laid = {}
    BY DEF Init, Laid, Declarations
  <2>2. Len(merged) = 0
    BY DEF Init
  <2> QED BY <2>1, <2>2, FS_EmptySet DEF Merged
<1>2. Spec => [](IInv /\ Merged)
  BY <1>1, InitInv, Invariant, MergedStep, PTL DEF Spec
<1>3. IInv /\ Merged => (Len(file_table) <= IndexRange => ProvenanceTrue)
  <2> SUFFICES ASSUME IInv, Merged, Len(file_table) <= IndexRange, phase = "done"
               PROVE  /\ Len(merged) = Cardinality(Declarations)
                      /\ \A x \in Declarations : merged[Place(x)] = [stmt |-> StmtAt(x), file |-> x[1] - 1]
    BY DEF ProvenanceTrue, StmtAt
  <2>1. Laid = Declarations
    BY DEF Laid
  <2>2. ASSUME NEW x \in Declarations PROVE (x[1] - 1) % IndexRange = x[1] - 1
    <3>1. x[1] \in 1 .. Len(file_table) /\ Len(file_table) \in Nat
      BY DeclarationTyped DEF IInv
    <3>2. x[1] - 1 \in 0 .. IndexRange - 1
      BY <3>1, IndexRangeType
    <3> QED BY <3>2, IndexRangeType
  <2> QED BY <2>1, <2>2 DEF Merged
<1> QED BY <1>2, <1>3, PTL

-----------------------------------------------------------------------------
(* The two walks side by side.                                             *)

\* The statements of the files that have been read: a file and a position
Places ==
  UNION {{<<i, k>> : k \in DOMAIN files[file_table[i]].stmts} : i \in DOMAIN file_table}

Uses == {x \in Places : IsUse(StmtAt(x))}
Target(x) == PathOf[StmtAt(x).namespace]

Earlier(y) == {x \in Uses : x[1] < y[1] \/ (x[1] = y[1] /\ x[2] < y[2])}

\* The uses the walk has passed
Passed == {x \in Uses : phase = "read" /\ x[1] = Len(file_table) => x[2] < pos}

\* Somebody in P uses f, or nobody has to
FoundBy(f, P) == f = entry \/ \E x \in P : Target(x) = f

\* Wherever g is used in P, f was used before
FoundBefore(P, f, g) == \A y \in P : Target(y) = g => FoundBy(f, Earlier(y))

Sequential(P, table, waiting) ==
  /\ \A i, j \in DOMAIN table : i < j => FoundBefore(P, table[i], table[j])
  /\ \A i \in DOMAIN table, k \in DOMAIN waiting : FoundBefore(P, table[i], waiting[k])
  /\ \A k, l \in DOMAIN waiting : k < l => FoundBefore(P, waiting[k], waiting[l])

Found ==
  /\ entry \in visited => visited = {entry} \cup {Target(x) : x \in Passed}
  /\ file_table # <<>> => file_table[1] = entry
  /\ \A j \in DOMAIN file_table : FoundBy(file_table[j], {x \in Uses : x[1] < j})
  /\ Sequential(Passed, file_table, queue)

PlacesAre ==
  \A x : x \in Places <=>
           x = <<x[1], x[2]>> /\ x[1] \in DOMAIN file_table /\ x[2] \in DOMAIN files[file_table[x[1]]].stmts

LEMMA PlaceForm == PlacesAre
<1> SUFFICES ASSUME NEW x
             PROVE  x \in Places <=>
                      /\ x = <<x[1], x[2]>> /\ x[1] \in DOMAIN file_table
                      /\ x[2] \in DOMAIN files[file_table[x[1]]].stmts
  BY DEF PlacesAre
<1>1. ASSUME x \in Places
      PROVE  /\ x = <<x[1], x[2]>> /\ x[1] \in DOMAIN file_table
             /\ x[2] \in DOMAIN files[file_table[x[1]]].stmts
  <2>1. PICK i \in DOMAIN file_table : x \in {<<i, k>> : k \in DOMAIN files[file_table[i]].stmts}
    BY <1>1 DEF Places
  <2>2. PICK k \in DOMAIN files[file_table[i]].stmts : x = <<i, k>>
    BY <2>1
  <2> QED BY <2>2
<1>2. ASSUME x = <<x[1], x[2]>>, x[1] \in DOMAIN file_table, x[2] \in DOMAIN files[file_table[x[1]]].stmts
      PROVE  x \in Places
  <2> DEFINE i == x[1]
  <2>1. x \in {<<i, k>> : k \in DOMAIN files[file_table[i]].stmts}
    BY <1>2
  <2> QED BY <1>2, <2>1 DEF Places
<1> QED BY <1>1, <1>2

LEMMA PlaceTyped ==
  ASSUME TypeOK, NEW x \in Places
  PROVE  /\ x = <<x[1], x[2]>> /\ x[1] \in 1 .. Len(file_table) /\ Len(file_table) \in Nat
         /\ file_table[x[1]] \in DOMAIN files /\ StmtAt(x) \in Use \cup Declaration
         /\ x[2] \in 1 .. Len(files[file_table[x[1]]].stmts) /\ Len(files[file_table[x[1]]].stmts) \in Nat
<1>1. file_table \in Seq(DOMAIN files)
  BY DEF TypeOK
<1>2. x = <<x[1], x[2]>> /\ x[1] \in DOMAIN file_table /\ x[2] \in DOMAIN files[file_table[x[1]]].stmts
  BY PlaceForm DEF PlacesAre
<1>3. file_table[x[1]] \in DOMAIN files
  BY <1>1, <1>2
<1>4. files[file_table[x[1]]].stmts \in Seq(Use \cup Declaration)
  BY <1>3, FilesTyped
<1> QED BY <1>1, <1>2, <1>3, <1>4 DEF StmtAt

LEMMA UseTyped ==
  ASSUME TypeOK, NEW x \in Uses
  PROVE  /\ x = <<x[1], x[2]>> /\ x[1] \in 1 .. Len(file_table) /\ Len(file_table) \in Nat
         /\ x[2] \in Nat /\ Target(x) \in Path
<1>1. x \in Places /\ StmtAt(x) \in Use \cup Declaration /\ IsUse(StmtAt(x))
  BY PlaceTyped DEF Uses
<1>2. Target(x) \in Path
  BY <1>1, PathOfType DEF Target, IsUse, Use, Declaration
<1> QED BY <1>1, <1>2, PlaceTyped

-----------------------------------------------------------------------------
(* The first walk.                                                         *)

\* A step that neither reads a file nor passes a use
LEMMA PassedStays ==
  ASSUME UNCHANGED <<files, file_table, entry>>, Passed' = Passed
  PROVE  /\ \A x : Target(x)' = Target(x)
         /\ Uses' = Uses
         /\ \A f, P : FoundBy(f, P)' = FoundBy(f, P)
         /\ \A f, g : FoundBefore(Passed, f, g)' = FoundBefore(Passed, f, g)
<1>1. Places' = Places /\ \A x : StmtAt(x)' = StmtAt(x)
  BY DEF Places, StmtAt
<1>2. Uses' = Uses /\ \A x : Target(x)' = Target(x)
  BY <1>1 DEF Uses, Target, IsUse
<1>3. \A y : Earlier(y)' = Earlier(y)
  BY <1>2 DEF Earlier
<1> QED BY <1>2, <1>3 DEF FoundBy, FoundBefore

LEMMA FoundStays ==
  ASSUME Found, UNCHANGED <<files, file_table, entry>>, Passed' = Passed,
         visited' = visited \/ (visited = {} /\ visited' = {entry} /\ file_table = <<>>),
         queue' = queue \/ (queue # <<>> /\ queue' = Tail(queue)) \/ (queue' = <<entry>> /\ file_table = <<>>),
         queue \in Seq(Path)
  PROVE  Found'
<1>1. /\ \A x : Target(x)' = Target(x)
      /\ Uses' = Uses
      /\ \A f, P : FoundBy(f, P)' = FoundBy(f, P)
      /\ \A f, g : FoundBefore(Passed, f, g)' = FoundBefore(Passed, f, g)
  BY PassedStays
<1>2. \A j \in DOMAIN file_table : FoundBy(file_table[j], {x \in Uses : x[1] < j})'
  BY <1>1 DEF Found
<1>3. entry' \in visited' => visited' = {entry'} \cup {Target(x)' : x \in Passed'}
  <2>1. CASE visited' = visited
    BY <1>1, <2>1 DEF Found
  <2>2. CASE visited' = {entry} /\ file_table = <<>>
    <3>1. Passed = {}
      BY <2>2 DEF Passed, Uses, Places
    <3> QED BY <2>2, <3>1
  <2> QED BY <2>1, <2>2
<1>4. Sequential(Passed, file_table, queue')
  <2>1. CASE queue' = queue
    BY <2>1 DEF Found
  <2>2. CASE queue # <<>> /\ queue' = Tail(queue)
    <3>1. \A k \in DOMAIN Tail(queue) : k + 1 \in DOMAIN queue /\ Tail(queue)[k] = queue[k + 1] /\ k \in Nat
      BY <2>2
    <3> QED BY <2>2, <3>1 DEF Found, Sequential
  <2>3. CASE queue' = <<entry>> /\ file_table = <<>>
    BY <2>3 DEF Sequential
  <2> QED BY <2>1, <2>2, <2>3
<1>5. Sequential(Passed, file_table, queue)'
  BY <1>1, <1>4 DEF Sequential
<1> QED BY <1>1, <1>2, <1>3, <1>5 DEF Found

\* Everything in the table and the queue has been found
LEMMA AllFound ==
  ASSUME IInv, Found, phase # "start", entry \in DOMAIN files, NEW f \in ElementsOf(queue) \cup Read \cup Reported
  PROVE  f \in visited /\ FoundBy(f, Passed)
<1>1. entry \in visited /\ f \in visited
  BY DEF IInv, Phases, TypeOK, Partition
<1> QED BY <1>1 DEF Found, FoundBy

LEMMA PassedWalk ==
  ASSUME UNCHANGED <<files, file_table>>, phase # "read", phase' # "read"
  PROVE  Passed' = Passed
<1>1. Places' = Places /\ \A x : StmtAt(x)' = StmtAt(x)
  BY DEF Places, StmtAt
<1> QED BY <1>1 DEF Uses, Passed, IsUse

LEMMA ReadFileFound == ASSUME IInv, Ordered, Found, ReadFile PROVE Found'
<1> DEFINE N == Len(file_table)
           h == Head(queue)
<1>1. /\ files' = files /\ entry' = entry /\ visited' = visited /\ phase = "walk" /\ phase' = "read" /\ pos' = 1
      /\ file_table \in Seq(DOMAIN files) /\ file_table' = Append(file_table, h) /\ queue' = Tail(queue)
      /\ h \in DOMAIN files /\ queue # <<>> /\ queue \in Seq(Path)
  BY DEF ReadFile, IInv, TypeOK
<1>2. /\ N \in Nat /\ DOMAIN file_table = 1 .. N /\ DOMAIN file_table' = 1 .. N + 1 /\ Len(file_table') = N + 1
      /\ \A i \in 1 .. N : file_table'[i] = file_table[i]
      /\ file_table'[N + 1] = h
  BY <1>1
<1>3. /\ Len(queue) \in Nat \ {0} /\ DOMAIN queue = 1 .. Len(queue) /\ DOMAIN Tail(queue) = 1 .. Len(queue) - 1
      /\ \A k \in 1 .. Len(queue) - 1 : Tail(queue)[k] = queue[k + 1]
      /\ h = queue[1]
  BY <1>1
<1> HIDE DEF N, h
<1>4. TypeOK /\ TypeOK'
  BY TypeStep DEF IInv, UsesVisited, Next
<1>5. \A x : x \in Places' <=>
        x = <<x[1], x[2]>> /\ x[1] \in DOMAIN file_table' /\ x[2] \in DOMAIN files[file_table'[x[1]]].stmts
  <2>1. PlacesAre'
    BY PlaceForm, PTL
  <2> QED BY <1>1, <2>1 DEF PlacesAre
<1>6. /\ \A x : x \in Places <=> x \in Places' /\ x[1] # N + 1
      /\ \A x \in Places : StmtAt(x)' = StmtAt(x) /\ x[1] \in 1 .. N
  <2>1. \A x : x \in Places <=>
          x = <<x[1], x[2]>> /\ x[1] \in 1 .. N /\ x[2] \in DOMAIN files[file_table[x[1]]].stmts
    BY <1>2, PlaceForm DEF PlacesAre
  <2>2. ASSUME NEW x \in Places PROVE x \in Places' /\ x[1] # N + 1 /\ StmtAt(x)' = StmtAt(x) /\ x[1] \in 1 .. N
    <3>1. x[1] \in 1 .. N /\ file_table'[x[1]] = file_table[x[1]] /\ x[1] \in 1 .. N + 1
      BY <1>2, <2>1
    <3>2. x \in Places'
      BY <1>2, <1>5, <2>1, <3>1
    <3> QED BY <1>1, <1>2, <3>1, <3>2 DEF StmtAt
  <2>3. ASSUME NEW x \in Places', x[1] # N + 1 PROVE x \in Places
    <3>1. x[1] \in 1 .. N /\ file_table'[x[1]] = file_table[x[1]]
      BY <1>2, <1>5, <2>3
    <3> QED BY <1>5, <2>1, <3>1
  <2> QED BY <2>2, <2>3
<1>7. /\ \A x : x \in Uses <=> x \in Uses' /\ x[1] # N + 1
      /\ \A x \in Uses : x[1] \in 1 .. N /\ Target(x)' = Target(x)
  BY <1>6 DEF Uses, Target, IsUse
<1>8. \A x \in Uses' : x[1] \in 1 .. N + 1 /\ x[2] \in Nat \ {0}
  <2>1. ASSUME NEW x \in Uses' PROVE x[1] \in 1 .. N + 1 /\ x[2] \in Nat \ {0}
    <3>1. x[1] \in DOMAIN file_table' /\ x[2] \in DOMAIN files[file_table'[x[1]]].stmts
      BY <1>5 DEF Uses
    <3>2. file_table'[x[1]] \in DOMAIN files
      BY <1>1, <1>4, <3>1, ElementType DEF TypeOK
    <3>3. files[file_table'[x[1]]].stmts \in Seq(Use \cup Declaration)
      BY <1>4, <3>2, FilesTyped
    <3> QED BY <1>2, <3>1, <3>3
  <2> QED BY <2>1
<1>9. Passed = Uses /\ Passed' = Uses
  BY <1>1, <1>2, <1>7, <1>8 DEF Passed
<1>10. \A y \in Uses : Earlier(y)' = Earlier(y)
  BY <1>7, <1>8 DEF Earlier
<1>11. \A f, P : P \subseteq Uses => (FoundBy(f, P)' <=> FoundBy(f, P))
  <2>1. ASSUME NEW f, NEW P, P \subseteq Uses PROVE FoundBy(f, P)' <=> FoundBy(f, P)
    BY <1>1, <1>7, <2>1 DEF FoundBy
  <2> QED BY <2>1
<1>12. \A f, g : FoundBefore(Passed, f, g)' <=> FoundBefore(Passed, f, g)
  <2>1. \A y \in Uses : Earlier(y) \subseteq Uses
    BY DEF Earlier
  <2> QED BY <1>7, <1>9, <1>10, <1>11, <2>1 DEF FoundBefore
<1>13. h \in ElementsOf(queue) /\ entry \in visited /\ entry \in DOMAIN files
  BY <1>1, <1>3 DEF ElementsOf, IInv, Phases
<1>14. Sequential(Passed, file_table', queue')
  <2>1. \A k \in DOMAIN queue' : k + 1 \in DOMAIN queue /\ queue'[k] = queue[k + 1] /\ 1 < k + 1 /\ 1 \in DOMAIN queue /\ k \in Nat
    BY <1>1, <1>3
  <2>2. ASSUME NEW i \in DOMAIN file_table', NEW j \in DOMAIN file_table', i < j
        PROVE  FoundBefore(Passed, file_table'[i], file_table'[j])
    <3>1. i \in DOMAIN file_table /\ file_table'[i] = file_table[i]
      BY <1>2, <2>2
    <3>2. CASE j = N + 1
      BY <1>2, <1>3, <3>1, <3>2 DEF Found, Sequential
    <3>3. CASE j # N + 1
      BY <1>2, <2>2, <3>1, <3>3 DEF Found, Sequential
    <3> QED BY <3>2, <3>3
  <2>3. ASSUME NEW i \in DOMAIN file_table', NEW k \in DOMAIN queue' PROVE FoundBefore(Passed, file_table'[i], queue'[k])
    <3>1. CASE i = N + 1
      BY <1>2, <1>3, <2>1, <3>1 DEF Found, Sequential
    <3>2. CASE i # N + 1
      BY <1>2, <2>1, <3>2 DEF Found, Sequential
    <3> QED BY <3>1, <3>2
  <2>4. ASSUME NEW k \in DOMAIN queue', NEW l \in DOMAIN queue', k < l PROVE FoundBefore(Passed, queue'[k], queue'[l])
    BY <2>1, <2>4 DEF Found, Sequential
  <2> QED BY <2>2, <2>3, <2>4 DEF Sequential
<1>15. Sequential(Passed, file_table, queue)'
  BY <1>12, <1>14 DEF Sequential
<1>16. file_table'[1] = entry
  <2>1. CASE file_table = <<>>
    BY <1>2, <1>3, <2>1 DEF Ordered, InOrder, N
  <2>2. CASE file_table # <<>>
    <3>1. 1 \in DOMAIN file_table
      BY <1>1, <2>2, LastElement
    <3> QED BY <1>2, <2>2, <3>1 DEF Found
  <2> QED BY <2>1, <2>2
<1>17. ASSUME NEW j \in DOMAIN file_table' PROVE FoundBy(file_table'[j], {x \in Uses : x[1] < j})
  <2>1. CASE j = N + 1
    <3>1. FoundBy(h, Passed)
      BY <1>1, <1>13, AllFound
    <3>2. Passed \subseteq {x \in Uses : x[1] < N + 1}
      BY <1>2, <1>7, <1>9
    <3> QED BY <1>2, <2>1, <3>1, <3>2 DEF FoundBy
  <2>2. CASE j # N + 1
    BY <1>2, <2>2 DEF Found
  <2> QED BY <2>1, <2>2
<1>18. ASSUME NEW j \in DOMAIN file_table' PROVE FoundBy(file_table[j], {x \in Uses : x[1] < j})'
  <2>1. {x \in Uses' : x[1] < j} = {x \in Uses : x[1] < j}
    BY <1>2, <1>7, <1>8
  <2>2. FoundBy(file_table'[j], {x \in Uses : x[1] < j})
    BY <1>17
  <2> QED BY <1>1, <1>7, <1>17, <2>1, <2>2 DEF FoundBy
<1>19. visited' = {entry'} \cup {Target(x)' : x \in Passed'}
  <2>1. visited = {entry} \cup {Target(x) : x \in Uses}
    BY <1>9, <1>13 DEF Found
  <2>2. {Target(x)' : x \in Uses} = {Target(x) : x \in Uses}
    BY <1>7
  <2> QED BY <1>1, <1>9, <2>1, <2>2
<1> QED BY <1>15, <1>16, <1>18, <1>19, <1>1 DEF Found

\* A statement that is passed and is a use is the next of the uses
LEMMA ReadsPassed ==
  ASSUME IInv, NEW kind, Reads(kind)
  PROVE  /\ kind # "use" => Passed' = Passed
         /\ kind = "use" => /\ <<Len(file_table), pos>> \in Uses \ Passed
                            /\ Uses' = Uses
                            /\ Passed' = Passed \cup {<<Len(file_table), pos>>}
                            /\ Earlier(<<Len(file_table), pos>>) = Passed
                            /\ Target(<<Len(file_table), pos>>) = PathOf[Stmt.namespace]
<1> DEFINE N == Len(file_table)
           u == <<N, pos>>
<1>1. /\ UNCHANGED <<files, file_table>> /\ phase = "read" /\ phase' = "read" /\ pos' = pos + 1
      /\ pos \in Nat \ {0} /\ TypeOK
  BY DEF Reads, IInv, TypeOK
<1>2. /\ N \in DOMAIN file_table /\ N \in Nat /\ DOMAIN file_table = 1 .. N
      /\ pos \in DOMAIN files[Current].stmts /\ Current = file_table[N]
  BY CurrentTyped, LastElement DEF IInv, UsesVisited, Reads, TypeOK, Current
<1>3. Places' = Places /\ Uses' = Uses
  <2>1. Places' = Places /\ \A x : StmtAt(x)' = StmtAt(x)
    BY <1>1 DEF Places, StmtAt
  <2> QED BY <2>1 DEF Uses, IsUse
<1>4. u[1] = N /\ u[2] = pos
  OBVIOUS
<1>5. StmtAt(u) = Stmt /\ (IsUse(Stmt) <=> kind = "use")
  BY <1>2, <1>4 DEF StmtAt, Stmt, Reads, IsUse
<1> HIDE DEF u, N
<1>6. \A x \in Uses : x = <<x[1], x[2]>> /\ x[1] \in 1 .. N /\ x[2] \in Nat
  BY <1>1, UseTyped DEF N
<1>7. \A x \in Uses : x[1] = N /\ x[2] = pos => x = u
  BY <1>6 DEF u
<1>8. /\ Passed = {x \in Uses : x[1] = N => x[2] < pos}
      /\ Passed' = {x \in Uses : x[1] = N => x[2] < pos + 1}
  BY <1>1, <1>3 DEF Passed, N
<1>9. u \in Uses <=> kind = "use"
  <2>1. u \in Places
    BY <1>2, <1>4, PlaceForm DEF PlacesAre, u
  <2> QED BY <1>5, <2>1 DEF Uses
<1>10. CASE kind # "use"
  <2>1. \A x \in Uses : x[1] = N => x[2] # pos
    BY <1>7, <1>9, <1>10
  <2>2. Passed' = Passed
    BY <1>1, <1>6, <1>8, <2>1
  <2> QED BY <1>10, <2>2
<1>11. CASE kind = "use"
  <2>1. u \in Uses \ Passed
    BY <1>1, <1>4, <1>8, <1>9, <1>11
  <2>2. Passed' = Passed \cup {u}
    BY <1>1, <1>4, <1>6, <1>7, <1>8, <2>1
  <2>3. Earlier(u) = Passed
    BY <1>1, <1>2, <1>4, <1>6, <1>8 DEF Earlier
  <2>4. Target(u) = PathOf[Stmt.namespace]
    BY <1>5 DEF Target
  <2> QED BY <1>3, <1>11, <2>1, <2>2, <2>3, <2>4 DEF u, N
<1> QED BY <1>10, <1>11

LEMMA FollowUseFound == ASSUME IInv, Found, FollowUse PROVE Found'
<1> DEFINE u == <<Len(file_table), pos>>
           p == PathOf[Stmt.namespace]
<1>1. /\ UNCHANGED <<files, entry, file_table, phase>> /\ phase = "read" /\ Reads("use")
      /\ file_table \in Seq(DOMAIN files) /\ queue \in Seq(Path) /\ entry \in DOMAIN files /\ entry \in visited
  BY DEF FollowUse, Reads, IInv, TypeOK, Phases
<1>2. /\ u \in Uses \ Passed /\ Uses' = Uses /\ Passed' = Passed \cup {u} /\ Earlier(u) = Passed /\ Target(u) = p
  BY <1>1, ReadsPassed
<1>3. /\ p \in visited => UNCHANGED <<queue, visited>>
      /\ p \notin visited => queue' = Append(queue, p) /\ visited' = visited \cup {p}
      /\ p \in Path
  BY <1>1, FollowedUse DEF FollowUse, Enqueue
<1>4. \A x : Target(x)' = Target(x)
  BY <1>1 DEF Target, StmtAt
<1>5. \A y : Earlier(y)' = Earlier(y)
  BY <1>2 DEF Earlier
<1>6. \A f, P : FoundBy(f, P)' <=> FoundBy(f, P)
  BY <1>1, <1>4 DEF FoundBy
<1> HIDE DEF u, p
<1>7. visited = {entry} \cup {Target(x) : x \in Passed}
  BY <1>1 DEF Found
<1>8. visited' = {entry'} \cup {Target(x)' : x \in Passed'}
  <2>1. {Target(x)' : x \in Passed'} = {Target(x) : x \in Passed} \cup {p}
    BY <1>2, <1>4
  <2> QED BY <1>1, <1>3, <1>7, <2>1
<1>9. \A j \in DOMAIN file_table : FoundBy(file_table[j], {x \in Uses : x[1] < j})'
  BY <1>1, <1>2, <1>6 DEF Found, FoundBy
<1> DEFINE P == Passed \cup {u}
<1>10. \A f, g : FoundBefore(Passed, f, g)' <=> FoundBefore(P, f, g)
  BY <1>2, <1>4, <1>5, <1>6 DEF FoundBefore
<1>11. \A f, g : FoundBefore(Passed, f, g) /\ f \in visited => FoundBefore(P, f, g)
  <2>1. ASSUME NEW f, NEW g, FoundBefore(Passed, f, g), f \in visited PROVE FoundBefore(P, f, g)
    <3>1. FoundBy(f, Passed)
      BY <1>7, <2>1 DEF FoundBy
    <3> QED BY <1>2, <2>1, <3>1 DEF FoundBefore
  <2> QED BY <2>1
<1> HIDE DEF P
<1>12. \A f \in visited : p \notin visited => FoundBefore(P, f, p)
  <2>1. \A f : p \notin visited => FoundBefore(Passed, f, p)
    BY <1>7 DEF FoundBefore
  <2> QED BY <1>11, <2>1
<1>13. (\A i \in DOMAIN file_table : file_table[i] \in visited) /\ (\A k \in DOMAIN queue : queue[k] \in visited)
  BY DEF IInv, Partition, Read, ElementsOf
<1>14. Sequential(P, file_table, queue)
  BY <1>11, <1>13 DEF Found, Sequential
<1>15. Sequential(P, file_table, queue')
  <2>1. CASE p \in visited
    BY <1>3, <1>14, <2>1
  <2>2. CASE p \notin visited
    <3>1. /\ DOMAIN queue' = 1 .. Len(queue) + 1 /\ DOMAIN queue = 1 .. Len(queue) /\ Len(queue) \in Nat
          /\ \A k \in 1 .. Len(queue) : queue'[k] = queue[k]
          /\ queue'[Len(queue) + 1] = p
      BY <1>1, <1>3, <2>2
    <3>2. ASSUME NEW i \in DOMAIN file_table, NEW k \in DOMAIN queue' PROVE FoundBefore(P, file_table[i], queue'[k])
      BY <1>12, <1>13, <1>14, <2>2, <3>1 DEF Sequential
    <3>3. ASSUME NEW k \in DOMAIN queue', NEW l \in DOMAIN queue', k < l PROVE FoundBefore(P, queue'[k], queue'[l])
      <4>1. k \in DOMAIN queue /\ queue'[k] = queue[k]
        BY <3>1, <3>3
      <4> QED BY <1>12, <1>13, <1>14, <2>2, <3>1, <3>3, <4>1 DEF Sequential
    <3> QED BY <1>14, <3>2, <3>3 DEF Sequential
  <2> QED BY <2>1, <2>2
<1>16. Sequential(Passed, file_table, queue)'
  BY <1>1, <1>10, <1>15 DEF Sequential
<1>17. file_table # <<>> => file_table[1] = entry
  BY DEF Found
<1> QED BY <1>1, <1>8, <1>9, <1>16, <1>17 DEF Found

LEMMA FoundStep == IInv /\ Ordered /\ Found /\ [Next]_vars => Found'
<1> SUFFICES ASSUME IInv, Ordered, Found, [Next]_vars PROVE Found'
  OBVIOUS
<1>0. queue \in Seq(Path)
  BY DEF IInv, TypeOK
<1> USE <1>0
<1>1. CASE EntryMissing \/ MissingFile \/ Finish
  BY <1>1, PassedWalk, FoundStays DEF EntryMissing, MissingFile, Finish
<1>2. CASE Begin
  BY <1>2, PassedWalk, FoundStays DEF Begin, Phases, IInv
<1>3. CASE ReadFile
  BY <1>3, ReadFileFound
<1>4. CASE FollowUse
  BY <1>4, FollowUseFound
<1>5. CASE MergeTemplate
  BY <1>5, ReadsPassed, FoundStays DEF MergeTemplate, Reads
<1>6. CASE MergeOther
  BY <1>6, ReadsPassed, FoundStays DEF MergeOther, Reads
<1>7. CASE EndOfFile
  <2>1. /\ UNCHANGED <<files, entry, file_table, queue, visited>> /\ phase = "read" /\ phase' = "walk"
        /\ pos > Len(files[Current].stmts) /\ pos \in Nat
    BY <1>7 DEF EndOfFile, IInv, TypeOK
  <2>2. Uses' = Uses
    <3>1. Places' = Places /\ \A x : StmtAt(x)' = StmtAt(x)
      BY <2>1 DEF Places, StmtAt
    <3> QED BY <3>1 DEF Uses, IsUse
  <2>3. \A x \in Uses : x[1] = Len(file_table) => x[2] < pos
    BY <2>1, PlaceTyped DEF Current, Uses, IInv
  <2>4. Passed' = Passed
    BY <2>1, <2>2, <2>3 DEF Passed
  <2> QED BY <2>1, <2>4, FoundStays
<1>8. CASE UNCHANGED vars
  <2>1. Places' = Places /\ \A x : StmtAt(x)' = StmtAt(x)
    BY <1>8 DEF vars, Places, StmtAt
  <2>2. Passed' = Passed
    BY <1>8, <2>1 DEF vars, Uses, Passed, IsUse
  <2> QED BY <1>8, <2>2, FoundStays DEF vars
<1> QED BY <1>1, <1>2, <1>3, <1>4, <1>5, <1>6, <1>7, <1>8 DEF Next

-----------------------------------------------------------------------------
(* The names of templates.                                                 *)

IsTemplate(stmt) == stmt.kind = "template"

\* Without errors a name belongs to one template, and to the file it stands in
Defined ==
  /\ \A x \in Laid : IsTemplate(StmtAt(x)) => StmtAt(x).name \in DOMAIN template_defs
  /\ \A t \in DOMAIN template_defs : \E x \in Laid : IsTemplate(StmtAt(x)) /\ StmtAt(x).name = t
  /\ errors = {} => \A x \in Laid : IsTemplate(StmtAt(x)) =>
                      /\ template_defs[StmtAt(x).name] = file_table[x[1]]
                      /\ \A y \in Laid : IsTemplate(StmtAt(y)) /\ StmtAt(y).name = StmtAt(x).name => x = y

LEMMA DefinedStays ==
  ASSUME Defined, Laid' = Laid, template_defs' = template_defs, errors' = {} => errors = {},
         \A x \in Laid : StmtAt(x)' = StmtAt(x) /\ file_table'[x[1]] = file_table[x[1]]
  PROVE  Defined'
<1>1. \A x \in Laid : IsTemplate(StmtAt(x))' <=> IsTemplate(StmtAt(x))
  BY DEF IsTemplate
<1> QED BY <1>1 DEF Defined

LEMMA DefinedStep == IInv /\ Defined /\ [Next]_vars => Defined'
<1> SUFFICES ASSUME IInv, Defined, [Next]_vars PROVE Defined'
  OBVIOUS
<1>1. ASSUME UNCHANGED <<files, file_table>> PROVE \A x : StmtAt(x)' = StmtAt(x) /\ file_table'[x[1]] = file_table[x[1]]
  BY <1>1 DEF StmtAt
<1>2. CASE EntryMissing \/ Begin \/ MissingFile \/ Finish
  BY <1>1, <1>2, LaidWalk, DefinedStays DEF EntryMissing, Begin, MissingFile, Finish
<1>3. CASE ReadFile
  BY <1>3, ReadFileLays, DefinedStays DEF ReadFile
<1>4. CASE FollowUse
  BY <1>1, <1>4, ReadsLaid, DefinedStays DEF FollowUse, Reads
<1>5. CASE MergeTemplate
  <2> DEFINE new == <<Len(file_table), pos>>
  <2>1. /\ new \in Declarations \ Laid /\ Laid' = Laid \cup {new} /\ StmtAt(new) = Stmt
        /\ UNCHANGED <<files, file_table>> /\ IsTemplate(Stmt) /\ new[1] = Len(file_table)
    BY <1>5, ReadsLaid DEF MergeTemplate, Reads, Stmt, IsTemplate
  <2>2. /\ \A x : StmtAt(x)' = StmtAt(x)
        /\ \A x : IsTemplate(StmtAt(x))' <=> IsTemplate(StmtAt(x))
    BY <1>1, <2>1 DEF IsTemplate
  <2> HIDE DEF new
  <2>3. CASE Stmt.name \in DOMAIN template_defs
    <3>1. template_defs' = template_defs /\ errors' # {}
      BY <1>5, <2>3 DEF MergeTemplate, Define
    <3> QED BY <2>1, <2>2, <2>3, <3>1 DEF Defined
  <2>4. CASE Stmt.name \notin DOMAIN template_defs
    <3>1. /\ DOMAIN template_defs' = DOMAIN template_defs \cup {Stmt.name}
          /\ \A t \in DOMAIN template_defs : template_defs'[t] = template_defs[t]
          /\ template_defs'[Stmt.name] = file_table[Len(file_table)]
          /\ errors' = errors
      BY <1>5, <2>4 DEF MergeTemplate, Define, Put, Current
    <3>2. \A x \in Laid : IsTemplate(StmtAt(x)) => StmtAt(x).name # Stmt.name
      BY <2>4 DEF Defined
    <3> QED BY <2>1, <2>2, <3>1, <3>2 DEF Defined
  <2> QED BY <2>3, <2>4
<1>6. CASE MergeOther
  <2> DEFINE new == <<Len(file_table), pos>>
  <2>1. /\ Laid' = Laid \cup {new} /\ StmtAt(new) = Stmt /\ ~ IsTemplate(Stmt)
        /\ UNCHANGED <<files, file_table, template_defs, errors>>
    BY <1>6, ReadsLaid DEF MergeOther, Reads, Stmt, IsTemplate
  <2>2. /\ \A x : StmtAt(x)' = StmtAt(x)
        /\ \A x : IsTemplate(StmtAt(x))' <=> IsTemplate(StmtAt(x))
    BY <1>1, <2>1 DEF IsTemplate
  <2> HIDE DEF new
  <2> QED BY <2>1, <2>2 DEF Defined
<1>7. CASE EndOfFile
  BY <1>1, <1>7, EndOfFileLays, DefinedStays DEF EndOfFile
<1>8. CASE UNCHANGED vars
  <2>1. Declarations' = Declarations
    BY <1>8 DEF vars, Declarations, IsUse
  <2>2. Laid' = Laid
    BY <1>8, <2>1 DEF vars, Laid
  <2> QED BY <1>1, <1>8, <2>2, DefinedStays DEF vars
<1> QED BY <1>2, <1>3, <1>4, <1>5, <1>6, <1>7, <1>8 DEF Next

-----------------------------------------------------------------------------
(* The second walk, over the files as the first one has left them.         *)

\* What the first walk knows when it is over
Walked ==
  /\ TypeOK
  /\ file_table # <<>> /\ file_table[1] = entry
  /\ NoRepeat(file_table)
  /\ \A j \in DOMAIN file_table : FoundBy(file_table[j], {x \in Uses : x[1] < j})
  /\ \A i, j \in DOMAIN file_table : i < j => FoundBefore(Uses, file_table[i], file_table[j])
  /\ \A x \in Uses : Target(x) \in DOMAIN files => \E i \in DOMAIN file_table : file_table[i] = Target(x)

LEMMA FirstWalkOver ==
  ASSUME IInv, Found, phase = "done", entry \in DOMAIN files
  PROVE  Walked
<1>1. Passed = Uses
  BY DEF Passed
<1>2. queue = <<>> /\ entry \in visited
  BY DEF IInv, Phases
<1>3. visited \cap DOMAIN files = Read
  <2>1. Read \subseteq DOMAIN files
    <3>1. ASSUME NEW i \in DOMAIN file_table PROVE file_table[i] \in DOMAIN files
      BY ElementType DEF IInv, TypeOK
    <3> QED BY <3>1 DEF Read, ElementsOf
  <2>2. ElementsOf(queue) = {}
    BY <1>2 DEF ElementsOf
  <2> QED BY <2>1, <2>2 DEF IInv, Partition
<1>4. file_table # <<>>
  BY <1>2, <1>3 DEF Read, ElementsOf
<1>5. ASSUME NEW x \in Uses, Target(x) \in DOMAIN files
      PROVE  \E i \in DOMAIN file_table : file_table[i] = Target(x)
  <2>1. Target(x) \in visited
    BY <1>1, <1>2 DEF Found
  <2> QED BY <1>3, <1>5, <2>1 DEF Read, ElementsOf
<1> QED BY <1>1, <1>4, <1>5 DEF Walked, Found, Sequential, IInv, Partition

\* n files have been opened, and of the last one, r, the statements before p passed
Behind(x, n, r, p) == x[1] < n \/ (x[1] = n /\ (r # Nothing => x[2] < p))
UsesBehind(n, r, p) == {x \in Uses : Behind(x, n, r, p)}
LaidBehind(n, r, p) == {x \in Declarations : Behind(x, n, r, p)}

\* The queue is what has been found and not been opened, in the order of the table
Follows(n, q, v, r, p) ==
  /\ r # Nothing => n # 0 /\ r = file_table[n]
  /\ \A f : f \in v <=> FoundBy(f, UsesBehind(n, r, p))
  /\ ElementsOf(q) \subseteq v
  /\ \A i \in DOMAIN file_table : i <= n => file_table[i] \notin ElementsOf(q)
  /\ \A i \in DOMAIN file_table : n < i /\ file_table[i] \in v => file_table[i] \in ElementsOf(q)
  /\ \A k, l \in DOMAIN q, i, j \in DOMAIN file_table :
       k < l /\ q[k] = file_table[i] /\ q[l] = file_table[j] => i < j

LEMMA TableTyped ==
  ASSUME Walked
  PROVE  /\ Len(file_table) \in Nat \ {0} /\ DOMAIN file_table = 1 .. Len(file_table)
         /\ file_table \in Seq(DOMAIN files) /\ DOMAIN files \subseteq Path
         /\ \A i \in DOMAIN file_table : file_table[i] \in DOMAIN files
<1>1. file_table \in Seq(DOMAIN files) /\ DOMAIN files \subseteq Path
  BY DEF Walked, TypeOK
<1> QED BY <1>1, LastElement, ElementType DEF Walked

\* Between two files the next one of the table has been found
LEMMA NextIsWaiting ==
  ASSUME Walked, NEW n \in 0 .. Len(file_table) - 1, NEW q \in Seq(Path), NEW v, NEW p,
         Follows(n, q, v, Nothing, p)
  PROVE  file_table[n + 1] \in ElementsOf(q)
<1>1. n + 1 \in DOMAIN file_table /\ n \in Nat
  BY TableTyped
<1>2. FoundBy(file_table[n + 1], {x \in Uses : x[1] < n + 1})
  BY <1>1 DEF Walked
<1>3. {x \in Uses : x[1] < n + 1} \subseteq UsesBehind(n, Nothing, p)
  BY <1>1, UseTyped DEF Walked, UsesBehind, Behind
<1>4. file_table[n + 1] \in v
  BY <1>2, <1>3 DEF Follows, FoundBy
<1> QED BY <1>1, <1>4 DEF Follows

LEMMA SkipFollows ==
  ASSUME Walked, NEW n, NEW q \in Seq(Path), NEW v, NEW r, NEW p,
         Follows(n, q, v, r, p), q # <<>>, Head(q) \notin DOMAIN files
  PROVE  Follows(n, Tail(q), v, r, p)
<1>1. /\ Len(q) \in Nat \ {0} /\ DOMAIN q = 1 .. Len(q) /\ DOMAIN Tail(q) = 1 .. Len(q) - 1
      /\ \A k \in 1 .. Len(q) - 1 : Tail(q)[k] = q[k + 1] /\ k + 1 \in 1 .. Len(q)
      /\ Head(q) = q[1]
  OBVIOUS
<1>2. ElementsOf(Tail(q)) \subseteq ElementsOf(q)
  BY <1>1 DEF ElementsOf
<1>3. ASSUME NEW f \in ElementsOf(q), f \in DOMAIN files PROVE f \in ElementsOf(Tail(q))
  <2>1. PICK k \in DOMAIN q : q[k] = f
    BY DEF ElementsOf
  <2>2. k # 1
    BY <1>1, <1>3, <2>1
  <2>3. k - 1 \in 1 .. Len(q) - 1 /\ Tail(q)[k - 1] = f
    BY <1>1, <2>1, <2>2
  <2> QED BY <1>1, <2>3 DEF ElementsOf
<1>4. ASSUME NEW k \in DOMAIN Tail(q), NEW l \in DOMAIN Tail(q), NEW i \in DOMAIN file_table, NEW j \in DOMAIN file_table,
             k < l, Tail(q)[k] = file_table[i], Tail(q)[l] = file_table[j]
      PROVE  i < j
  <2>1. k + 1 \in DOMAIN q /\ l + 1 \in DOMAIN q /\ k + 1 < l + 1 /\ q[k + 1] = file_table[i] /\ q[l + 1] = file_table[j]
    BY <1>1, <1>4
  <2> QED BY <2>1 DEF Follows
<1> QED BY <1>2, <1>3, <1>4, TableTyped DEF Follows

LEMMA ReadFollows ==
  ASSUME Walked, NEW n \in 0 .. Len(file_table), NEW q \in Seq(Path), NEW v, NEW p,
         Follows(n, q, v, Nothing, p), q # <<>>, Head(q) \in DOMAIN files
  PROVE  /\ n + 1 \in DOMAIN file_table /\ Head(q) = file_table[n + 1]
         /\ Follows(n + 1, Tail(q), v, Head(q), 1)
<1>1. /\ Len(q) \in Nat \ {0} /\ DOMAIN q = 1 .. Len(q) /\ DOMAIN Tail(q) = 1 .. Len(q) - 1
      /\ \A k \in 1 .. Len(q) - 1 : Tail(q)[k] = q[k + 1] /\ k + 1 \in 1 .. Len(q)
      /\ Head(q) = q[1]
  OBVIOUS
<1>2. /\ Len(file_table) \in Nat \ {0} /\ DOMAIN file_table = 1 .. Len(file_table) /\ n \in Nat
      /\ NoRepeat(file_table)
  BY TableTyped DEF Walked
<1> DEFINE h == Head(q)
           tl == Tail(q)
<1>3. h \in ElementsOf(q)
  BY <1>1 DEF ElementsOf
<1>4. PICK i \in DOMAIN file_table : h = file_table[i]
  <2>1. FoundBy(h, UsesBehind(n, Nothing, p))
    BY <1>3 DEF Follows
  <2>2. CASE h = entry
    BY <1>2, <2>2 DEF Walked
  <2>3. CASE h # entry
    BY <2>1, <2>3 DEF Walked, FoundBy, UsesBehind
  <2> QED BY <2>2, <2>3
<1>5. i > n
  BY <1>2, <1>3, <1>4 DEF Follows
<1>6. i = n + 1
  <2> SUFFICES ASSUME i # n + 1 PROVE FALSE
    OBVIOUS
  <2>1. n \in 0 .. Len(file_table) - 1 /\ n + 1 \in DOMAIN file_table /\ n + 1 < i
    BY <1>2, <1>5
  <2>2. PICK l \in DOMAIN q : q[l] = file_table[n + 1]
    BY <2>1, NextIsWaiting DEF ElementsOf
  <2>3. l # 1
    BY <1>1, <1>2, <1>4, <2>1, <2>2 DEF NoRepeat
  <2>4. 1 \in DOMAIN q /\ 1 < l /\ q[1] = file_table[i]
    BY <1>1, <1>4, <2>3
  <2>5. i < n + 1
    BY <2>1, <2>2, <2>4 DEF Follows
  <2> QED BY <1>2, <2>1, <2>5
<1>7. UsesBehind(n + 1, h, 1) = UsesBehind(n, Nothing, p)
  <2>1. ASSUME NEW x \in Uses PROVE Behind(x, n + 1, h, 1) <=> Behind(x, n, Nothing, p)
    <3>1. x[1] \in Nat /\ x[2] \in Nat \ {0} /\ h # Nothing
      <4>1. x \in Places
        BY DEF Uses
      <4>2. h \in Path
        BY <1>4, TableTyped
      <4> QED BY <4>1, <4>2, PlaceTyped, NothingType DEF Walked
    <3> QED BY <1>2, <3>1 DEF Behind
  <2> QED BY <2>1 DEF UsesBehind
<1> HIDE DEF h, tl
<1>8. ElementsOf(tl) \subseteq ElementsOf(q)
  BY <1>1 DEF ElementsOf, tl
<1>9. ASSUME NEW f \in ElementsOf(q), f # h PROVE f \in ElementsOf(tl)
  <2>1. PICK k \in DOMAIN q : q[k] = f
    BY DEF ElementsOf
  <2>2. k # 1
    BY <1>1, <1>9, <2>1 DEF h
  <2>3. k - 1 \in 1 .. Len(q) - 1 /\ Tail(q)[k - 1] = f
    BY <1>1, <2>1, <2>2
  <2> QED BY <1>1, <2>3 DEF ElementsOf, tl
<1>10. ASSUME NEW k \in DOMAIN tl, NEW l \in DOMAIN tl, NEW a \in DOMAIN file_table, NEW b \in DOMAIN file_table,
             k < l, tl[k] = file_table[a], tl[l] = file_table[b]
      PROVE  a < b
  <2>1. k + 1 \in DOMAIN q /\ l + 1 \in DOMAIN q /\ k + 1 < l + 1 /\ q[k + 1] = file_table[a] /\ q[l + 1] = file_table[b]
    BY <1>1, <1>10 DEF tl
  <2> QED BY <2>1 DEF Follows
<1>11. file_table[n + 1] \notin ElementsOf(tl)
  <2> SUFFICES ASSUME NEW k \in DOMAIN tl, tl[k] = file_table[n + 1] PROVE FALSE
    BY DEF ElementsOf
  <2>1. k + 1 \in DOMAIN q /\ 1 \in DOMAIN q /\ 1 < k + 1 /\ q[k + 1] = file_table[n + 1] /\ q[1] = file_table[n + 1]
    BY <1>1, <1>4, <1>6 DEF tl, h
  <2> QED BY <1>2, <1>4, <1>6, <2>1 DEF Follows
<1>12. ASSUME NEW a \in DOMAIN file_table, a <= n + 1 PROVE file_table[a] \notin ElementsOf(tl)
  BY <1>2, <1>8, <1>11, <1>12 DEF Follows
<1>13. ASSUME NEW a \in DOMAIN file_table, n + 1 < a, file_table[a] \in v PROVE file_table[a] \in ElementsOf(tl)
  <2>1. file_table[a] \in ElementsOf(q)
    BY <1>2, <1>13 DEF Follows
  <2>2. file_table[a] # h
    BY <1>2, <1>4, <1>6, <1>13 DEF NoRepeat
  <2> QED BY <1>9, <2>1, <2>2
<1>14. Follows(n + 1, tl, v, h, 1)
  BY <1>2, <1>4, <1>6, <1>7, <1>8, <1>10, <1>12, <1>13 DEF Follows
<1> QED BY <1>4, <1>6, <1>14 DEF h, tl

\* The file that is open, and the place the second walk has come to in it
LEMMA OpenFile ==
  ASSUME Walked, NEW n \in 0 .. Len(file_table), NEW q, NEW v, NEW r, NEW p \in Nat \ {0},
         Follows(n, q, v, r, p), r # Nothing
  PROVE  /\ n \in DOMAIN file_table /\ n \in Nat /\ r = file_table[n] /\ r \in DOMAIN files
         /\ DOMAIN files[r].stmts = 1 .. Len(files[r].stmts) /\ Len(files[r].stmts) \in Nat
         /\ \A x \in Places : x[1] = n => x[2] <= Len(files[r].stmts)
         /\ \A x \in Places : x = <<x[1], x[2]>> /\ x[1] \in Nat /\ x[2] \in Nat
         /\ p <= Len(files[r].stmts) =>
              /\ <<n, p>> \in Places /\ StmtAt(<<n, p>>) = files[r].stmts[p]
              /\ files[r].stmts[p] \in Use \cup Declaration
<1>1. n \in DOMAIN file_table /\ n \in Nat /\ r = file_table[n] /\ r \in DOMAIN files
  BY TableTyped DEF Follows
<1>2. files[r].stmts \in Seq(Use \cup Declaration)
  BY <1>1, FilesTyped DEF Walked
<1>3. \A x \in Places : x[1] = n => x[2] <= Len(files[r].stmts)
  BY <1>1, PlaceTyped DEF Walked
<1>4. \A x \in Places : x = <<x[1], x[2]>> /\ x[1] \in Nat /\ x[2] \in Nat
  BY PlaceTyped DEF Walked
<1>5. ASSUME p <= Len(files[r].stmts)
      PROVE  /\ <<n, p>> \in Places /\ StmtAt(<<n, p>>) = files[r].stmts[p]
             /\ files[r].stmts[p] \in Use \cup Declaration
  <2>1. p \in DOMAIN files[r].stmts
    BY <1>2, <1>5
  <2>2. <<n, p>>[1] = n /\ <<n, p>>[2] = p
    OBVIOUS
  <2>3. <<n, p>> \in Places
    BY <1>1, <2>1, <2>2, PlaceForm DEF PlacesAre
  <2> QED BY <1>1, <1>2, <2>1, <2>2, <2>3, ElementType DEF StmtAt
<1> QED BY <1>1, <1>2, <1>3, <1>4, <1>5

\* What has been passed when one more statement has
LEMMA OneMore ==
  ASSUME Walked, NEW n \in 0 .. Len(file_table), NEW q, NEW v, NEW r, NEW p \in Nat \ {0},
         Follows(n, q, v, r, p), r # Nothing, p <= Len(files[r].stmts), NEW x \in Places
  PROVE  Behind(x, n, r, p + 1) <=> Behind(x, n, r, p) \/ x = <<n, p>>
<1>1. x = <<x[1], x[2]>> /\ x[1] \in Nat /\ x[2] \in Nat /\ n \in Nat
  BY OpenFile
<1>2. x = <<n, p>> <=> x[1] = n /\ x[2] = p
  BY <1>1
<1> QED BY <1>1, <1>2 DEF Behind

LEMMA UseFollows ==
  ASSUME Walked, NEW n \in 0 .. Len(file_table), NEW q \in Seq(Path), NEW v, NEW r, NEW p \in Nat \ {0},
         Follows(n, q, v, r, p), r # Nothing, p <= Len(files[r].stmts), IsUse(files[r].stmts[p]),
         NEW f, f = PathOf[files[r].stmts[p].namespace]
  PROVE  /\ f \in v => Follows(n, q, v, r, p + 1)
         /\ f \notin v => Follows(n, Append(q, f), v \cup {f}, r, p + 1)
<1> DEFINE u == <<n, p>>
<1>1. /\ n \in DOMAIN file_table /\ u \in Uses /\ Target(u) = f /\ f \in Path /\ r = file_table[n] /\ n \in Nat
      /\ u[1] = n /\ u[2] = p
  <2>1. u \in Uses /\ Target(u) = f /\ n \in DOMAIN file_table /\ r = file_table[n] /\ n \in Nat
    BY OpenFile DEF Uses, Target
  <2>2. f \in Path
    BY <2>1, UseTyped DEF Walked
  <2> QED BY <2>1, <2>2
<1>2. UsesBehind(n, r, p + 1) = UsesBehind(n, r, p) \cup {u}
  BY <1>1, OneMore DEF UsesBehind, Uses
<1> HIDE DEF u
<1>3. \A g : FoundBy(g, UsesBehind(n, r, p + 1)) <=> FoundBy(g, UsesBehind(n, r, p)) \/ g = f
  BY <1>1, <1>2 DEF FoundBy
<1>4. ASSUME f \in v PROVE Follows(n, q, v, r, p + 1)
  BY <1>3, <1>4 DEF Follows
<1>5. ASSUME f \notin v PROVE Follows(n, Append(q, f), v \cup {f}, r, p + 1)
  <2>1. ElementsOf(Append(q, f)) = ElementsOf(q) \cup {f}
    BY <1>1, AppendElements
  <2>2. \A g : g \in v \cup {f} <=> FoundBy(g, UsesBehind(n, r, p + 1))
    BY <1>3 DEF Follows
  <2>3. DOMAIN file_table \subseteq Nat
    BY TableTyped
  <2>4. ASSUME NEW i \in DOMAIN file_table, i <= n PROVE file_table[i] \in v
    <3>1. FoundBy(file_table[i], {x \in Uses : x[1] < i})
      BY DEF Walked
    <3>2. {x \in Uses : x[1] < i} \subseteq UsesBehind(n, r, p)
      BY <1>1, <2>3, <2>4, UseTyped DEF UsesBehind, Behind, Walked
    <3> QED BY <3>1, <3>2 DEF Follows, FoundBy
  <2>5. ASSUME NEW k \in DOMAIN q, NEW i \in DOMAIN file_table, NEW j \in DOMAIN file_table,
               q[k] = file_table[i], f = file_table[j]
        PROVE  i < j
    <3> SUFFICES ASSUME ~ i < j PROVE FALSE
      OBVIOUS
    <3>1. file_table[i] \in v
      BY <2>5 DEF Follows, ElementsOf
    <3>2. j < i
      <4>1. i # j
        BY <1>5, <2>5, <3>1
      <4> QED BY <2>3, <4>1
    <3>3. FoundBefore(Uses, file_table[j], file_table[i])
      BY <3>2 DEF Walked
    <3>4. file_table[i] # entry
      <4>1. 1 \in DOMAIN file_table /\ file_table[1] = entry /\ NoRepeat(file_table) /\ 1 <= j
        BY TableTyped DEF Walked
      <4> QED BY <2>3, <3>2, <4>1 DEF NoRepeat
    <3>5. PICK y \in UsesBehind(n, r, p) : Target(y) = file_table[i]
      BY <3>1, <3>4 DEF Follows, FoundBy
    <3>6. FoundBy(f, Earlier(y))
      BY <2>5, <3>3, <3>5 DEF FoundBefore, UsesBehind
    <3>7. Earlier(y) \subseteq UsesBehind(n, r, p)
      <4>1. ASSUME NEW x \in Earlier(y) PROVE x \in UsesBehind(n, r, p)
        <5>1. x \in Uses /\ y \in Uses /\ x[1] \in Nat /\ x[2] \in Nat /\ y[1] \in Nat /\ y[2] \in Nat
          BY UseTyped DEF Earlier, UsesBehind, Walked
        <5> QED BY <1>1, <5>1 DEF Earlier, UsesBehind, Behind
      <4> QED BY <4>1
    <3>8. f \in v
      BY <3>6, <3>7 DEF Follows, FoundBy
    <3> QED BY <1>5, <3>8
  <2>6. /\ DOMAIN Append(q, f) = 1 .. Len(q) + 1 /\ DOMAIN q = 1 .. Len(q) /\ Len(q) \in Nat
        /\ \A k \in 1 .. Len(q) : Append(q, f)[k] = q[k]
        /\ Append(q, f)[Len(q) + 1] = f
    OBVIOUS
  <2>7. ASSUME NEW k \in DOMAIN Append(q, f), NEW l \in DOMAIN Append(q, f),
               NEW i \in DOMAIN file_table, NEW j \in DOMAIN file_table,
               k < l, Append(q, f)[k] = file_table[i], Append(q, f)[l] = file_table[j]
        PROVE  i < j
    <3>1. k \in DOMAIN q /\ q[k] = file_table[i]
      BY <2>6, <2>7
    <3>2. CASE l = Len(q) + 1
      BY <2>5, <2>6, <2>7, <3>1, <3>2
    <3>3. CASE l # Len(q) + 1
      <4>1. l \in DOMAIN q /\ q[l] = file_table[j]
        BY <2>6, <2>7, <3>3
      <4> QED BY <2>7, <3>1, <4>1 DEF Follows
    <3> QED BY <3>2, <3>3
  <2>8. ASSUME NEW i \in DOMAIN file_table, i <= n PROVE file_table[i] \notin ElementsOf(q) \cup {f}
    BY <1>5, <2>4, <2>8 DEF Follows
  <2>9. ASSUME NEW i \in DOMAIN file_table, n < i, file_table[i] \in v \cup {f}
        PROVE  file_table[i] \in ElementsOf(q) \cup {f}
    BY <2>9 DEF Follows
  <2>10. ElementsOf(q) \cup {f} \subseteq v \cup {f} /\ (r # Nothing => n # 0 /\ r = file_table[n])
    BY DEF Follows
  <2> QED BY <2>1, <2>2, <2>7, <2>8, <2>9, <2>10 DEF Follows
<1> QED BY <1>4, <1>5

LEMMA DeclarationFollows ==
  ASSUME Walked, NEW n \in 0 .. Len(file_table), NEW q \in Seq(Path), NEW v, NEW r, NEW p \in Nat \ {0},
         Follows(n, q, v, r, p), r # Nothing, p <= Len(files[r].stmts), ~ IsUse(files[r].stmts[p])
  PROVE  Follows(n, q, v, r, p + 1)
<1>1. <<n, p>> \notin Uses
  BY OpenFile DEF Uses
<1>2. UsesBehind(n, r, p + 1) = UsesBehind(n, r, p)
  BY <1>1, OneMore DEF UsesBehind, Uses
<1> QED BY <1>2 DEF Follows

LEMMA LeaveFollows ==
  ASSUME Walked, NEW n \in 0 .. Len(file_table), NEW q \in Seq(Path), NEW v, NEW r, NEW p \in Nat \ {0},
         Follows(n, q, v, r, p), r # Nothing, p > Len(files[r].stmts)
  PROVE  Follows(n, q, v, Nothing, p) /\ LaidBehind(n, Nothing, p) = LaidBehind(n, r, p)
<1>1. \A x \in Places : Behind(x, n, Nothing, p) <=> Behind(x, n, r, p)
  <2>1. \A x \in Places : x[2] \in Nat /\ (x[1] = n => x[2] <= Len(files[r].stmts))
    BY OpenFile
  <2>2. Len(files[r].stmts) \in Nat
    BY OpenFile
  <2>3. \A x \in Places : x[1] = n => x[2] < p
    BY <2>1, <2>2
  <2> QED BY <2>3 DEF Behind
<1>2. UsesBehind(n, Nothing, p) = UsesBehind(n, r, p)
  BY <1>1 DEF UsesBehind, Uses
<1>3. Declarations \subseteq Places
  BY DeclarationForm, PlaceForm DEF DeclarationsAre, PlacesAre
<1> QED BY <1>1, <1>2, <1>3 DEF Follows, LaidBehind

-----------------------------------------------------------------------------
(* The statements the second walk collects.                                *)

Collected(n, r, p, s) ==
  /\ s \in Seq(Declaration)
  /\ Len(s) = Cardinality(LaidBehind(n, r, p))
  /\ \A x \in LaidBehind(n, r, p) : s[Place(x)] = StmtAt(x)

LEMMA DeclarationIsPlace == Declarations = {x \in Places : ~ IsUse(StmtAt(x))}
BY DeclarationForm, PlaceForm DEF DeclarationsAre, PlacesAre

LEMMA ReadCollects ==
  ASSUME Walked, NEW n \in 0 .. Len(file_table), NEW r, r # Nothing, NEW p
  PROVE  LaidBehind(n + 1, r, 1) = LaidBehind(n, Nothing, p)
<1>1. n \in Nat
  BY TableTyped
<1>2. \A x \in Declarations : x[1] \in Nat /\ x[2] \in Nat \ {0}
  BY DeclarationTyped DEF Walked
<1> QED BY <1>1, <1>2 DEF LaidBehind, Behind

LEMMA UseCollects ==
  ASSUME Walked, NEW n \in 0 .. Len(file_table), NEW q, NEW v, NEW r, NEW p \in Nat \ {0},
         Follows(n, q, v, r, p), r # Nothing, p <= Len(files[r].stmts), IsUse(files[r].stmts[p])
  PROVE  LaidBehind(n, r, p + 1) = LaidBehind(n, r, p)
<1>1. <<n, p>> \notin Declarations
  BY OpenFile, DeclarationIsPlace
<1> QED BY <1>1, OneMore, DeclarationIsPlace DEF LaidBehind

LEMMA DeclarationCollects ==
  ASSUME Walked, IsFiniteSet(Declarations),
         NEW n \in 0 .. Len(file_table), NEW q, NEW v, NEW r, NEW p \in Nat \ {0}, NEW s,
         Follows(n, q, v, r, p), r # Nothing, p <= Len(files[r].stmts), ~ IsUse(files[r].stmts[p]),
         Collected(n, r, p, s)
  PROVE  Collected(n, r, p + 1, Append(s, files[r].stmts[p]))
<1> DEFINE new == <<n, p>>
           stmt == files[r].stmts[p]
           old == LaidBehind(n, r, p)
           now == LaidBehind(n, r, p + 1)
<1>1. /\ n \in Nat /\ new \in Declarations /\ StmtAt(new) = stmt /\ stmt \in Declaration
      /\ new[1] = n /\ new[2] = p
  <2>1. n \in Nat /\ new \in Places /\ StmtAt(new) = stmt /\ stmt \in Use \cup Declaration
    BY OpenFile
  <2>2. stmt \in Declaration
    BY <2>1 DEF IsUse, Use
  <2> QED BY <2>1, <2>2, DeclarationIsPlace
<1>2. \A x \in Declarations : x = <<x[1], x[2]>> /\ x[1] \in Nat /\ x[2] \in Nat
  BY DeclarationTyped DEF Walked
<1>3. now = old \cup {new}
  BY <1>1, OneMore, DeclarationIsPlace DEF LaidBehind
<1>4. new \notin old
  BY <1>1 DEF LaidBehind, Behind
<1>5. UpToHere(new) = now
  BY <1>1, <1>2 DEF UpToHere, LaidBehind, Behind
<1>6. IsFiniteSet(old)
  BY FS_Subset DEF LaidBehind
<1>7. /\ s \in Seq(Declaration) /\ Len(s) = Cardinality(old) /\ \A x \in old : s[Place(x)] = StmtAt(x)
  BY DEF Collected
<1>8. ASSUME NEW x \in old PROVE Place(x) \in 1 .. Len(s)
  <2>1. x \in Declarations
    BY DEF LaidBehind
  <2>2. UpToHere(x) \subseteq old
    BY <1>1, <1>2, <2>1 DEF UpToHere, LaidBehind, Behind
  <2> QED BY <1>6, <1>7, <2>1, <2>2, PlaceInRange DEF Walked
<1> HIDE DEF new, stmt, old, now
<1>9. IsFiniteSet(now) /\ Cardinality(now) = Len(s) + 1
  BY <1>3, <1>4, <1>6, <1>7, FS_AddElement
<1>10. Place(new) = Len(s) + 1
  BY <1>5, <1>9 DEF Place
<1>11. /\ Append(s, stmt) \in Seq(Declaration) /\ Len(Append(s, stmt)) = Len(s) + 1
       /\ Append(s, stmt)[Len(s) + 1] = stmt
       /\ \A k \in 1 .. Len(s) : Append(s, stmt)[k] = s[k]
  BY <1>1, <1>7
<1>12. \A x \in now : Append(s, stmt)[Place(x)] = StmtAt(x)
  BY <1>1, <1>3, <1>7, <1>8, <1>10, <1>11
<1> QED BY <1>9, <1>11, <1>12 DEF Collected, now, stmt

-----------------------------------------------------------------------------
(* The two calls.                                                          *)

Second ==
  \E n \in 0 .. Len(file_table) :
    /\ gPos \in Nat \ {0} /\ gQueue \in Seq(Path)
    /\ Follows(n, gQueue, gVisited, gReading, gPos)
    /\ Collected(n, gReading, gPos, gStatements)
    /\ gDone => n = Len(file_table) /\ gReading = Nothing

\* The graph is compiled from files the first call has been through
TwoCalls ==
  IF phase = "done" THEN entry \in DOMAIN files => Second ELSE Graph!Start

\* The second call leaves what the first one found
LEMMA SecondStays ==
  ASSUME UNCHANGED <<files, entry, file_table>>, NEW n \in 0 .. Len(file_table),
         gPos' \in Nat \ {0}, gQueue' \in Seq(Path),
         Follows(n, gQueue', gVisited', gReading', gPos'),
         Collected(n, gReading', gPos', gStatements'),
         gDone' => n = Len(file_table) /\ gReading' = Nothing
  PROVE  Second'
<1>1. Places' = Places /\ \A x : StmtAt(x)' = StmtAt(x)
  BY DEF Places, StmtAt
<1>2. Uses' = Uses /\ Declarations' = Declarations /\ \A x : Target(x)' = Target(x)
  BY <1>1 DEF Uses, Declarations, Target, IsUse
<1>3. \A x : Place(x)' = Place(x)
  BY <1>2 DEF Place, UpToHere
<1>4. UsesBehind(n, gReading, gPos)' = UsesBehind(n, gReading', gPos')
  BY <1>2 DEF UsesBehind, Behind
<1>5. LaidBehind(n, gReading, gPos)' = LaidBehind(n, gReading', gPos')
  BY <1>2 DEF LaidBehind, Behind
<1>6. Follows(n, gQueue, gVisited, gReading, gPos)'
  BY <1>2, <1>4 DEF Follows, FoundBy, ElementsOf
<1>7. Collected(n, gReading, gPos, gStatements)'
  BY <1>1, <1>3, <1>5 DEF Collected
<1> QED BY <1>6, <1>7 DEF Second

LEMMA SecondStep ==
  ASSUME Walked, IsFiniteSet(Declarations), Second, Graph!Next, UNCHANGED file_table
  PROVE  Second'
<1>1. PICK n \in 0 .. Len(file_table) :
        /\ gPos \in Nat \ {0} /\ gQueue \in Seq(Path)
        /\ Follows(n, gQueue, gVisited, gReading, gPos)
        /\ Collected(n, gReading, gPos, gStatements)
        /\ gDone => n = Len(file_table) /\ gReading = Nothing
  BY DEF Second
<1>2. UNCHANGED <<files, entry, file_table>> /\ Len(file_table) \in Nat
  BY TableTyped DEF Graph!Next, Graph!Skip, Graph!Read, Graph!Follow, Graph!Collect, Graph!Leave, Graph!Compile
<1>3. CASE Graph!Skip
  <2>1. Follows(n, gQueue', gVisited', gReading', gPos') /\ gQueue' \in Seq(Path)
    BY <1>1, <1>3, SkipFollows DEF Graph!Skip
  <2> QED BY <1>1, <1>2, <1>3, <2>1, SecondStays DEF Graph!Skip
<1>4. CASE Graph!Read
  <2>1. gReading = Nothing /\ ~ gDone
    BY <1>4 DEF Graph!Read, Graph!Idle
  <2>2. n + 1 \in DOMAIN file_table /\ Follows(n + 1, gQueue', gVisited', gReading', gPos') /\ gQueue' \in Seq(Path)
    BY <1>1, <1>4, <2>1, ReadFollows DEF Graph!Read
  <2>3. n + 1 \in 0 .. Len(file_table) /\ gPos' \in Nat \ {0}
    BY <1>2, <1>4, <2>2, TableTyped DEF Graph!Read
  <2>4. gReading' # Nothing
    <3>1. gReading' \in Path
      BY <1>1, <1>4 DEF Graph!Read
    <3> QED BY <3>1, NothingType
  <2>5. LaidBehind(n + 1, gReading', gPos') = LaidBehind(n, gReading, gPos)
    BY <1>4, <2>1, <2>4, ReadCollects DEF Graph!Read
  <2>6. Collected(n + 1, gReading', gPos', gStatements')
    BY <1>1, <1>4, <2>5 DEF Graph!Read, Collected
  <2> QED BY <1>2, <1>4, <2>1, <2>2, <2>3, <2>6, SecondStays DEF Graph!Read
<1>5. ASSUME Graph!InFile
      PROVE  /\ gReading # Nothing /\ gPos <= Len(files[gReading].stmts) /\ ~ gDone /\ gPos + 1 \in Nat \ {0}
             /\ Graph!Stmt = files[gReading].stmts[gPos]
  BY <1>1, <1>5 DEF Graph!InFile, Graph!Stmt
<1>6. CASE Graph!Follow
  <2>1. Graph!InFile /\ IsUse(Graph!Stmt)
    BY <1>6 DEF Graph!Follow, IsUse
  <2> DEFINE f == PathOf[files[gReading].stmts[gPos].namespace]
  <2>2. /\ f \in gVisited => UNCHANGED <<gQueue, gVisited>>
        /\ f \notin gVisited => gQueue' = Append(gQueue, f) /\ gVisited' = gVisited \cup {f}
        /\ UNCHANGED <<gReading, gStatements, gDone>> /\ gPos' = gPos + 1
    BY <1>5, <1>6, <2>1 DEF Graph!Follow, Graph!Enqueue
  <2>3. Follows(n, gQueue', gVisited', gReading', gPos')
    <3>1. /\ f \in gVisited => Follows(n, gQueue, gVisited, gReading, gPos + 1)
          /\ f \notin gVisited => Follows(n, Append(gQueue, f), gVisited \cup {f}, gReading, gPos + 1)
      BY <1>1, <1>5, <2>1, UseFollows
    <3> QED BY <2>2, <3>1
  <2>4. gQueue' \in Seq(Path)
    <3>1. <<n, gPos>> \in Places /\ StmtAt(<<n, gPos>>) = files[gReading].stmts[gPos]
      BY <1>1, <1>5, <2>1, OpenFile
    <3>2. f \in Path
      BY <1>5, <2>1, <3>1, UseTyped DEF Uses, Target, Walked
    <3> QED BY <1>1, <2>2, <3>2
  <2>5. Collected(n, gReading', gPos', gStatements')
    <3>1. LaidBehind(n, gReading, gPos + 1) = LaidBehind(n, gReading, gPos)
      BY <1>1, <1>5, <2>1, UseCollects
    <3> QED BY <1>1, <2>2, <3>1 DEF Collected
  <2> QED BY <1>1, <1>2, <1>5, <2>1, <2>2, <2>3, <2>4, <2>5, SecondStays
<1>7. CASE Graph!Collect
  <2>1. Graph!InFile /\ ~ IsUse(Graph!Stmt)
    BY <1>7 DEF Graph!Collect, IsUse
  <2>2. /\ UNCHANGED <<gQueue, gVisited, gReading, gDone>> /\ gPos' = gPos + 1
        /\ gStatements' = Append(gStatements, files[gReading].stmts[gPos])
    BY <1>5, <1>7, <2>1 DEF Graph!Collect
  <2>3. Follows(n, gQueue', gVisited', gReading', gPos')
    BY <1>1, <1>5, <2>1, <2>2, DeclarationFollows
  <2>4. Collected(n, gReading', gPos', gStatements')
    BY <1>1, <1>5, <2>1, <2>2, DeclarationCollects
  <2> QED BY <1>1, <1>2, <1>5, <2>1, <2>2, <2>3, <2>4, SecondStays
<1>8. CASE Graph!Leave
  <2>1. /\ UNCHANGED <<gQueue, gVisited, gPos, gStatements, gDone>> /\ gReading # Nothing /\ gReading' = Nothing
        /\ gPos > Len(files[gReading].stmts)
    BY <1>8 DEF Graph!Leave
  <2>2. /\ Follows(n, gQueue', gVisited', gReading', gPos')
        /\ LaidBehind(n, gReading', gPos') = LaidBehind(n, gReading, gPos)
    BY <1>1, <2>1, LeaveFollows
  <2>3. Collected(n, gReading', gPos', gStatements')
    BY <1>1, <2>1, <2>2 DEF Collected
  <2> QED BY <1>1, <1>2, <2>1, <2>2, <2>3, SecondStays
<1>9. CASE Graph!Compile
  <2>1. /\ UNCHANGED <<gQueue, gVisited, gReading, gPos, gStatements>> /\ gReading = Nothing /\ gQueue = <<>>
    BY <1>9 DEF Graph!Compile, Graph!Idle
  <2>2. n = Len(file_table)
    <3> SUFFICES ASSUME n # Len(file_table) PROVE FALSE
      OBVIOUS
    <3>1. Follows(n, gQueue, gVisited, Nothing, gPos) /\ n \in 0 .. Len(file_table) - 1
      BY <1>1, <1>2, <2>1
    <3>2. file_table[n + 1] \in ElementsOf(gQueue)
      BY <1>1, <3>1, NextIsWaiting
    <3> QED BY <2>1, <3>2 DEF ElementsOf
  <2> QED BY <1>1, <1>2, <2>1, <2>2, SecondStays
<1> QED BY <1>3, <1>4, <1>6, <1>7, <1>8, <1>9 DEF Graph!Next

VInv == IInv /\ Ordered /\ Merged /\ Found /\ Defined /\ TwoCalls

LEMMA ViewsInitInv == ViewsInit => VInv
<1> SUFFICES ASSUME Init, Graph!Start PROVE VInv
  BY DEF ViewsInit
<1>1. Uses = {} /\ Laid = {} /\ Len(merged) = 0 /\ DOMAIN template_defs = {}
  BY DEF Init, Uses, Places, Laid, Declarations
<1>2. Ordered
  BY DEF Init, Ordered, InOrder
<1>3. Merged
  <2>1. DOMAIN merged = {}
    BY DEF Init
  <2> QED BY <1>1, <2>1, FS_EmptySet DEF Merged
<1>4. Found
  BY <1>1 DEF Init, Found, Sequential
<1>5. Defined
  BY <1>1 DEF Defined
<1>6. TwoCalls
  BY DEF TwoCalls, Init
<1> QED BY <1>2, <1>3, <1>4, <1>5, <1>6, InitInv DEF VInv

\* The first call ends and the second begins
LEMMA SecondBegins ==
  ASSUME VInv, Finish, Graph!Start, UNCHANGED graphVars
  PROVE  Second'
<1>1. /\ UNCHANGED <<files, entry, file_table>> /\ Len(file_table) \in Nat /\ 0 \in 0 .. Len(file_table)
      /\ DOMAIN file_table = 1 .. Len(file_table)
  BY DEF Finish, VInv, IInv, TypeOK
<1>2. /\ gPos' = 1 /\ gReading' = Nothing /\ gQueue' = <<entry>> /\ gVisited' = {entry}
      /\ gStatements' = <<>> /\ gDone' = FALSE
  BY DEF Graph!Start, graphVars
<1>3. gQueue' \in Seq(Path) /\ gPos' \in Nat \ {0}
  BY <1>2 DEF VInv, IInv, TypeOK
<1>4. UsesBehind(0, Nothing, 1) = {} /\ LaidBehind(0, Nothing, 1) = {}
  BY UseTyped, DeclarationTyped DEF UsesBehind, LaidBehind, Behind, VInv, IInv
<1>5. ElementsOf(gQueue') = {entry} /\ DOMAIN gQueue' = {1}
  BY <1>2 DEF ElementsOf
<1>6. Follows(0, gQueue', gVisited', gReading', gPos')
  BY <1>1, <1>2, <1>4, <1>5 DEF Follows, FoundBy
<1>7. Collected(0, gReading', gPos', gStatements')
  <2>1. gStatements' \in Seq(Declaration) /\ Len(gStatements') = 0
    BY <1>2
  <2> QED BY <1>2, <1>4, <2>1, FS_EmptySet DEF Collected
<1> QED BY <1>1, <1>2, <1>3, <1>6, <1>7, SecondStays

LEMMA ViewsInvariant == VInv /\ [ViewsNext]_<<vars, graphVars>> => VInv'
<1> SUFFICES ASSUME VInv, [ViewsNext]_<<vars, graphVars>> PROVE VInv'
  OBVIOUS
<1>1. ASSUME Graph!Next PROVE UNCHANGED <<files, entry>>
  BY <1>1 DEF Graph!Next, Graph!Skip, Graph!Read, Graph!Follow, Graph!Collect, Graph!Leave, Graph!Compile
<1>2. [Next]_vars
  BY <1>1 DEF ViewsNext, vars
<1>3. IInv' /\ Ordered' /\ Merged' /\ Found' /\ Defined'
  BY <1>2, InvariantStep, OrderedStep, MergedStep, FoundStep, DefinedStep DEF VInv
<1> SUFFICES TwoCalls'
  BY <1>3 DEF VInv
<1>4. CASE Next /\ UNCHANGED graphVars
  <2>1. phase # "done"
    BY <1>4 DEF Next, EntryMissing, Begin, MissingFile, ReadFile, FollowUse, MergeTemplate, MergeOther, Reads,
                EndOfFile, Finish
  <2>2. Graph!Start
    BY <2>1 DEF VInv, TwoCalls
  <2>3. CASE Finish
    BY <1>4, <2>2, <2>3, SecondBegins DEF TwoCalls, Finish
  <2>4. CASE EntryMissing
    BY <2>4 DEF EntryMissing, TwoCalls
  <2>5. CASE ~ Finish /\ ~ EntryMissing
    <3>1. phase' # "done" /\ entry' = entry
      BY <1>4, <2>1, <2>5 DEF Next, Begin, MissingFile, ReadFile, FollowUse, MergeTemplate, MergeOther, Reads, EndOfFile
    <3>2. Graph!Start'
      BY <1>4, <2>2, <3>1 DEF Graph!Start, graphVars
    <3> QED BY <3>1, <3>2 DEF TwoCalls
  <2> QED BY <2>3, <2>4, <2>5
<1>5. CASE /\ phase = "done" /\ Graph!Next
           /\ UNCHANGED <<phase, file_table, merged, template_defs, use_graph, errors, drc, queue, visited, pos>>
  <2>1. UNCHANGED <<phase, files, entry, file_table>>
    BY <1>1, <1>5
  <2>2. ASSUME entry \in DOMAIN files PROVE Second'
    <3>1. Walked /\ Second
      BY <1>5, <2>2, FirstWalkOver DEF VInv, TwoCalls
    <3>2. IsFiniteSet(Declarations)
      <4>1. Laid = Declarations
        BY <1>5 DEF Laid
      <4> QED BY <4>1 DEF VInv, Merged
    <3> QED BY <1>5, <3>1, <3>2, SecondStep
  <2> QED BY <1>5, <2>1, <2>2 DEF TwoCalls
<1>6. CASE UNCHANGED <<vars, graphVars>>
  <2>1. UNCHANGED <<phase, files, entry, file_table, gQueue, gVisited, gReading, gPos, gStatements, gDone>>
    BY <1>6 DEF vars, graphVars
  <2>2. ASSUME Second PROVE Second'
    <3>1. PICK n \in 0 .. Len(file_table) :
            /\ gPos \in Nat \ {0} /\ gQueue \in Seq(Path)
            /\ Follows(n, gQueue, gVisited, gReading, gPos)
            /\ Collected(n, gReading, gPos, gStatements)
            /\ gDone => n = Len(file_table) /\ gReading = Nothing
      BY <2>2 DEF Second
    <3> QED BY <2>1, <3>1, SecondStays
  <2>3. Graph!Start => Graph!Start'
    BY <2>1 DEF Graph!Start
  <2> QED BY <2>1, <2>2, <2>3 DEF TwoCalls, VInv
<1> QED BY <1>4, <1>5, <1>6 DEF ViewsNext

\* When both calls are over they have merged the same statements
LEMMA SameStatements ==
  ASSUME VInv, phase = "done", gDone, entry \in DOMAIN files
  PROVE  /\ gStatements = [k \in DOMAIN merged |-> merged[k].stmt]
         /\ Laid = Declarations
<1> DEFINE N == Len(file_table)
<1>1. Laid = Declarations
  BY DEF Laid
<1>2. PICK n \in 0 .. N : /\ Collected(n, gReading, gPos, gStatements)
                          /\ n = N /\ gReading = Nothing
  BY DEF VInv, TwoCalls, Second
<1>3. LaidBehind(n, gReading, gPos) = Declarations
  <2>1. \A x \in Declarations : x[1] \in 1 .. N /\ N \in Nat
    BY DeclarationTyped DEF VInv, IInv
  <2> QED BY <1>2, <2>1 DEF LaidBehind, Behind
<1>4. /\ gStatements \in Seq(Declaration) /\ Len(gStatements) = Cardinality(Declarations)
      /\ \A x \in Declarations : gStatements[Place(x)] = StmtAt(x)
  BY <1>2, <1>3 DEF Collected
<1>5. /\ merged \in Seq([stmt : Declaration, file : Nat]) /\ Len(merged) = Cardinality(Declarations)
  BY <1>1 DEF VInv, IInv, TypeOK, Merged
<1>6. DOMAIN gStatements = DOMAIN merged
  BY <1>4, <1>5
<1>7. ASSUME NEW k \in DOMAIN merged PROVE gStatements[k] = merged[k].stmt
  <2>1. PICK x \in Declarations : Place(x) = k
    BY <1>1 DEF VInv, Merged
  <2>2. merged[k] = [stmt |-> StmtAt(x), file |-> (x[1] - 1) % IndexRange]
    BY <1>1, <2>1 DEF VInv, Merged
  <2> QED BY <1>4, <2>1, <2>2
<1>8. gStatements = [k \in DOMAIN gStatements |-> gStatements[k]]
  BY <1>4
<1> QED BY <1>1, <1>6, <1>7, <1>8

\* compile_project and compile_project_to_graph agree on every project: they
\* merge the same statements in the same order, and without errors templateFiles
\* names the file of the template the graph is drawn with, as long as an index of
\* 16 bits tells the files apart
THEOREM WalksAgree == ViewsSpec => [](Len(file_table) <= IndexRange => GraphAgrees)
<1>1. ViewsSpec => []VInv
  BY ViewsInitInv, ViewsInvariant, PTL DEF ViewsSpec
<1>2. VInv => (Len(file_table) <= IndexRange => GraphAgrees)
  <2> SUFFICES ASSUME VInv, Len(file_table) <= IndexRange, gDone, entry \in DOMAIN files
               PROVE  /\ gStatements = [k \in DOMAIN merged |-> merged[k].stmt]
                      /\ errors = {} =>
                           \A t \in DOMAIN template_defs :
                             template_defs[t] = file_table[merged[Graph!TemplateIndex(t)].file + 1]
    BY DEF GraphAgrees
  <2>1. phase = "done"
    BY DEF VInv, TwoCalls, Graph!Start
  <2>2. gStatements = [k \in DOMAIN merged |-> merged[k].stmt] /\ Laid = Declarations
    BY <2>1, SameStatements
  <2>3. ASSUME errors = {}, NEW t \in DOMAIN template_defs
        PROVE  template_defs[t] = file_table[merged[Graph!TemplateIndex(t)].file + 1]
    <3>1. PICK x \in Laid : IsTemplate(StmtAt(x)) /\ StmtAt(x).name = t
      BY DEF VInv, Defined
    <3>2. /\ merged[Place(x)] = [stmt |-> StmtAt(x), file |-> (x[1] - 1) % IndexRange]
          /\ template_defs[t] = file_table[x[1]]
      BY <2>3, <3>1 DEF VInv, Merged, Defined
    <3>3. ASSUME NEW k \in DOMAIN gStatements, gStatements[k].kind = "template", gStatements[k].name = t
          PROVE  k = Place(x)
      <4>1. PICK y \in Laid : Place(y) = k
        BY <2>2 DEF VInv, Merged
      <4>2. gStatements[k] = StmtAt(y)
        <5>1. merged[k] = [stmt |-> StmtAt(y), file |-> (y[1] - 1) % IndexRange]
          BY <4>1 DEF VInv, Merged
        <5> QED BY <2>2, <5>1
      <4>3. y = x
        BY <2>3, <3>1, <3>3, <4>2 DEF VInv, Defined, IsTemplate
      <4> QED BY <4>1, <4>3
    <3>4. Place(x) \in DOMAIN gStatements /\ gStatements[Place(x)] = StmtAt(x)
      <4>1. Place(x) \in DOMAIN merged
        <5>1. Place(x) \in 1 .. Cardinality(Laid)
          BY <2>2, PlaceInRange DEF VInv, IInv, Merged, UpToHere
        <5> QED BY <5>1 DEF VInv, Merged, IInv, TypeOK
      <4> QED BY <2>2, <3>2, <4>1
    <3>5. Graph!TemplateIndex(t) = Place(x)
      <4>1. \A k \in DOMAIN gStatements :
              gStatements[k].kind = "template" /\ gStatements[k].name = t => k <= Place(x)
        <5>1. DOMAIN gStatements = DOMAIN merged /\ DOMAIN merged \subseteq Nat
          BY <2>2 DEF VInv, IInv, TypeOK
        <5>2. Place(x) \in Nat
          BY <3>4, <5>1
        <5> QED BY <3>3, <5>2
      <4> QED BY <3>1, <3>3, <3>4, <4>1 DEF Graph!TemplateIndex, IsTemplate
    <3>6. ((x[1] - 1) % IndexRange) + 1 = x[1]
      <4>1. x[1] \in 1 .. Len(file_table) /\ Len(file_table) \in Nat
        BY <2>2, DeclarationTyped DEF VInv, IInv
      <4>2. x[1] - 1 \in 0 .. IndexRange - 1
        BY <4>1, IndexRangeType
      <4> QED BY <4>1, <4>2, IndexRangeType
    <3> QED BY <3>2, <3>5, <3>6
  <2> QED BY <2>2, <2>3
<1> QED BY <1>1, <1>2, PTL
=============================================================================
