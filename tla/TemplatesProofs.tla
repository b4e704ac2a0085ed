-------------------------- MODULE TemplatesProofs --------------------------
(***************************************************************************)
(* Templates, for any number of threads, names, rows and files: types, and *)
(* the promises that rows, files, the cache and their uses keep to each    *)
(* other.                                                                  *)
(***************************************************************************)
EXTENDS Templates, TLAPS

----------------------------------------------------------------------------
(* Types *)

WithId == Steps \ {"idle", "upload", "find", "insert"}

(* What a thread holds at its next step. *)
Holds(t) ==
    /\ pc[t] \in {"upload", "find", "insert"} => name[t] \in Names
    /\ pc[t] \in WithId => id[t] \in Ids /\ id[t] < nextId
    /\ pc[t] \in {"find", "insert", "update", "lookup", "fetch"} =>
         file[t] \in Ids

TypeInv ==
    /\ TypeOK
    /\ \A i \in DOMAIN cache : i < nextId
    /\ \A t \in Threads : Holds(t)

LEMMA TypeInvInit == Init => TypeInv
  BY DEF Init, TypeInv, TypeOK, Holds, Ids, Steps, WithId

(* The threads that a turn leaves alone hold what they held. *)
LEMMA TurnTypes ==
    ASSUME TypeInv, NEW t \in Threads, NEW s, NEW next \in Steps,
           NEW n \in Names \cup {None}, NEW i \in Ids \cup {None},
           NEW f \in Ids \cup {None}, Turn(t, s, next, n, i, f),
           nextId' \in Ids, nextId' >= nextId,
           next \in {"upload", "find", "insert"} => n \in Names,
           next \in WithId => i \in Ids /\ i < nextId,
           next \in {"find", "insert", "update", "lookup", "fetch"} => f \in Ids
    PROVE  /\ (pc \in [Threads -> Steps])'
           /\ (name \in [Threads -> Names \cup {None}])'
           /\ (id \in [Threads -> Ids \cup {None}])'
           /\ (file \in [Threads -> Ids \cup {None}])'
           /\ \A x \in Threads : Holds(x)'
  <1>1. /\ (pc \in [Threads -> Steps])'
        /\ (name \in [Threads -> Names \cup {None}])'
        /\ (id \in [Threads -> Ids \cup {None}])'
        /\ (file \in [Threads -> Ids \cup {None}])'
    BY DEF Turn, TypeInv, TypeOK
  <1>2. ASSUME NEW x \in Threads PROVE Holds(x)'
    <2>1. CASE x = t
      <3>1. pc[t]' = next /\ name[t]' = n /\ id[t]' = i /\ file[t]' = f
        BY DEF Turn, TypeInv, TypeOK
      <3> QED BY <2>1, <3>1 DEF Holds, Ids, TypeInv, TypeOK
    <2>2. CASE x # t
      <3>1. /\ pc[x]' = pc[x] /\ name[x]' = name[x] /\ id[x]' = id[x]
            /\ file[x]' = file[x]
        BY <2>2 DEF Turn, TypeInv, TypeOK
      <3> QED BY <3>1 DEF Holds, Ids, TypeInv, TypeOK
    <2> QED BY <2>1, <2>2
  <1> QED BY <1>1, <1>2

RowsOK ==
    /\ rows \subseteq TemplateRows
    /\ nextId \in Ids
    /\ \A r \in rows : r.id < nextId
    /\ \A r, s \in rows : r.id = s.id \/ r.name = s.name => r = s

CacheOK ==
    /\ DOMAIN cache \subseteq Ids
    /\ \A i \in DOMAIN cache : cache[i] \in Ids \cup {None}
    /\ \A i \in DOMAIN cache : i < nextId

RestOK ==
    /\ offered \subseteq Ids /\ started \subseteq Ids
    /\ files \subseteq Ids /\ nextFile \in Ids
    /\ overlapped \subseteq Ids
    /\ raced \subseteq Ids /\ cut \subseteq Ids

ThreadsOK ==
    /\ pc \in [Threads -> Steps]
    /\ name \in [Threads -> Names \cup {None}]
    /\ id \in [Threads -> Ids \cup {None}]
    /\ file \in [Threads -> Ids \cup {None}]
    /\ \A t \in Threads : Holds(t)

LEMMA TypeParts ==
    /\ TypeInv => RowsOK /\ CacheOK /\ RestOK /\ ThreadsOK
    /\ RowsOK' /\ CacheOK' /\ RestOK' /\ ThreadsOK' => TypeInv'
  BY DEF TypeInv, TypeOK, RowsOK, CacheOK, RestOK, ThreadsOK

LEMMA GotoTypes ==
    ASSUME TypeInv, NEW t \in Threads, NEW s, NEW next \in Steps,
           Goto(t, s, next), UNCHANGED nextId,
           next \in {"upload", "find", "insert"} => name[t] \in Names,
           next \in WithId => id[t] \in Ids /\ id[t] < nextId,
           next \in {"find", "insert", "update", "lookup", "fetch"} =>
               file[t] \in Ids
    PROVE  ThreadsOK'
  <1>1. /\ name[t] \in Names \cup {None} /\ id[t] \in Ids \cup {None}
        /\ file[t] \in Ids \cup {None} /\ nextId \in Ids
    BY DEF TypeInv, TypeOK
  <1>2. nextId' \in Ids /\ nextId' >= nextId
    BY <1>1 DEF Ids
  <1> QED BY <1>1, <1>2, TurnTypes DEF Goto, ThreadsOK

LEMMA AnswerTypes ==
    ASSUME TypeInv, NEW t \in Threads, NEW s, Answer(t, s),
           nextId' \in Ids, nextId' >= nextId
    PROVE  ThreadsOK'
  BY TurnTypes DEF Answer, ThreadsOK, Steps, WithId

LEMMA NextIdStays ==
    ASSUME TypeInv, UNCHANGED nextId PROVE nextId' \in Ids /\ nextId' >= nextId
  BY DEF TypeInv, TypeOK, Ids

(* The thread of a step holds what the step needs. *)
LEMMA AtHolds ==
    ASSUME TypeInv, NEW t \in Threads, pc[t] \in WithId
    PROVE  id[t] \in Ids /\ id[t] < nextId
  BY DEF TypeInv, Holds

LEMMA EnterTypes ==
    ASSUME TypeInv, NEW t \in Threads, Enter(t) PROVE TypeInv'
  <1> USE DEF Steps, WithId
  <1>1. ASSUME NEW n \in Names, EnterSave(t, n) PROVE TypeInv'
    <2>1. ThreadsOK'
      BY <1>1, NextIdStays, TurnTypes DEF EnterSave, tables, ThreadsOK
    <2> QED BY <1>1, <2>1, TypeParts
        DEF EnterSave, tables, history, RowsOK, CacheOK, RestOK
  <1>2. ASSUME NEW r \in rows, EnterLoad(t, r) \/ EnterOffer(t, r)
                                \/ EnterDelete(t, r)
        PROVE  TypeInv'
    <2>1. r.id \in Ids /\ r.url \in Ids /\ r.id < nextId
      BY DEF TypeInv, TypeOK, TemplateRows
    <2>2. UNCHANGED <<tables, files, nextFile, cache, history>>
      BY <1>2 DEF EnterLoad, EnterOffer, EnterDelete
    <2>3. ThreadsOK'
      BY <1>2, <2>1, <2>2, NextIdStays, TurnTypes
      DEF EnterLoad, EnterOffer, EnterDelete, tables, ThreadsOK
    <2> QED BY <2>2, <2>3, TypeParts DEF tables, history, RowsOK, CacheOK, RestOK
  <1>3. ASSUME NEW i \in offered, Withdraw(t, i) PROVE TypeInv'
    BY <1>3 DEF Withdraw, locals, history, TypeInv, TypeOK, Holds
  <1> QED BY <1>1, <1>2, <1>3 DEF Enter

LEMMA SaveTypes ==
    ASSUME TypeInv, NEW t \in Threads,
           SaveToStorage(t) \/ FindByName(t) \/ InsertRow(t) \/ UpdateRow(t)
               \/ Invalidate(t)
    PROVE  TypeInv'
  <1> USE DEF Steps, WithId
  <1>1. CASE SaveToStorage(t)
    <2>1. pc[t] = "upload" /\ name[t] \in Names /\ nextFile \in Ids
      BY <1>1 DEF SaveToStorage, Answer, Turn, TypeInv, TypeOK, Holds
    <2>2. ThreadsOK'
      BY <1>1, <2>1, NextIdStays, TurnTypes, AnswerTypes
      DEF SaveToStorage, tables, ThreadsOK
    <2>3. files' \subseteq Ids /\ nextFile' \in Ids
      <3>1. files \subseteq Ids
        BY DEF TypeInv, TypeOK
      <3>2. CASE files' = files /\ nextFile' = nextFile
        BY <2>1, <3>1, <3>2
      <3>3. CASE files' = files \cup {nextFile} /\ nextFile' = nextFile + 1
        BY <2>1, <3>1, <3>3 DEF Ids
      <3> QED BY <1>1, <3>2, <3>3 DEF SaveToStorage, Save
    <2>4. RestOK'
      BY <1>1, <2>3 DEF SaveToStorage, tables, history, TypeInv, TypeOK, RestOK
    <2> QED BY <1>1, <2>2, <2>4, TypeParts
        DEF SaveToStorage, tables, RowsOK, CacheOK
  <1>2. CASE FindByName(t)
    <2>1. pc[t] = "find" /\ name[t] \in Names /\ file[t] \in Ids
      BY <1>2 DEF FindByName, Goto, Turn, TypeInv, TypeOK, Holds
    <2>2. \A r \in rows : r.id \in Ids /\ r.id < nextId
      BY DEF TypeInv, TypeOK, TemplateRows
    <2>3. UNCHANGED <<tables, files, nextFile, cache, history>>
      BY <1>2 DEF FindByName
    <2>4. ThreadsOK'
      <3>1. CASE Goto(t, "find", "insert")
        BY <2>1, <2>3, <3>1, GotoTypes DEF tables
      <3>2. CASE \E r \in rows : Turn(t, "find", "update", None, r.id, file[t])
        BY <2>1, <2>2, <2>3, <3>2, NextIdStays, TurnTypes DEF tables, ThreadsOK
      <3> QED BY <1>2, <3>1, <3>2 DEF FindByName
    <2> QED BY <2>3, <2>4, TypeParts DEF tables, history, RowsOK, CacheOK, RestOK
  <1>3. CASE InsertRow(t)
    <2>1. pc[t] = "insert" /\ name[t] \in Names /\ file[t] \in Ids
      BY <1>3 DEF InsertRow, Answer, Turn, TypeInv, TypeOK, Holds
    <2>2. nextId' \in Ids /\ nextId' >= nextId
      BY <1>3 DEF InsertRow, TypeInv, TypeOK, Ids
    <2>3. ThreadsOK'
      BY <1>3, <2>2, AnswerTypes DEF InsertRow
    <2>4. RowsOK'
      <3>1. CASE UNCHANGED <<rows, nextId>>
        BY <3>1 DEF TypeInv, TypeOK, RowsOK
      <3>2. CASE /\ \A r \in rows : r.name # name[t]
                 /\ rows' = rows \cup
                       {[id |-> nextId, name |-> name[t], url |-> file[t]]}
                 /\ nextId' = nextId + 1
        BY <2>1, <3>2 DEF TypeInv, TypeOK, RowsOK, TemplateRows, Ids
      <3> QED BY <1>3, <3>1, <3>2 DEF InsertRow
    <2>5. CacheOK'
      BY <1>3, <2>2 DEF InsertRow, TypeInv, TypeOK, CacheOK, Ids
    <2> QED BY <1>3, <2>3, <2>4, <2>5, TypeParts DEF InsertRow, history, RestOK
  <1>4. CASE UpdateRow(t)
    <2>1. /\ pc[t] = "update" /\ id[t] \in Ids /\ id[t] < nextId
          /\ file[t] \in Ids
      BY <1>4 DEF UpdateRow, Goto, Answer, Turn, TypeInv, TypeOK, Holds
    <2>2. UNCHANGED <<nextId, offered, started, files, nextFile, cache,
                      overlapped, cut>>
      BY <1>4 DEF UpdateRow
    <2>3. ThreadsOK'
      BY <1>4, <2>1, <2>2, NextIdStays, AnswerTypes, GotoTypes DEF UpdateRow
    <2>4. RowsOK'
      <3>1. \A r \in rows' : \E s \in rows :
               /\ r = IF s.id = id[t] THEN [s EXCEPT !.url = file[t]] ELSE s
               /\ r \in TemplateRows /\ r.id = s.id /\ r.name = s.name
        BY <1>4, <2>1 DEF UpdateRow, TypeInv, TypeOK, TemplateRows
      <3> QED BY <2>2, <3>1 DEF TypeInv, TypeOK, RowsOK
    <2>5. RestOK'
      BY <1>4, <2>1, <2>2 DEF UpdateRow, TypeInv, TypeOK, RestOK
    <2> QED BY <2>2, <2>3, <2>4, <2>5, TypeParts DEF CacheOK
  <1>5. CASE Invalidate(t)
    <2>1. ThreadsOK'
      BY <1>5, NextIdStays, AnswerTypes DEF Invalidate, tables
    <2>2. CacheOK'
      BY <1>5 DEF Invalidate, Without, tables, TypeInv, TypeOK, CacheOK
    <2> QED BY <1>5, <2>1, <2>2, TypeParts
        DEF Invalidate, tables, history, RowsOK, RestOK
  <1> QED BY <1>1, <1>2, <1>3, <1>4, <1>5

LEMMA LoadTypes ==
    ASSUME TypeInv, NEW t \in Threads,
           Lookup(t) \/ Fetch(t) \/ Store(t) \/ Start(t) \/ Offer(t)
    PROVE  TypeInv'
  <1> USE DEF Steps, WithId
  <1>0. id[t] \in Ids /\ id[t] < nextId /\ UNCHANGED <<rows, nextId>>
    BY AtHolds DEF Lookup, Fetch, Store, Start, Offer, Goto, Answer, Turn, tables
  <1>1. CASE Lookup(t)
    <2>1. pc[t] = "lookup" /\ file[t] \in Ids
      BY <1>1 DEF Lookup, Goto, Answer, Turn, TypeInv, Holds
    <2>2. ThreadsOK'
      BY <1>0, <1>1, <2>1, NextIdStays, AnswerTypes, GotoTypes DEF Lookup
    <2> QED BY <1>1, <2>2, TypeParts
        DEF Lookup, tables, history, RowsOK, CacheOK, RestOK
  <1>2. CASE Fetch(t)
    <2>1. pc[t] = "fetch" /\ file[t] \in Ids
      BY <1>2 DEF Fetch, Goto, Answer, Turn, TypeInv, Holds
    <2>2. ThreadsOK'
      <3>1. CASE Goto(t, "fetch", "store") \/ Answer(t, "fetch")
        BY <1>0, <2>1, <3>1, NextIdStays, AnswerTypes, GotoTypes
      <3>2. CASE Turn(t, "fetch", "store", None, id[t], None)
        BY <1>0, <2>1, <3>2, NextIdStays, TurnTypes DEF ThreadsOK
      <3> QED BY <1>2, <3>1, <3>2 DEF Fetch
    <2> QED BY <1>2, <2>2, TypeParts
        DEF Fetch, tables, history, RowsOK, CacheOK, RestOK
  <1>3. CASE Store(t)
    <2>1. ThreadsOK'
      BY <1>0, <1>3, NextIdStays, AnswerTypes, GotoTypes DEF Store
    <2>2. file[t] \in Ids \cup {None}
      BY DEF TypeInv, TypeOK
    <2>3. CacheOK'
      BY <1>0, <1>3, <2>2 DEF Store, TypeInv, TypeOK, CacheOK
    <2> QED BY <1>3, <2>1, <2>3, TypeParts
        DEF Store, tables, history, RowsOK, RestOK
  <1>4. CASE Start(t)
    <2>1. ThreadsOK'
      BY <1>0, <1>4, NextIdStays, AnswerTypes DEF Start
    <2>2. RestOK'
      BY <1>0, <1>4 DEF Start, Refer, TypeInv, TypeOK, RestOK
    <2> QED BY <1>4, <2>1, <2>2, TypeParts DEF Start, RowsOK, CacheOK
  <1>5. CASE Offer(t)
    <2>1. ThreadsOK'
      BY <1>0, <1>5, NextIdStays, AnswerTypes DEF Offer
    <2>2. RestOK'
      BY <1>0, <1>5 DEF Offer, Refer, TypeInv, TypeOK, RestOK
    <2> QED BY <1>5, <2>1, <2>2, TypeParts DEF Offer, RowsOK, CacheOK
  <1> QED BY <1>1, <1>2, <1>3, <1>4, <1>5

LEMMA DeleteTypes ==
    ASSUME TypeInv, NEW t \in Threads,
           DropCache(t) \/ Unlink(t) \/ DeleteRels(t) \/ DeleteRow(t)
    PROVE  TypeInv'
  <1> USE DEF Steps, WithId
  <1>0. id[t] \in Ids /\ id[t] < nextId /\ UNCHANGED <<nextId, started>>
    BY AtHolds DEF DropCache, Unlink, DeleteRels, DeleteRow, Goto, Answer, Turn,
       tables
  <1>1. ThreadsOK'
    BY <1>0, NextIdStays, AnswerTypes, GotoTypes
    DEF DropCache, Unlink, DeleteRels, DeleteRow
  <1>2. RowsOK'
    BY <1>0 DEF DropCache, Unlink, DeleteRels, DeleteRow, tables, RowsOK,
       TypeInv, TypeOK
  <1>3. CacheOK'
    BY <1>0 DEF DropCache, Unlink, DeleteRels, DeleteRow, Without, CacheOK,
       TypeInv, TypeOK
  <1>4. RestOK'
    BY <1>0 DEF DropCache, Unlink, DeleteRels, DeleteRow, Remove, tables,
       history, RestOK, TypeInv, TypeOK
  <1> QED BY <1>1, <1>2, <1>3, <1>4, TypeParts

LEMMA RestartTypes == ASSUME TypeInv, Restart PROVE TypeInv'
  <1>1. \A t \in Threads : pc[t] \in Deleting \cup {"invalidate"} => id[t] \in Ids
    BY AtHolds DEF Deleting, WithId, Steps
  <1>2. RestOK'
    BY <1>1 DEF Restart, tables, RestOK, TypeInv, TypeOK
  <1>3. ThreadsOK'
    BY DEF Restart, ThreadsOK, Holds, Steps, WithId
  <1> QED BY <1>2, <1>3, TypeParts DEF Restart, tables, RowsOK, CacheOK

LEMMA TypeInvStep == TypeInv /\ [Next]_vars => TypeInv'
  <1> SUFFICES ASSUME TypeInv, [Next]_vars PROVE TypeInv'
    OBVIOUS
  <1>1. CASE UNCHANGED vars
    BY <1>1 DEF vars, tables, locals, history, TypeInv, TypeOK, Holds
  <1>2. ASSUME NEW i \in DOMAIN cache, Expire(i) PROVE TypeInv'
    BY <1>2, TypeParts DEF Expire, Without, tables, locals, history, TypeInv,
       TypeOK, Holds, RowsOK, CacheOK, RestOK, ThreadsOK
  <1>3. CASE Restart
    BY <1>3, RestartTypes
  <1>4. ASSUME NEW t \in Threads, Enter(t) \/ Step(t) PROVE TypeInv'
    BY <1>4, EnterTypes, SaveTypes, LoadTypes, DeleteTypes DEF Step
  <1> QED BY <1>1, <1>2, <1>3, <1>4 DEF Next

(* Whatever is saved, loaded, offered and deleted at a time, crashes       *)
(* included, ids and names of templates are unique and threads hold what   *)
(* their next step needs.                                                  *)
THEOREM TemplatesTypeCorrect == Spec => []TypeOK
  <1>1. TypeInv => TypeOK
    BY DEF TypeInv
  <1> QED BY <1>1, TypeInvInit, TypeInvStep, PTL DEF Spec

----------------------------------------------------------------------------
(* Rows and files *)

(* A thread that has saved a file and not written a row of it yet.         *)
Saved(t) == pc[t] \in {"find", "insert", "update"}

(* It removed the file of the row it is about to delete.                   *)
Unlinked(t) == pc[t] \in {"rels", "row"}

(* Files have one owner: a row, or a thread that has just saved it.        *)
FilesApart ==
    /\ \A r \in rows : r.url < nextFile
    /\ \A r, s \in rows : r.url = s.url => r = s
    /\ \A t \in Threads : Saved(t) =>
           /\ file[t] \in files /\ file[t] < nextFile
           /\ \A r \in rows : r.url # file[t]
    /\ \A t, x \in Threads :
           Saved(t) /\ Saved(x) /\ file[t] = file[x] => t = x

FileInv == FilesApart /\ RowHasFile

LEMMA FileInvInit == Init => FileInv
  BY DEF Init, FileInv, FilesApart, RowHasFile, Saved

LEMMA Turned ==
    ASSUME TypeInv, NEW t \in Threads, NEW s, NEW next, NEW n, NEW i, NEW f,
           Turn(t, s, next, n, i, f)
    PROVE  /\ pc[t] = s
           /\ pc[t]' = next /\ name[t]' = n /\ id[t]' = i /\ file[t]' = f
           /\ \A x \in Threads \ {t} : /\ pc[x]' = pc[x] /\ id[x]' = id[x]
                                       /\ file[x]' = file[x]
                                       /\ name[x]' = name[x]
  BY DEF Turn, TypeInv, TypeOK

(* Nothing saved, nothing removed, and nobody about to delete gives up. *)
LEMMA FileOther ==
    ASSUME FileInv, UNCHANGED <<rows, files, nextFile, cut>>,
           \A x \in Threads : Saved(x)' => Saved(x) /\ file[x]' = file[x],
           \A x \in Threads : Unlinked(x) => Unlinked(x)' /\ id[x]' = id[x]
    PROVE  FileInv'
  BY DEF FileInv, FilesApart, RowHasFile, Unlinked

LEMMA FileTurn ==
    ASSUME TypeInv, FileInv, NEW t \in Threads,
           UNCHANGED <<rows, files, nextFile, cut>>,
           NEW s, NEW next, NEW n, NEW i, NEW f, Turn(t, s, next, n, i, f),
           next \in {"find", "insert", "update"} =>
               s \in {"find", "insert", "update"} /\ f = file[t],
           s \in {"rels", "row"} => next \in {"rels", "row"} /\ i = id[t]
    PROVE  FileInv'
  BY Turned, FileOther DEF Saved, Unlinked

LEMMA FileSave ==
    ASSUME TypeInv, FileInv, NEW t \in Threads, SaveToStorage(t) PROVE FileInv'
  <1>0. UNCHANGED <<rows, cut>>
    BY DEF SaveToStorage, tables, history
  <1>1. CASE Answer(t, "upload") /\ UNCHANGED <<files, nextFile>>
    BY <1>0, <1>1, FileTurn DEF Answer
  <1>2. CASE /\ Turn(t, "upload", "find", name[t], None, nextFile)
             /\ Save(nextFile) /\ nextFile' = nextFile + 1
    <2>1. /\ pc[t] = "upload" /\ pc[t]' = "find" /\ file[t]' = nextFile
          /\ \A x \in Threads \ {t} : /\ pc[x]' = pc[x] /\ id[x]' = id[x]
                                      /\ file[x]' = file[x]
      BY <1>2, Turned
    <2>2. nextFile \in Nat /\ \A x \in Threads : file[x] \in Nat \cup {None}
          /\ \A r \in rows : r.url \in Nat
      BY DEF TypeInv, TypeOK, Ids, TemplateRows
    <2>3. files' = files \cup {nextFile}
      BY <1>2 DEF Save
    <2>4. FilesApart'
      <3>1. \A r \in rows' : r.url < nextFile'
        BY <1>0, <1>2, <2>2 DEF FileInv, FilesApart
      <3>2. ASSUME NEW x \in Threads, Saved(x)'
            PROVE  /\ file[x]' \in files' /\ file[x]' < nextFile'
                   /\ \A r \in rows' : r.url # file[x]'
        <4>1. CASE x = t
          BY <1>0, <1>2, <2>1, <2>2, <2>3, <4>1 DEF FileInv, FilesApart
        <4>2. CASE x # t
          <5>1. /\ Saved(x) /\ file[x]' = file[x] /\ file[x] \in files
                /\ file[x] < nextFile /\ \A r \in rows : r.url # file[x]
            BY <2>1, <3>2, <4>2 DEF Saved, FileInv, FilesApart
          <5>2. file[x] \in Nat
            BY <5>1 DEF TypeInv, Holds, Saved, Ids
          <5> QED BY <1>0, <1>2, <2>2, <2>3, <5>1, <5>2
        <4> QED BY <4>1, <4>2
      <3>3. ASSUME NEW x \in Threads, NEW y \in Threads, Saved(x)', Saved(y)',
                   file[x]' = file[y]'
            PROVE  x = y
        <4>1. \A z \in Threads \ {t} : Saved(z)' => Saved(z) /\ file[z]' < nextFile
          BY <2>1 DEF Saved, FileInv, FilesApart
        <4> QED BY <2>1, <2>2, <3>3, <4>1 DEF Saved, FileInv, FilesApart
      <3> QED BY <1>0, <3>1, <3>2, <3>3 DEF FileInv, FilesApart
    <2>5. RowHasFile'
      BY <1>0, <2>1, <2>3 DEF FileInv, RowHasFile
    <2> QED BY <2>4, <2>5 DEF FileInv
  <1> QED BY <1>1, <1>2 DEF SaveToStorage

LEMMA FileInsert ==
    ASSUME TypeInv, FileInv, NEW t \in Threads, InsertRow(t) PROVE FileInv'
  <1>0. Answer(t, "insert") /\ UNCHANGED <<files, nextFile, cut>>
    BY DEF InsertRow, history
  <1>1. CASE UNCHANGED rows
    BY <1>0, <1>1, FileTurn DEF Answer
  <1>2. CASE rows' = rows \cup {[id |-> nextId, name |-> name[t], url |-> file[t]]}
    <2>1. /\ pc[t] = "insert" /\ pc[t]' = "idle"
          /\ \A x \in Threads \ {t} : /\ pc[x]' = pc[x] /\ id[x]' = id[x]
                                      /\ file[x]' = file[x]
      BY <1>0, Turned DEF Answer
    <2>2. PICK q : q.url = file[t] /\ rows' = rows \cup {q}
      BY <1>2
    <2>3. /\ file[t] \in files /\ file[t] < nextFile
          /\ \A r \in rows : r.url # file[t]
          /\ \A x \in Threads \ {t} : Saved(x) => file[x] # file[t]
      BY <2>1 DEF FileInv, FilesApart, Saved
    <2>4. \A x \in Threads : Saved(x)' =>
              x # t /\ Saved(x) /\ file[x]' = file[x]
      BY <2>1 DEF Saved
    <2>5. FilesApart'
      <3>1. \A r \in rows' : r.url < nextFile'
        BY <1>0, <2>2, <2>3 DEF FileInv, FilesApart
      <3>2. \A r, s \in rows' : r.url = s.url => r = s
        BY <2>2, <2>3 DEF FileInv, FilesApart
      <3>3. \A x \in Threads : Saved(x)' =>
                /\ file[x]' \in files' /\ file[x]' < nextFile'
                /\ \A r \in rows' : r.url # file[x]'
        BY <1>0, <2>2, <2>3, <2>4 DEF FileInv, FilesApart
      <3>4. \A x, y \in Threads :
                Saved(x)' /\ Saved(y)' /\ file[x]' = file[y]' => x = y
        BY <2>4 DEF FileInv, FilesApart
      <3> QED BY <3>1, <3>2, <3>3, <3>4 DEF FilesApart
    <2>6. RowHasFile'
      BY <1>0, <2>1, <2>2, <2>3 DEF FileInv, RowHasFile
    <2> QED BY <2>5, <2>6 DEF FileInv
  <1> QED BY <1>1, <1>2 DEF InsertRow

LEMMA FileUpdate ==
    ASSUME TypeInv, TypeInv', FileInv, NEW t \in Threads, UpdateRow(t)
    PROVE  FileInv'
  <1>0. UNCHANGED <<files, nextFile, cut>>
    BY DEF UpdateRow
  <1>1. /\ pc[t] = "update" /\ pc[t]' \in {"invalidate", "idle"}
        /\ \A x \in Threads \ {t} : /\ pc[x]' = pc[x] /\ id[x]' = id[x]
                                    /\ file[x]' = file[x]
    BY Turned DEF UpdateRow, Goto, Answer
  <1>2. /\ file[t] \in files /\ file[t] < nextFile
        /\ \A r \in rows : r.url # file[t]
        /\ \A x \in Threads \ {t} : Saved(x) => file[x] # file[t]
    BY <1>1 DEF FileInv, FilesApart, Saved
  <1>3. \A x \in Threads : Saved(x)' => x # t /\ Saved(x) /\ file[x]' = file[x]
    BY <1>1 DEF Saved
  <1>4. \A r \in rows' : \/ r \in rows /\ r.id # id[t]
                         \/ r.id = id[t] /\ r.url = file[t]
    BY DEF UpdateRow, TypeInv, TypeOK, TemplateRows
  <1>5. \A r, s \in rows' : r.id = s.id => r = s
    BY DEF TypeInv, TypeOK
  <1>6. FilesApart'
    <2>1. \A r \in rows' : r.url < nextFile'
      BY <1>0, <1>2, <1>4 DEF FileInv, FilesApart
    <2>2. \A r, s \in rows' : r.url = s.url => r = s
      BY <1>2, <1>4, <1>5 DEF FileInv, FilesApart
    <2>3. \A x \in Threads : Saved(x)' =>
              /\ file[x]' \in files' /\ file[x]' < nextFile'
              /\ \A r \in rows' : r.url # file[x]'
      BY <1>0, <1>2, <1>3, <1>4 DEF FileInv, FilesApart
    <2>4. \A x, y \in Threads :
              Saved(x)' /\ Saved(y)' /\ file[x]' = file[y]' => x = y
      BY <1>3 DEF FileInv, FilesApart
    <2> QED BY <2>1, <2>2, <2>3, <2>4 DEF FilesApart
  <1>7. RowHasFile'
    <2>1. ASSUME NEW r \in rows'
          PROVE  \/ r.url \in files' \/ r.id \in cut'
                 \/ \E x \in Threads : pc[x]' \in {"rels", "row"} /\ id[x]' = r.id
      <3>1. CASE r.url = file[t]
        BY <1>0, <1>2, <3>1
      <3>2. CASE r \in rows
        <4>1. \A x \in Threads : pc[x] \in {"rels", "row"} =>
                  pc[x]' = pc[x] /\ id[x]' = id[x]
          BY <1>1
        <4> QED BY <1>0, <3>2, <4>1 DEF FileInv, RowHasFile
      <3> QED BY <1>4, <3>1, <3>2
    <2> QED BY <2>1 DEF RowHasFile
  <1> QED BY <1>6, <1>7 DEF FileInv

LEMMA FileUnlink ==
    ASSUME TypeInv, FileInv, NEW t \in Threads, Unlink(t) PROVE FileInv'
  <1>0. UNCHANGED <<rows, nextFile, cut>>
    BY DEF Unlink, tables, history
  <1>1. CASE Answer(t, "unlink") /\ UNCHANGED files
    BY <1>0, <1>1, FileTurn DEF Answer
  <1>2. ASSUME NEW q \in rows, q.id = id[t], Remove(q.url), Goto(t, "unlink", "rels")
        PROVE  FileInv'
    <2>1. /\ pc[t] = "unlink" /\ pc[t]' = "rels" /\ id[t]' = q.id
          /\ \A x \in Threads \ {t} : /\ pc[x]' = pc[x] /\ id[x]' = id[x]
                                      /\ file[x]' = file[x]
      BY <1>2, Turned DEF Goto
    <2>2. files' = files \ {q.url}
      BY <1>2 DEF Remove
    <2>3. \A x \in Threads : Saved(x)' => Saved(x) /\ file[x]' = file[x]
      BY <2>1 DEF Saved
    <2>4. FilesApart'
      BY <1>0, <2>2, <2>3 DEF FileInv, FilesApart
    <2>5. RowHasFile'
      <3>1. ASSUME NEW r \in rows
            PROVE  \/ r.url \in files' \/ r.id \in cut
                   \/ \E x \in Threads : pc[x]' \in {"rels", "row"}
                                        /\ id[x]' = r.id
        <4>1. CASE r = q
          BY <2>1, <4>1
        <4>2. CASE r # q
          <5>1. r.url # q.url
            BY <4>2 DEF FileInv, FilesApart
          <5>2. \A x \in Threads : pc[x] \in {"rels", "row"} =>
                    pc[x]' = pc[x] /\ id[x]' = id[x]
            BY <2>1
          <5> QED BY <2>2, <5>1, <5>2 DEF FileInv, RowHasFile
        <4> QED BY <4>1, <4>2
      <3> QED BY <1>0, <3>1 DEF RowHasFile
    <2> QED BY <2>4, <2>5 DEF FileInv
  <1> QED BY <1>1, <1>2 DEF Unlink

LEMMA FileDelete ==
    ASSUME TypeInv, FileInv, NEW t \in Threads, DeleteRow(t) PROVE FileInv'
  <1>1. /\ UNCHANGED <<files, nextFile, cut>>
        /\ rows' = {r \in rows : r.id # id[t]}
    BY DEF DeleteRow, history
  <1>2. /\ pc[t]' = "idle"
        /\ \A x \in Threads \ {t} : /\ pc[x]' = pc[x] /\ id[x]' = id[x]
                                    /\ file[x]' = file[x]
    BY Turned DEF DeleteRow, Answer
  <1>3. \A x \in Threads : Saved(x)' => Saved(x) /\ file[x]' = file[x]
    BY <1>2 DEF Saved
  <1>4. FilesApart'
    BY <1>1, <1>3 DEF FileInv, FilesApart
  <1>5. RowHasFile'
    BY <1>1, <1>2 DEF FileInv, RowHasFile
  <1> QED BY <1>4, <1>5 DEF FileInv

LEMMA FileRestart ==
    ASSUME TypeInv, FileInv, Restart PROVE FileInv'
  <1>1. /\ UNCHANGED <<rows, files, nextFile>>
        /\ cut' = cut \cup {id[t] : t \in {x \in Threads : pc[x] \in Deleting}}
        /\ \A t \in Threads : ~Saved(t)'
    BY DEF Restart, tables, Saved
  <1>2. FilesApart'
    BY <1>1 DEF FileInv, FilesApart
  <1>3. RowHasFile'
    BY <1>1 DEF FileInv, RowHasFile, Deleting
  <1> QED BY <1>2, <1>3 DEF FileInv

LEMMA FileInvStep == TypeInv /\ TypeInv' /\ FileInv /\ [Next]_vars => FileInv'
  <1> SUFFICES ASSUME TypeInv, TypeInv', FileInv, [Next]_vars PROVE FileInv'
    OBVIOUS
  <1>1. CASE UNCHANGED <<rows, files, nextFile, cut, locals>>
    BY <1>1, FileOther DEF locals, Saved, Unlinked
  <1>2. ASSUME NEW t \in Threads, Enter(t) PROVE FileInv'
    <2>1. CASE UNCHANGED locals
      BY <1>1, <1>2, <2>1 DEF Enter, EnterSave, EnterLoad, EnterOffer,
         EnterDelete, Withdraw, tables, history
    <2>2. CASE \E n \in Names : EnterSave(t, n)
      BY <2>2, FileTurn DEF EnterSave, tables, history
    <2>3. ASSUME NEW r \in rows, EnterLoad(t, r) \/ EnterOffer(t, r)
                                  \/ EnterDelete(t, r)
          PROVE  FileInv'
      BY <2>3, FileTurn DEF EnterLoad, EnterOffer, EnterDelete, tables, history
    <2> QED BY <1>2, <2>1, <2>2, <2>3 DEF Enter, Withdraw
  <1>3. ASSUME NEW t \in Threads, Step(t) PROVE FileInv'
    <2>1. CASE FindByName(t)
      BY <2>1, FileTurn DEF FindByName, Goto, tables, history
    <2>2. CASE Invalidate(t) \/ Lookup(t)
      BY <2>2, FileTurn DEF Invalidate, Lookup, Goto, Answer, tables, history
    <2>3. CASE Fetch(t) \/ Store(t)
      BY <2>3, FileTurn DEF Fetch, Store, Goto, Answer, tables, history
    <2>4. CASE Start(t) \/ Offer(t)
      BY <2>4, FileTurn DEF Start, Offer, Answer
    <2>5. CASE DropCache(t) \/ DeleteRels(t)
      BY <2>5, FileTurn DEF DropCache, DeleteRels, Goto, tables, history
    <2> QED BY <1>3, <2>1, <2>2, <2>3, <2>4, <2>5, FileSave, FileInsert,
               FileUpdate, FileUnlink, FileDelete DEF Step
  <1>4. CASE Restart
    BY <1>4, FileRestart
  <1> QED BY <1>1, <1>2, <1>3, <1>4
      DEF Next, Expire, vars, tables, history

(* The content of a template stays where its row says it is: no update, no *)
(* other template and no second deletion takes the file away.              *)
THEOREM RowAlwaysHasFile == Spec => []RowHasFile
  <1>1. FileInv => RowHasFile
    BY DEF FileInv
  <1>2. TypeInv /\ FileInv /\ [Next]_vars => TypeInv' /\ FileInv'
    BY TypeInvStep, FileInvStep
  <1> QED BY <1>1, <1>2, TypeInvInit, FileInvInit, PTL DEF Spec

----------------------------------------------------------------------------
(* Templates in use *)

(* What is about to be deleted is not used, or was taken into use later.   *)
NotUsed(t) ==
    /\ pc[t] \in Deleting /\ id[t] \in started => id[t] \in overlapped
    /\ pc[t] = "row" /\ id[t] \in offered => id[t] \in overlapped

UseInv == InUseIsKept /\ \A t \in Threads : NotUsed(t)

LEMMA UseInvInit == Init => UseInv
  BY DEF Init, UseInv, InUseIsKept, NotUsed, Deleting

(* Steps that neither delete a row nor take one into use. *)
LEMMA UseOther ==
    ASSUME UseInv, UNCHANGED <<started, overlapped>>, offered' \subseteq offered,
           \A i : Exists(i) => Exists(i)',
           \A x \in Threads :
               \/ pc[x]' \notin Deleting
               \/ pc[x]' = "drop_cache" /\ id[x]' \notin started
               \/ pc[x] \in Deleting /\ id[x]' = id[x]
                  /\ (pc[x]' = "row" => pc[x] = "row" \/ id[x] \notin offered')
    PROVE  UseInv'
  BY DEF UseInv, InUseIsKept, NotUsed, Deleting

LEMMA UseTurn ==
    ASSUME TypeInv, UseInv, NEW t \in Threads,
           UNCHANGED <<started, overlapped>>, offered' \subseteq offered,
           \A i : Exists(i) => Exists(i)',
           NEW s, NEW next, NEW n, NEW i, NEW f, Turn(t, s, next, n, i, f),
           \/ next \notin Deleting
           \/ next = "drop_cache" /\ i \notin started
           \/ /\ s \in Deleting /\ i = id[t]
              /\ next = "row" => i \notin offered'
    PROVE  UseInv'
  BY Turned, UseOther DEF Deleting

(* A template is taken into use: by whoever is about to delete it, later.  *)
LEMMA UseTaken ==
    ASSUME TypeInv, UseInv, NEW t \in Threads, UNCHANGED rows,
           NEW s \in {"start", "offer"}, Answer(t, s), Exists(id[t]), Refer(id[t]),
           started' \subseteq started \cup {id[t]},
           offered' \subseteq offered \cup {id[t]}
    PROVE  UseInv'
  <1>1. /\ pc[t] = s /\ pc[t]' = "idle"
        /\ \A x \in Threads \ {t} : pc[x]' = pc[x] /\ id[x]' = id[x]
    BY Turned DEF Answer
  <1>2. overlapped \subseteq overlapped'
    BY DEF Refer
  <1>3. InUseIsKept'
    BY <1>2 DEF UseInv, InUseIsKept, Exists
  <1>4. ASSUME NEW x \in Threads, pc[x]' \in Deleting,
               id[x]' \in started' \/ (pc[x]' = "row" /\ id[x]' \in offered')
        PROVE  id[x]' \in overlapped'
    <2>1. x # t /\ pc[x]' = pc[x] /\ id[x]' = id[x]
      BY <1>1, <1>4 DEF Deleting
    <2>2. CASE id[x] = id[t]
      BY <1>4, <2>1, <2>2 DEF Refer
    <2>3. CASE id[x] # id[t]
      BY <1>2, <1>4, <2>1, <2>3 DEF UseInv, NotUsed
    <2> QED BY <2>1, <2>2, <2>3
  <1>5. ASSUME NEW x \in Threads PROVE NotUsed(x)'
    <2>1. "row" \in Deleting
      BY DEF Deleting
    <2> QED BY <1>4, <2>1 DEF NotUsed
  <1> QED BY <1>3, <1>5 DEF UseInv

LEMMA UseDelete ==
    ASSUME TypeInv, UseInv, NEW t \in Threads, DeleteRow(t) PROVE UseInv'
  <1>1. /\ UNCHANGED <<started, offered, overlapped>>
        /\ rows' = {r \in rows : r.id # id[t]}
        /\ pc[t] = "row" /\ pc[t]' = "idle"
        /\ \A x \in Threads \ {t} : pc[x]' = pc[x] /\ id[x]' = id[x]
    BY Turned DEF DeleteRow, Answer, history
  <1>2. \A i : Exists(i) /\ i # id[t] => Exists(i)'
    BY <1>1 DEF Exists
  <1>3. id[t] \notin (started \cup offered) \ overlapped
    BY <1>1 DEF UseInv, NotUsed, Deleting
  <1>4. InUseIsKept'
    BY <1>1, <1>2, <1>3 DEF UseInv, InUseIsKept
  <1>5. \A x \in Threads : NotUsed(x)'
    BY <1>1 DEF UseInv, NotUsed, Deleting
  <1> QED BY <1>4, <1>5 DEF UseInv

LEMMA UseInvStep == TypeInv /\ UseInv /\ [Next]_vars => UseInv'
  <1> SUFFICES ASSUME TypeInv, UseInv, [Next]_vars PROVE UseInv'
    OBVIOUS
  <1> USE DEF Deleting
  <1>0. \A t, i : rows' = rows \/ InsertRow(t) \/ UpdateRow(t) =>
            (Exists(i) => Exists(i)')
    <2>1. ASSUME NEW t, NEW i, UpdateRow(t), Exists(i) PROVE Exists(i)'
      <3>1. PICK r \in rows : r.id = i /\ r \in TemplateRows
        BY <2>1 DEF Exists, TypeInv, TypeOK
      <3>2. \E q \in rows' : q.id = i
        <4>1. CASE r.id = id[t]
          BY <2>1, <3>1, <4>1, [r EXCEPT !.url = file[t]] \in rows'
          DEF UpdateRow, TemplateRows
        <4>2. CASE r.id # id[t]
          BY <2>1, <3>1, <4>2 DEF UpdateRow
        <4> QED BY <4>1, <4>2
      <3> QED BY <3>2 DEF Exists
    <2>2. ASSUME NEW t, NEW i, InsertRow(t), Exists(i) PROVE Exists(i)'
      BY <2>2 DEF InsertRow, Exists
    <2> QED BY <2>1, <2>2 DEF Exists
  <1>1. CASE UNCHANGED <<rows, started, offered, overlapped, locals>>
    BY <1>0, <1>1, UseOther DEF locals
  <1>2. ASSUME NEW t \in Threads, Enter(t) PROVE UseInv'
    <2>1. ASSUME NEW n \in Names, EnterSave(t, n) PROVE UseInv'
      BY <1>0, <2>1, UseTurn DEF EnterSave, tables, history
    <2>2. ASSUME NEW r \in rows, EnterLoad(t, r) \/ EnterOffer(t, r)
                                  \/ EnterDelete(t, r)
          PROVE  UseInv'
      BY <1>0, <2>2, UseTurn
      DEF EnterLoad, EnterOffer, EnterDelete, tables, history
    <2>3. ASSUME NEW i \in offered, Withdraw(t, i) PROVE UseInv'
      BY <1>0, <2>3, UseOther DEF Withdraw, locals, history
    <2> QED BY <1>2, <2>1, <2>2, <2>3 DEF Enter
  <1>3. ASSUME NEW t \in Threads, Step(t) PROVE UseInv'
    <2>1. CASE SaveToStorage(t) \/ FindByName(t)
      BY <1>0, <2>1, UseTurn
      DEF SaveToStorage, FindByName, Goto, Answer, tables, history
    <2>2. CASE InsertRow(t) \/ UpdateRow(t)
      BY <1>0, <2>2, UseTurn DEF InsertRow, UpdateRow, Goto, Answer, history
    <2>3. CASE Invalidate(t) \/ Lookup(t)
      BY <1>0, <2>3, UseTurn
      DEF Invalidate, Lookup, Goto, Answer, tables, history
    <2>4. CASE Fetch(t) \/ Store(t)
      BY <1>0, <2>4, UseTurn DEF Fetch, Store, Goto, Answer, tables, history
    <2>5. CASE Start(t)
      <3>1. CASE UNCHANGED <<started, overlapped>>
        BY <1>0, <2>5, <3>1, UseTurn DEF Start, Answer
      <3> QED BY <2>5, <3>1, UseTaken DEF Start
    <2>6. CASE Offer(t)
      <3>1. CASE UNCHANGED <<offered, overlapped>>
        BY <1>0, <2>6, <3>1, UseTurn DEF Offer, Answer
      <3> QED BY <2>6, <3>1, UseTaken DEF Offer
    <2>7. CASE DropCache(t) \/ Unlink(t)
      BY <1>0, <2>7, UseTurn DEF DropCache, Unlink, Goto, Answer, tables, history
    <2>8. CASE DeleteRels(t)
      BY <1>0, <2>8, UseTurn DEF DeleteRels, Goto, history
    <2>9. CASE DeleteRow(t)
      BY <2>9, UseDelete
    <2> QED BY <1>3, <2>1, <2>2, <2>3, <2>4, <2>5, <2>6, <2>7, <2>8, <2>9 DEF Step
  <1>4. CASE Restart
    BY <1>0, <1>4, UseOther DEF Restart, tables
  <1> QED BY <1>1, <1>2, <1>3, <1>4 DEF Next, Expire, vars, tables, history

(* No template that an experiment or a hackathon uses is deleted, unless   *)
(* it was taken into use behind the check of the deletion.                 *)
THEOREM InUseAlwaysKept == Spec => []InUseIsKept
  <1>1. UseInv => InUseIsKept
    BY DEF UseInv
  <1> QED
    BY <1>1, TypeInvInit, TypeInvStep, UseInvInit, UseInvStep, PTL DEF Spec

----------------------------------------------------------------------------
(* The cache *)

(* What a load is about to cache is what the row refers to.                *)
LoadsCurrent ==
    \A t \in Threads : pc[t] \in Loading =>
        \A r \in rows : r.id = id[t] =>
            file[t] \in {None, r.url} \/ r.id \in raced

CacheInv == LoadsCurrent /\ CacheIsCurrent

LEMMA CacheInvInit == Init => CacheInv
  BY DEF Init, CacheInv, LoadsCurrent, CacheIsCurrent, Loading

(* Rows go or come, and nothing is cached: a new row has an id nobody has. *)
LEMMA CacheOther ==
    ASSUME TypeInv, CacheInv, UNCHANGED raced,
           DOMAIN cache' \subseteq DOMAIN cache,
           \A i \in DOMAIN cache' : cache'[i] = cache[i],
           \A r \in rows' : r \in rows \/ r.id = nextId,
           \A x \in Threads :
               /\ pc[x]' \in Loading =>
                    \/ /\ pc[x] \in Loading /\ id[x]' = id[x]
                       /\ file[x]' \in {None, file[x]}
                    \/ \E r \in rows : id[x]' = r.id /\ file[x]' = r.url
               /\ pc[x] = "invalidate" =>
                    \/ pc[x]' = "invalidate" /\ id[x]' = id[x]
                    \/ id[x] \notin DOMAIN cache'
    PROVE  CacheInv'
  <1>1. nextId \in Nat /\ \A r \in rows : r.id < nextId /\ r.id \in Nat
    BY DEF TypeInv, TypeOK, Ids, TemplateRows
  <1>2. \A i \in DOMAIN cache : i < nextId /\ i \in Nat
    BY DEF TypeInv, TypeOK, Ids
  <1>3. ASSUME NEW x \in Threads, pc[x]' \in Loading, NEW r \in rows',
               r.id = id[x]'
        PROVE  file[x]' \in {None, r.url} \/ r.id \in raced'
    <2>1. CASE \E q \in rows : id[x]' = q.id /\ file[x]' = q.url
      BY <1>1, <1>3, <2>1 DEF TypeInv, TypeOK
    <2>2. CASE /\ pc[x] \in Loading /\ id[x]' = id[x]
               /\ file[x]' \in {None, file[x]}
      <3>1. id[x] < nextId /\ id[x] \in Nat
        BY <2>2, AtHolds DEF Loading, WithId, Steps, Ids
      <3>2. r \in rows
        BY <1>3, <2>2, <3>1, <1>1
      <3> QED BY <1>3, <2>2, <3>2 DEF CacheInv, LoadsCurrent
    <2> QED BY <1>3, <2>1, <2>2
  <1>4. LoadsCurrent'
    BY <1>3 DEF LoadsCurrent
  <1>5. ASSUME NEW r \in rows', r.id \in DOMAIN cache', r.id \notin raced,
               cache'[r.id] \notin {None, r.url}
        PROVE  \E x \in Threads : pc[x]' = "invalidate" /\ id[x]' = r.id
    <2>1. r \in rows
      BY <1>1, <1>2, <1>5
    <2>2. PICK x \in Threads : pc[x] = "invalidate" /\ id[x] = r.id
      BY <1>5, <2>1 DEF CacheInv, CacheIsCurrent
    <2> QED BY <1>5, <2>2
  <1>6. CacheIsCurrent'
    BY <1>5 DEF CacheIsCurrent
  <1> QED BY <1>4, <1>6 DEF CacheInv

(* A turn to a step that does not load. *)
LEMMA CacheTurn ==
    ASSUME TypeInv, CacheInv, NEW t \in Threads, UNCHANGED <<cache, raced>>,
           \A r \in rows' : r \in rows \/ r.id = nextId,
           NEW s, NEW next, NEW n, NEW i, NEW f, Turn(t, s, next, n, i, f),
           s # "invalidate",
           next \in Loading =>
               \/ s \in Loading /\ i = id[t] /\ f \in {None, file[t]}
               \/ \E r \in rows : i = r.id /\ f = r.url
    PROVE  CacheInv'
  BY Turned, CacheOther

LEMMA CacheUpdate ==
    ASSUME TypeInv, TypeInv', CacheInv, NEW t \in Threads, UpdateRow(t)
    PROVE  CacheInv'
  <1>1. /\ UNCHANGED cache /\ pc[t] = "update" /\ raced \subseteq raced'
        /\ (pc[t]' = "invalidate" /\ id[t]' = id[t]) \/ ~Exists(id[t])
        /\ pc[t]' \notin Loading
        /\ \A x \in Threads \ {t} : /\ pc[x]' = pc[x] /\ id[x]' = id[x]
                                    /\ file[x]' = file[x]
    BY Turned DEF UpdateRow, Goto, Answer, Loading
  <1>2. \A r \in rows' : \/ r \in rows /\ r.id # id[t]
                         \/ r.id = id[t] /\ Exists(id[t])
    BY DEF UpdateRow, TypeInv, TypeOK, TemplateRows, Exists
  <1>3. LoadsCurrent'
    <2> SUFFICES ASSUME NEW x \in Threads, pc[x]' \in Loading, NEW r \in rows',
                        r.id = id[x]'
                 PROVE  file[x]' \in {None, r.url} \/ r.id \in raced'
      BY DEF LoadsCurrent
    <2>1. x # t /\ pc[x] \in Loading /\ id[x]' = id[x] /\ file[x]' = file[x]
      BY <1>1
    <2>2. CASE r.id = id[t]
      BY <2>1, <2>2 DEF UpdateRow
    <2>3. CASE r \in rows
      BY <1>1, <2>1, <2>3 DEF CacheInv, LoadsCurrent
    <2> QED BY <1>2, <2>2, <2>3
  <1>4. CacheIsCurrent'
    <2> SUFFICES ASSUME NEW r \in rows'
                 PROVE  \/ r.id \notin DOMAIN cache
                        \/ cache[r.id] \in {None, r.url}
                        \/ r.id \in raced'
                        \/ \E x \in Threads : pc[x]' = "invalidate"
                                             /\ id[x]' = r.id
      BY <1>1 DEF CacheIsCurrent
    <2>1. CASE r.id = id[t] /\ Exists(id[t])
      BY <1>1, <2>1
    <2>2. CASE r \in rows
      <3>1. \A x \in Threads : pc[x] = "invalidate" =>
                pc[x]' = "invalidate" /\ id[x]' = id[x]
        BY <1>1
      <3> QED BY <1>1, <2>2, <3>1 DEF CacheInv, CacheIsCurrent
    <2> QED BY <1>2, <2>1, <2>2
  <1> QED BY <1>3, <1>4 DEF CacheInv

LEMMA CacheStore ==
    ASSUME TypeInv, CacheInv, NEW t \in Threads, Store(t) PROVE CacheInv'
  <1>1. /\ UNCHANGED <<rows, raced>> /\ pc[t] = "store" /\ pc[t]' \notin Loading
        /\ \A x \in Threads \ {t} : /\ pc[x]' = pc[x] /\ id[x]' = id[x]
                                    /\ file[x]' = file[x]
    BY Turned DEF Store, Goto, Answer, Loading, tables, history
  <1>2. LoadsCurrent'
    BY <1>1 DEF CacheInv, LoadsCurrent
  <1>3. /\ DOMAIN cache' = DOMAIN cache \cup {id[t]}
        /\ cache'[id[t]] = file[t]
        /\ \A i \in DOMAIN cache \ {id[t]} : cache'[i] = cache[i]
    BY DEF Store
  <1>4. CacheIsCurrent'
    <2> SUFFICES ASSUME NEW r \in rows
                 PROVE  \/ r.id \notin DOMAIN cache'
                        \/ cache'[r.id] \in {None, r.url}
                        \/ r.id \in raced
                        \/ \E x \in Threads : pc[x]' = "invalidate"
                                             /\ id[x]' = r.id
      BY <1>1 DEF CacheIsCurrent
    <2>1. CASE r.id = id[t]
      BY <1>1, <1>3, <2>1 DEF CacheInv, LoadsCurrent, Loading
    <2>2. CASE r.id # id[t]
      <3>1. \A x \in Threads : pc[x] = "invalidate" =>
                pc[x]' = "invalidate" /\ id[x]' = id[x]
        BY <1>1
      <3> QED BY <1>3, <2>2, <3>1 DEF CacheInv, CacheIsCurrent
    <2> QED BY <2>1, <2>2
  <1> QED BY <1>2, <1>4 DEF CacheInv

LEMMA CacheRestart == ASSUME TypeInv, CacheInv, Restart PROVE CacheInv'
  <1>1. /\ UNCHANGED <<rows, cache>>
        /\ raced' = raced \cup
                {id[t] : t \in {x \in Threads : pc[x] = "invalidate"}}
        /\ \A t \in Threads : pc[t]' = "idle"
    BY DEF Restart, tables
  <1>2. LoadsCurrent'
    BY <1>1 DEF LoadsCurrent, Loading
  <1>3. CacheIsCurrent'
    BY <1>1 DEF CacheInv, CacheIsCurrent
  <1> QED BY <1>2, <1>3 DEF CacheInv

LEMMA CacheInvStep == TypeInv /\ TypeInv' /\ CacheInv /\ [Next]_vars => CacheInv'
  <1> SUFFICES ASSUME TypeInv, TypeInv', CacheInv, [Next]_vars PROVE CacheInv'
    OBVIOUS
  <1> USE DEF Loading
  <1>1. CASE UNCHANGED <<rows, raced, locals>> /\ (cache' = cache
                 \/ \E i : cache' = Without(i))
    BY <1>1, CacheOther DEF locals, Without
  <1>2. ASSUME NEW t \in Threads, Enter(t) PROVE CacheInv'
    <2>1. ASSUME NEW n \in Names, EnterSave(t, n) PROVE CacheInv'
      BY <2>1, CacheTurn DEF EnterSave, tables, history
    <2>2. ASSUME NEW r \in rows, EnterLoad(t, r) \/ EnterOffer(t, r)
                                  \/ EnterDelete(t, r)
          PROVE  CacheInv'
      BY <2>2, CacheTurn DEF EnterLoad, EnterOffer, EnterDelete, tables, history
    <2>3. ASSUME NEW i \in offered, Withdraw(t, i) PROVE CacheInv'
      BY <1>1, <2>3 DEF Withdraw, history
    <2> QED BY <1>2, <2>1, <2>2, <2>3 DEF Enter
  <1>3. ASSUME NEW t \in Threads, Step(t) PROVE CacheInv'
    <2>1. CASE SaveToStorage(t) \/ FindByName(t)
      BY <2>1, CacheTurn
      DEF SaveToStorage, FindByName, Goto, Answer, tables, history
    <2>2. CASE InsertRow(t)
      <3>1. \A r \in rows' : r \in rows \/ r.id = nextId
        BY <2>2 DEF InsertRow
      <3> QED BY <2>2, <3>1, CacheTurn DEF InsertRow, Answer, history
    <2>3. CASE Invalidate(t) \/ DropCache(t)
      <3>1. /\ pc[t]' \notin Loading
            /\ pc[t] = "invalidate" => id[t] \notin DOMAIN cache'
            /\ DOMAIN cache' \subseteq DOMAIN cache
            /\ \A i \in DOMAIN cache' : cache'[i] = cache[i]
            /\ UNCHANGED <<rows, raced>>
        BY <2>3, Turned DEF Invalidate, DropCache, Goto, Answer, Without,
           tables, history
      <3>2. \A x \in Threads \ {t} : /\ pc[x]' = pc[x] /\ id[x]' = id[x]
                                     /\ file[x]' = file[x]
        BY <2>3, Turned DEF Invalidate, DropCache, Goto, Answer
      <3> QED BY <3>1, <3>2, CacheOther
    <2>4. CASE Lookup(t) \/ Fetch(t)
      BY <2>4, CacheTurn DEF Lookup, Fetch, Goto, Answer, tables, history
    <2>5. CASE Start(t) \/ Offer(t)
      BY <2>5, CacheTurn DEF Start, Offer, Answer
    <2>6. CASE Unlink(t) \/ DeleteRels(t) \/ DeleteRow(t)
      BY <2>6, CacheTurn
      DEF Unlink, DeleteRels, DeleteRow, Goto, Answer, tables, history
    <2> QED BY <1>3, <2>1, <2>2, <2>3, <2>4, <2>5, <2>6, CacheUpdate, CacheStore
            DEF Step
  <1>4. CASE Restart
    BY <1>4, CacheRestart
  <1> QED BY <1>1, <1>2, <1>3, <1>4 DEF Next, Expire, vars, tables, history

(* The cache holds what the row refers to, however loads, updates, new     *)
(* templates and deletions interleave, but for the loads that had read the *)
(* row before an update and for a crash before the invalidation.           *)
THEOREM CacheAlwaysCurrent == Spec => []CacheIsCurrent
  <1>1. CacheInv => CacheIsCurrent
    BY DEF CacheInv
  <1>2. TypeInv /\ CacheInv /\ [Next]_vars => TypeInv' /\ CacheInv'
    BY TypeInvStep, CacheInvStep
  <1> QED BY <1>1, <1>2, TypeInvInit, CacheInvInit, PTL DEF Spec

============================================================================
