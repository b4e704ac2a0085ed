-------------------------- MODULE AzureCertProofs --------------------------
(***************************************************************************)
(* Azure certificates, for any number of threads, hackathons,              *)
(* subscriptions and keys: types, and when a key and its certificate go.   *)
(***************************************************************************)
EXTENDS AzureCert, TLAPS

----------------------------------------------------------------------------
(* Types *)

KeysOK ==
    /\ keys \subseteq KeyRows
    /\ nextKey \in Ids
    /\ \A x \in keys : x.id < nextKey
    /\ \A x, y \in keys : x.id = y.id => x = y

RelsOK ==
    /\ rels \subseteq Rels
    /\ \A r \in rels : Exists(r.key)
    /\ late \subseteq rels

FilesOK ==
    /\ cers \subseteq Subscriptions /\ stored \subseteq Subscriptions
    /\ doubled \subseteq Subscriptions
    /\ cut \subseteq Ids

Creating == {"find_key", "add_key", "find_rel", "add_rel", "save", "set_url"}

(* The key of a call has been handed out; the row of a creation's key, as  *)
(* long as it is there, is of the subscription.                            *)
Fits(c) ==
    /\ c.step \in Creating => c.sub \in Subscriptions
    /\ c.step \notin {"find_key", "add_key"} =>
         c.key \in Ids /\ c.key < nextKey
    /\ c.step \in {"find_rel", "add_rel", "save", "set_url"} =>
         \A x \in keys : x.id = c.key => x.sub = c.sub

CallsOK ==
    /\ call \in [Threads -> Calls \cup {None}]
    /\ \A t \in Threads : call[t] # None => Fits(call[t])

TypeInv == KeysOK /\ RelsOK /\ FilesOK /\ CallsOK

LEMMA TypeInvInit == Init => TypeInv
  BY DEF Init, TypeInv, KeysOK, RelsOK, FilesOK, CallsOK, Ids

LEMMA TypeInvTypes == TypeInv => TypeOK
  BY DEF TypeInv, TypeOK, KeysOK, RelsOK, FilesOK, CallsOK

LEMMA AtFits ==
    ASSUME TypeInv, NEW t \in Threads, call[t] # None
    PROVE  call[t] \in Calls /\ Fits(call[t])
  BY DEF TypeInv, CallsOK

(* Keys are new ones, or ones that were there, of the same subscription.   *)
Later ==
    /\ nextKey' \in Ids /\ nextKey' >= nextKey
    /\ \A x \in keys' : \/ \E y \in keys : y.id = x.id /\ y.sub = x.sub
                        \/ x.id >= nextKey

LEMMA CallTypes ==
    ASSUME TypeInv, NEW t \in Threads, Later, NEW c \in Calls \cup {None},
           c # None => Fits(c)',
           call' = [call EXCEPT ![t] = c]
    PROVE  CallsOK'
  <1>1. call' \in [Threads -> Calls \cup {None}]
    BY DEF TypeInv, CallsOK
  <1>2. ASSUME NEW s \in Threads, call[s]' # None PROVE Fits(call[s])'
    <2>1. CASE s = t
      BY <1>2, <2>1 DEF TypeInv, CallsOK, Fits
    <2>2. CASE s # t
      <3>1. PICK d : d = call[s] /\ d = call[s]'
        BY <2>2 DEF TypeInv, CallsOK
      <3>2. Fits(d) /\ nextKey \in Nat /\ nextKey' \in Nat
        BY <3>1, <1>2 DEF TypeInv, CallsOK, KeysOK, Later, Ids
      <3>3. d.step \notin {"find_key", "add_key"} =>
               d.key \in Ids /\ d.key < nextKey'
        BY <3>2 DEF Fits, Later, Ids
      <3>4. d.step \in {"find_rel", "add_rel", "save", "set_url"} =>
               \A x \in keys' : x.id = d.key => x.sub = d.sub
        BY <3>2 DEF Fits, Later, Ids
      <3> QED BY <3>1, <3>2, <3>3, <3>4 DEF Fits
    <2> QED BY <2>1, <2>2
  <1> QED BY <1>1, <1>2 DEF CallsOK

LEMMA SameKeys == ASSUME TypeInv, UNCHANGED <<keys, nextKey>> PROVE Later
  BY DEF TypeInv, KeysOK, Later, Ids

LEMMA AnswerTypes ==
    ASSUME TypeInv, NEW t \in Threads, Later, Answer(t) PROVE CallsOK'
  BY CallTypes DEF Answer

LEMMA GotoTypes ==
    ASSUME TypeInv, NEW t \in Threads, call[t] # None, UNCHANGED <<keys, nextKey>>,
           NEW step \in Steps, Goto(t, step),
           step \in Creating => call[t].step \in Creating,
           step \notin {"find_key", "add_key"} =>
               call[t].step \notin {"find_key", "add_key"},
           step \in {"find_rel", "add_rel", "save", "set_url"} =>
               call[t].step \in {"find_rel", "add_rel", "save", "set_url"}
    PROVE  CallsOK'
  <1> DEFINE c == [call[t] EXCEPT !.step = step]
  <1>1. call[t] \in Calls /\ Fits(call[t])
    BY AtFits
  <1>2. /\ c \in Calls /\ c.step = step /\ c.sub = call[t].sub
        /\ c.key = call[t].key
    BY <1>1 DEF Calls
  <1>3. call' = [call EXCEPT ![t] = c]
    BY DEF Goto
  <1> HIDE DEF c
  <1>4. Fits(c)
    BY <1>1, <1>2 DEF Fits
  <1>5. \E d \in Calls : Fits(d)' /\ call' = [call EXCEPT ![t] = d]
    BY <1>2, <1>3, <1>4 DEF Fits
  <1> QED BY <1>5, CallTypes, SameKeys

LEMMA EnterTypes ==
    ASSUME TypeInv, NEW t \in Threads, NEW h \in Hackathons,
           \/ \E s \in Subscriptions : EnterCreate(t, h, s)
           \/ \E k \in 1..(nextKey - 1) : EnterDelete(t, h, k)
    PROVE  TypeInv'
  <1> USE DEF Steps, Deleting, Creating
  <1>1. ASSUME NEW s \in Subscriptions, EnterCreate(t, h, s) PROVE TypeInv'
    <2> DEFINE c == [step |-> "find_key", hackathon |-> h, sub |-> s,
                     key |-> None]
    <2>1. c \in Calls /\ Fits(c)' /\ call' = [call EXCEPT ![t] = c]
      BY <1>1 DEF EnterCreate, Calls, Fits
    <2> HIDE DEF c
    <2>2. UNCHANGED <<keys, nextKey, rels, stored, history>>
          /\ cers' \subseteq cers \cup {s}
      BY <1>1 DEF EnterCreate
    <2>3. CallsOK'
      BY <2>1, <2>2, CallTypes, SameKeys
    <2> QED BY <2>2, <2>3 DEF TypeInv, KeysOK, RelsOK, FilesOK, Exists, history
  <1>2. ASSUME NEW k \in 1..(nextKey - 1), EnterDelete(t, h, k) PROVE TypeInv'
    <2> DEFINE c == [step |-> "delete_rels", hackathon |-> h, sub |-> None,
                     key |-> k]
    <2>1. k \in Ids /\ k < nextKey
      BY DEF TypeInv, KeysOK, Ids
    <2>2. /\ UNCHANGED <<keys, nextKey, rels, files, history>>
          /\ call' = [call EXCEPT ![t] = c]
      BY <1>2 DEF EnterDelete
    <2>3. c \in Calls /\ Fits(c)'
      BY <2>1, <2>2 DEF Calls, Fits
    <2> HIDE DEF c
    <2>4. CallsOK'
      BY <2>2, <2>3, CallTypes, SameKeys
    <2> QED BY <2>2, <2>4 DEF TypeInv, KeysOK, RelsOK, FilesOK, Exists,
               history, files
  <1> QED BY <1>1, <1>2

(* Steps that change neither keys nor relations. *)
LEMMA RestTypes ==
    ASSUME TypeInv, UNCHANGED <<keys, nextKey, rels, history>>, CallsOK',
           cers' \subseteq Subscriptions, stored' \subseteq Subscriptions
    PROVE  TypeInv'
  BY DEF TypeInv, KeysOK, RelsOK, FilesOK, Exists, history

LEMMA FindTypes ==
    ASSUME TypeInv, NEW t \in Threads,
           FindKey(t) \/ FindRel(t) \/ Save(t) \/ CountRels(t) \/ RemoveFile(t)
    PROVE  TypeInv'
  <1> USE DEF Steps, Deleting, Creating, At
  <1>0. /\ UNCHANGED <<keys, nextKey, rels, history>> /\ call[t] # None
        /\ call[t] \in Calls /\ Fits(call[t]) /\ Later
    BY AtFits, SameKeys DEF FindKey, FindRel, Save, CountRels, RemoveFile
  <1>1. CASE FindKey(t)
    <2>1. ASSUME Goto(t, "add_key") PROVE CallsOK'
      BY <1>0, <1>1, <2>1, GotoTypes DEF FindKey
    <2>2. ASSUME NEW x \in keys, x.sub = call[t].sub, Hold(t, "find_rel", x.id)
          PROVE  CallsOK'
      <3>1. x.id \in Ids /\ x.id < nextKey
        BY DEF TypeInv, KeysOK, KeyRows
      <3>2. PICK c : c = [call[t] EXCEPT !.step = "find_rel", !.key = x.id]
        OBVIOUS
      <3>3. /\ c \in Calls /\ c.step = "find_rel" /\ c.key = x.id
            /\ c.sub = x.sub
        BY <1>0, <2>2, <3>1, <3>2 DEF Calls
      <3>4. call' = [call EXCEPT ![t] = c]
        BY <1>0, <2>2, <3>2 DEF Hold, Calls
      <3>5. x.sub \in Subscriptions
        BY DEF TypeInv, KeysOK, KeyRows
      <3>6. Fits(c)'
        BY <1>0, <3>1, <3>3, <3>5 DEF Fits, TypeInv, KeysOK
      <3> QED BY <1>0, <3>3, <3>4, <3>6, CallTypes
    <2>3. CallsOK'
      BY <1>1, <2>1, <2>2 DEF FindKey
    <2> QED BY <1>0, <1>1, <2>3, RestTypes
        DEF FindKey, files, TypeInv, FilesOK
  <1>2. CASE FindRel(t)
    <2>1. CallsOK'
      BY <1>0, <1>2, GotoTypes, AnswerTypes DEF FindRel
    <2> QED BY <1>0, <1>2, <2>1, RestTypes DEF FindRel, files, TypeInv, FilesOK
  <1>3. CASE Save(t)
    <2>1. CallsOK'
      BY <1>0, <1>3, GotoTypes, AnswerTypes DEF Save
    <2>2. call[t].sub \in Subscriptions
      BY <1>0, <1>3 DEF Save, Fits
    <2> QED BY <1>0, <1>3, <2>1, <2>2, RestTypes DEF Save, TypeInv, FilesOK
  <1>4. CASE CountRels(t)
    <2>1. CallsOK'
      BY <1>0, <1>4, GotoTypes, AnswerTypes DEF CountRels
    <2> QED BY <1>0, <1>4, <2>1, RestTypes DEF CountRels, files, TypeInv, FilesOK
  <1>5. CASE RemoveFile(t)
    <2>1. CallsOK'
      BY <1>0, <1>5, GotoTypes, AnswerTypes DEF RemoveFile
    <2> QED BY <1>0, <1>5, <2>1, RestTypes
        DEF RemoveFile, files, TypeInv, FilesOK
  <1> QED BY <1>1, <1>2, <1>3, <1>4, <1>5

LEMMA AddKeyTypes ==
    ASSUME TypeInv, NEW t \in Threads, AddKey(t) PROVE TypeInv'
  <1>1. /\ call[t] # None /\ call[t] \in Calls /\ call[t].sub \in Subscriptions
    BY AtFits DEF AddKey, At, Fits, Creating
  <1>2. PICK k : k = nextKey
    OBVIOUS
  <1>3. k \in Ids /\ nextKey' = k + 1
    BY <1>2 DEF AddKey, TypeInv, KeysOK
  <1>4. PICK x : /\ x \in KeyRows /\ x.id = k /\ x.sub = call[t].sub
                 /\ keys' = keys \cup {x}
    <2> DEFINE x == [id |-> nextKey, sub |-> call[t].sub, local |-> TRUE]
    <2>1. x \in KeyRows /\ x.id = k /\ x.sub = call[t].sub
      BY <1>1, <1>2, <1>3 DEF KeyRows
    <2>2. keys' = keys \cup {x}
      BY DEF AddKey
    <2> HIDE DEF x
    <2> QED BY <2>1, <2>2
  <1>5. KeysOK'
    BY <1>2, <1>3, <1>4 DEF TypeInv, KeysOK, KeyRows, Ids
  <1>6. RelsOK'
    BY <1>4 DEF AddKey, TypeInv, RelsOK, Exists
  <1>7. FilesOK'
    BY <1>1 DEF AddKey, files, TypeInv, FilesOK
  <1>8. Later
    BY <1>2, <1>3, <1>4 DEF Later, Ids
  <1>9. CallsOK'
    <2>1. PICK c : c = [call[t] EXCEPT !.step = "find_rel", !.key = k]
      OBVIOUS
    <2>2. /\ c \in Calls /\ c.step = "find_rel" /\ c.key = k
          /\ c.sub = call[t].sub /\ c.sub \in Subscriptions
      BY <1>1, <1>3, <2>1 DEF Calls, Steps
    <2>3. call' = [call EXCEPT ![t] = c]
      BY <1>1, <1>2, <2>1 DEF AddKey, Hold, Calls
    <2>4. \A y \in keys' : y.id = k => y.sub = c.sub
      BY <1>2, <1>3, <1>4, <2>2 DEF TypeInv, KeysOK, KeyRows, Ids
    <2>5. Fits(c)'
      BY <1>3, <2>2, <2>4 DEF Fits, Creating, Ids
    <2> QED BY <1>8, <2>2, <2>3, <2>5, CallTypes
  <1> QED BY <1>5, <1>6, <1>7, <1>9 DEF TypeInv

LEMMA RelTypes ==
    ASSUME TypeInv, NEW t \in Threads, AddRel(t) \/ SetUrl(t) \/ DeleteRels(t)
                                       \/ DeleteKey(t)
    PROVE  TypeInv'
  <1> USE DEF Steps, Deleting, Creating, At
  <1>0. /\ call[t] # None /\ call[t] \in Calls /\ Fits(call[t])
        /\ nextKey' = nextKey /\ UNCHANGED <<files, doubled, cut>>
    BY AtFits DEF AddRel, SetUrl, DeleteRels, DeleteKey, history
  <1>1. /\ keys' \subseteq KeyRows
        /\ \A x \in keys' : \E y \in keys : y.id = x.id /\ y.sub = x.sub
        /\ \A x, y \in keys' : x.id = y.id => x = y
    <2>1. CASE SetUrl(t)
      <3> DEFINE F(x) == IF x.id = call[t].key THEN [x EXCEPT !.local = FALSE]
                                               ELSE x
      <3>1. keys' = {F(x) : x \in keys}
        BY <2>1 DEF SetUrl
      <3>2. \A x \in keys : /\ F(x) \in KeyRows /\ F(x).id = x.id
                            /\ F(x).sub = x.sub
        BY DEF TypeInv, KeysOK, KeyRows
      <3> HIDE DEF F
      <3> QED BY <3>1, <3>2 DEF TypeInv, KeysOK
    <2>2. CASE keys' \subseteq keys
      BY <2>2 DEF TypeInv, KeysOK
    <2> QED BY <2>1, <2>2 DEF AddRel, DeleteRels, DeleteKey
  <1>2. Later
    BY <1>0, <1>1 DEF Later, TypeInv, KeysOK, Ids
  <1>3. KeysOK'
    BY <1>0, <1>1 DEF TypeInv, KeysOK
  <1>4. CallsOK'
    <2>1. CASE AddRel(t)
      BY <1>0, <1>2, <2>1, GotoTypes, AnswerTypes DEF AddRel
    <2>2. CASE SetUrl(t) \/ DeleteKey(t)
      BY <1>2, <2>2, AnswerTypes DEF SetUrl, DeleteKey
    <2>3. CASE DeleteRels(t)
      BY <1>0, <2>3, GotoTypes DEF DeleteRels
    <2> QED BY <2>1, <2>2, <2>3
  <1>5. RelsOK'
    <2>1. CASE AddRel(t)
      <3>0. PICK r : r = [hackathon |-> call[t].hackathon, key |-> call[t].key]
        OBVIOUS
      <3>1. CASE UNCHANGED <<rels, late>>
        BY <2>1, <3>1 DEF AddRel, TypeInv, RelsOK, Exists
      <3>2. CASE /\ Exists(r.key) /\ rels' = rels \cup {r}
                 /\ late' \subseteq late \cup {r}
        <4>1. call[t].key \in Ids /\ call[t].hackathon \in Hackathons
          BY <1>0, <2>1 DEF AddRel, Fits, Calls
        <4>2. r \in Rels /\ r.key = call[t].key
          BY <3>0, <4>1 DEF Rels
        <4>3. Exists(r.key)' /\ \A q \in rels : Exists(q.key)'
          BY <2>1, <3>2, <4>2 DEF AddRel, Exists, TypeInv, RelsOK
        <4> QED BY <3>2, <4>2, <4>3 DEF TypeInv, RelsOK
      <3> QED BY <2>1, <3>0, <3>1, <3>2 DEF AddRel
    <2>2. CASE SetUrl(t)
      <3>1. \A k : Exists(k) => Exists(k)'
        <4>1. \A x \in keys : \E y \in keys' : y.id = x.id
          <5>1. ASSUME NEW x \in keys PROVE \E y \in keys' : y.id = x.id
            <6>1. x \in KeyRows
              BY DEF TypeInv, KeysOK
            <6>2. CASE x.id = call[t].key
              BY <2>2, <6>1, <6>2, [x EXCEPT !.local = FALSE] \in keys'
              DEF SetUrl, KeyRows
            <6>3. CASE x.id # call[t].key
              BY <2>2, <6>3, x \in keys' DEF SetUrl
            <6> QED BY <6>2, <6>3
          <5> QED BY <5>1
        <4> QED BY <4>1 DEF Exists
      <3> QED BY <2>2, <3>1 DEF SetUrl, history, TypeInv, RelsOK
    <2>3. CASE DeleteRels(t)
      BY <2>3 DEF DeleteRels, Others, TypeInv, RelsOK, Exists
    <2>4. CASE DeleteKey(t)
      <3>1. \A r \in rels' : r \in rels /\ r.key # call[t].key
        BY <2>4 DEF DeleteKey, RelsOf
      <3>2. \A k : Exists(k) /\ k # call[t].key => Exists(k)'
        BY <2>4 DEF DeleteKey, Exists
      <3>3. late' \subseteq rels'
        BY <2>4 DEF DeleteKey, TypeInv, RelsOK
      <3> QED BY <3>1, <3>2, <3>3 DEF TypeInv, RelsOK
    <2> QED BY <2>1, <2>2, <2>3, <2>4
  <1>6. FilesOK'
    BY <1>0 DEF files, TypeInv, FilesOK
  <1> QED BY <1>3, <1>4, <1>5, <1>6 DEF TypeInv

LEMMA RestartTypes == ASSUME TypeInv, Restart PROVE TypeInv'
  <1>1. /\ UNCHANGED <<keys, nextKey, rels, files, late, doubled>>
        /\ call' = [t \in Threads |-> None]
        /\ cut' = cut \cup {call[t].key : t \in {x \in Threads :
                      call[x] # None /\ call[x].step \in Deleting}}
    BY DEF Restart
  <1>2. \A x \in Threads : call[x] # None /\ call[x].step \in Deleting
                               => call[x].key \in Ids
    BY AtFits DEF Fits, Deleting
  <1>3. FilesOK'
    BY <1>1, <1>2 DEF files, TypeInv, FilesOK
  <1> QED BY <1>1, <1>3 DEF TypeInv, KeysOK, RelsOK, CallsOK, Exists

LEMMA TypeInvStep == TypeInv /\ [Next]_vars => TypeInv'
  <1> SUFFICES ASSUME TypeInv, [Next]_vars PROVE TypeInv'
    OBVIOUS
  <1>1. CASE UNCHANGED vars
    BY <1>1 DEF vars, files, history, TypeInv, KeysOK, RelsOK, FilesOK,
       CallsOK, Fits, Exists
  <1>2. CASE Restart
    BY <1>2, RestartTypes
  <1>3. ASSUME NEW t \in Threads, Step(t) PROVE TypeInv'
    BY <1>3, EnterTypes, FindTypes, AddKeyTypes, RelTypes DEF Step
  <1> QED BY <1>1, <1>2, <1>3 DEF Next

(* Whatever is created and deleted at a time, crashes included, the rows   *)
(* keep their types, and no relation refers to a key that is gone.         *)
THEOREM AzureCertTypeCorrect == Spec => []TypeOK
  BY TypeInvInit, TypeInvStep, TypeInvTypes, PTL DEF Spec

----------------------------------------------------------------------------
(* A key in use is kept *)

Counted(t) ==
    call[t] # None /\ call[t].step \in {"remove", "delete_key"}

(* What a counted key is used by has come behind the count. *)
CountedInv ==
    \A t \in Threads : Counted(t) => RelsOf(call[t].key) \subseteq late

LEMMA CountedKept ==
    ASSUME TypeInv, CountedInv, NEW t \in Threads,
           \A s \in Threads : s # t => call'[s] = call[s],
           late \cap rels' \subseteq late',
           \A r \in rels' :
               \/ r \in rels
               \/ \A s \in Threads : Counted(s) /\ r.key = call[s].key
                                         => r \in late',
           Counted(t)' => \A r \in rels' : r.key = call'[t].key => r \in late'
    PROVE  CountedInv'
  <1> SUFFICES ASSUME NEW s \in Threads, Counted(s)', NEW r \in rels',
                      r.key = call'[s].key
               PROVE  r \in late'
    BY DEF CountedInv, RelsOf
  <1>1. CASE s # t
    BY <1>1 DEF CountedInv, Counted, RelsOf
  <1>2. CASE s = t
    BY <1>2
  <1> QED BY <1>1, <1>2

(* The step of a call that goes on, and the calls of the others. *)
LEMMA GotoMoves ==
    ASSUME TypeInv, NEW t \in Threads, call[t] # None, NEW step \in Steps, Goto(t, step)
    PROVE  /\ call'[t] # None /\ call'[t].step = step
           /\ call'[t].key = call[t].key
           /\ call'[t].sub = call[t].sub
           /\ call'[t].hackathon = call[t].hackathon
           /\ \A s \in Threads : s # t => call'[s] = call[s]
  <1>1. PICK c : c = [call[t] EXCEPT !.step = step]
    OBVIOUS
  <1>2. call[t] \in Calls /\ call \in [Threads -> Calls \cup {None}]
    BY AtFits DEF TypeInv, CallsOK
  <1>3. /\ c \in Calls /\ c.step = step /\ c.key = call[t].key
        /\ c.sub = call[t].sub /\ c.hackathon = call[t].hackathon
    BY <1>1, <1>2 DEF Calls
  <1>4. call' = [call EXCEPT ![t] = c]
    BY <1>1 DEF Goto
  <1>5. call'[t] = c /\ c # None
    BY <1>2, <1>3, <1>4, NoneAssumption
  <1>6. \A s \in Threads : s # t => call'[s] = call[s]
    BY <1>2, <1>4
  <1> QED BY <1>3, <1>5, <1>6

LEMMA AnswerMoves ==
    ASSUME TypeInv, NEW t \in Threads, Answer(t)
    PROVE  call'[t] = None /\ \A s \in Threads : s # t => call'[s] = call[s]
  BY DEF Answer, TypeInv, CallsOK

LEMMA HoldMoves ==
    ASSUME TypeInv, NEW t \in Threads, call[t] # None, NEW k \in Ids,
           Hold(t, "find_rel", k)
    PROVE  /\ call'[t] # None /\ call'[t].step = "find_rel"
           /\ call'[t].key = k /\ call'[t].sub = call[t].sub
           /\ \A s \in Threads : s # t => call'[s] = call[s]
  <1>1. PICK c : c = [call[t] EXCEPT !.step = "find_rel", !.key = k]
    OBVIOUS
  <1>2. call[t] \in Calls /\ call \in [Threads -> Calls \cup {None}]
    BY AtFits DEF TypeInv, CallsOK
  <1>3. /\ c \in Calls /\ c.step = "find_rel" /\ c.key = k
        /\ c.sub = call[t].sub
    BY <1>1, <1>2 DEF Calls, Steps
  <1>4. call' = [call EXCEPT ![t] = c]
    BY <1>1, <1>2 DEF Hold, Calls
  <1>5. call'[t] = c /\ c # None
    BY <1>2, <1>3, <1>4, NoneAssumption
  <1>6. \A s \in Threads : s # t => call'[s] = call[s]
    BY <1>2, <1>4
  <1> QED BY <1>3, <1>5, <1>6

LEMMA EnterMoves ==
    ASSUME TypeInv, NEW t \in Threads, NEW h \in Hackathons,
           \/ \E s \in Subscriptions : EnterCreate(t, h, s)
           \/ \E k \in 1..(nextKey - 1) : EnterDelete(t, h, k)
    PROVE  /\ call'[t].step \in {"find_key", "delete_rels"}
           /\ \A s \in Threads : s # t => call'[s] = call[s]
           /\ UNCHANGED <<keys, nextKey, rels, stored, history>>
           /\ call[t] = None
  <1>1. ASSUME NEW s \in Subscriptions, EnterCreate(t, h, s)
        PROVE  /\ call'[t].step \in {"find_key", "delete_rels"}
               /\ \A x \in Threads : x # t => call'[x] = call[x]
    <2> DEFINE c == [step |-> "find_key", hackathon |-> h, sub |-> s,
                     key |-> None]
    <2>1. c.step \in {"find_key", "delete_rels"} /\ call' = [call EXCEPT ![t] = c]
      BY <1>1 DEF EnterCreate
    <2> HIDE DEF c
    <2> QED BY <2>1 DEF TypeInv, CallsOK
  <1>2. ASSUME NEW k \in 1..(nextKey - 1), EnterDelete(t, h, k)
        PROVE  /\ call'[t].step \in {"find_key", "delete_rels"}
               /\ \A x \in Threads : x # t => call'[x] = call[x]
    <2> DEFINE c == [step |-> "delete_rels", hackathon |-> h, sub |-> None,
                     key |-> k]
    <2>1. c.step \in {"find_key", "delete_rels"} /\ call' = [call EXCEPT ![t] = c]
      BY <1>2 DEF EnterDelete
    <2> HIDE DEF c
    <2> QED BY <2>1 DEF TypeInv, CallsOK
  <1> QED BY <1>1, <1>2 DEF EnterCreate, EnterDelete, files

LEMMA CountedStep ==
    ASSUME TypeInv, CountedInv, NEW t \in Threads, Step(t) PROVE CountedInv'
  <1> USE DEF Steps, Deleting
  <1>1. ASSUME NEW h \in Hackathons,
               \/ \E s \in Subscriptions : EnterCreate(t, h, s)
               \/ \E k \in 1..(nextKey - 1) : EnterDelete(t, h, k)
        PROVE  CountedInv'
    BY <1>1, EnterMoves, CountedKept DEF Counted, history
  <1>2. CASE FindKey(t) \/ AddKey(t)
    <2>1. UNCHANGED <<rels, late>> /\ call[t] # None
      BY <1>2 DEF FindKey, AddKey, At, history
    <2>2. ASSUME NEW k \in Ids, Hold(t, "find_rel", k) PROVE CountedInv'
      BY <2>1, <2>2, HoldMoves, CountedKept DEF Counted
    <2>3. ASSUME Goto(t, "add_key") PROVE CountedInv'
      BY <2>1, <2>3, GotoMoves, CountedKept DEF Counted
    <2>4. nextKey \in Ids /\ \A x \in keys : x.id \in Ids
      BY DEF TypeInv, KeysOK, KeyRows
    <2> QED BY <1>2, <2>2, <2>3, <2>4 DEF FindKey, AddKey
  <1>3. CASE FindRel(t) \/ Save(t) \/ SetUrl(t)
    <2>1. UNCHANGED <<rels, late>> /\ call[t] # None
      BY <1>3 DEF FindRel, Save, SetUrl, At, history
    <2>2. ASSUME Answer(t) PROVE CountedInv'
      BY <2>1, <2>2, AnswerMoves, CountedKept DEF Counted
    <2>3. ASSUME NEW step \in {"save", "add_rel", "set_url"}, Goto(t, step)
          PROVE  CountedInv'
      BY <2>1, <2>3, GotoMoves, CountedKept DEF Counted
    <2> QED BY <1>3, <2>2, <2>3 DEF FindRel, Save, SetUrl
  <1>4. CASE AddRel(t)
    <2>1. call[t] # None /\ call[t].step = "add_rel"
      BY <1>4 DEF AddRel, At
    <2>2. CASE Answer(t) /\ UNCHANGED <<rels, late>>
      BY <2>2, AnswerMoves, CountedKept DEF Counted
    <2>3. CASE ~(Answer(t) /\ UNCHANGED <<rels, late>>)
      <3>1. PICK r : r = [hackathon |-> call[t].hackathon, key |-> call[t].key]
        OBVIOUS
      <3>2. /\ rels' = rels \cup {r} /\ late \subseteq late'
            /\ (\E x \in Threads : Counted(x) /\ call[x].key = r.key)
                 => r \in late'
            /\ Goto(t, "save")
        BY <1>4, <2>3, <3>1 DEF AddRel, Counted, At
      <3>3. call'[t].step = "save" /\ \A s \in Threads : s # t => call'[s] = call[s]
        BY <2>1, <3>2, GotoMoves
      <3> QED BY <3>2, <3>3, CountedKept DEF Counted
    <2> QED BY <2>2, <2>3
  <1>5. CASE DeleteRels(t)
    <2>1. /\ call[t] # None /\ Goto(t, "count") /\ rels' \subseteq rels
          /\ late \cap rels' \subseteq late'
      BY <1>5 DEF DeleteRels, At, Others
    <2>2. call'[t].step = "count" /\ \A s \in Threads : s # t => call'[s] = call[s]
      BY <2>1, GotoMoves
    <2> QED BY <2>1, <2>2, CountedKept DEF Counted
  <1>6. CASE CountRels(t)
    <2>1. call[t] # None /\ UNCHANGED <<rels, late>>
      BY <1>6 DEF CountRels, At, history
    <2>2. CASE Answer(t)
      BY <2>1, <2>2, AnswerMoves, CountedKept DEF Counted
    <2>3. CASE Goto(t, "remove") /\ RelsOf(call[t].key) = {}
      BY <2>1, <2>3, GotoMoves, CountedKept DEF Counted, RelsOf
    <2> QED BY <1>6, <2>2, <2>3 DEF CountRels
  <1>7. CASE RemoveFile(t)
    <2>1. call[t] # None /\ UNCHANGED <<rels, late>> /\ Counted(t)
      BY <1>7 DEF RemoveFile, At, history, Counted
    <2>2. CASE Answer(t)
      BY <2>1, <2>2, AnswerMoves, CountedKept DEF Counted
    <2>3. CASE Goto(t, "delete_key")
      <3>1. /\ call'[t].key = call[t].key
            /\ \A s \in Threads : s # t => call'[s] = call[s]
        BY <2>1, <2>3, GotoMoves
      <3>2. \A r \in rels' : r.key = call'[t].key => r \in late'
        BY <2>1, <3>1 DEF CountedInv, RelsOf
      <3> QED BY <2>1, <3>1, <3>2, CountedKept
    <2> QED BY <1>7, <2>2, <2>3 DEF RemoveFile
  <1>8. CASE DeleteKey(t)
    <2>1. /\ Answer(t) /\ rels' \subseteq rels /\ late \cap rels' \subseteq late'
      BY <1>8 DEF DeleteKey, RelsOf
    <2> QED BY <2>1, AnswerMoves, CountedKept DEF Counted
  <1> QED BY <1>1, <1>2, <1>3, <1>4, <1>5, <1>6, <1>7, <1>8 DEF Step

LEMMA CountedNext == TypeInv /\ CountedInv /\ [Next]_vars => CountedInv'
  <1> SUFFICES ASSUME TypeInv, CountedInv, [Next]_vars PROVE CountedInv'
    OBVIOUS
  <1>1. CASE UNCHANGED vars
    BY <1>1 DEF vars, history, CountedInv, Counted, RelsOf
  <1>2. CASE Restart
    BY <1>2 DEF Restart, CountedInv, Counted
  <1>3. ASSUME NEW t \in Threads, Step(t) PROVE CountedInv'
    BY <1>3, CountedStep
  <1> QED BY <1>1, <1>2, <1>3 DEF Next

(* Only DeleteKey takes a key, and only a counted one. *)
LEMMA KeyGoesUnused ==
    ASSUME TypeInv, CountedInv, Next, NEW x \in keys
    PROVE  Exists(x.id)' \/ RelsOf(x.id) \subseteq late
  <1>1. CASE keys \subseteq keys'
    BY <1>1 DEF Exists
  <1>2. ASSUME NEW t \in Threads, SetUrl(t) PROVE Exists(x.id)'
    <2>1. x \in KeyRows
      BY DEF TypeInv, KeysOK
    <2>2. CASE x.id = call[t].key
      BY <1>2, <2>1, <2>2, [x EXCEPT !.local = FALSE] \in keys'
      DEF SetUrl, KeyRows, Exists
    <2>3. CASE x.id # call[t].key
      BY <1>2, <2>3, x \in keys' DEF SetUrl, Exists
    <2> QED BY <2>2, <2>3
  <1>3. ASSUME NEW t \in Threads, DeleteKey(t)
        PROVE  Exists(x.id)' \/ RelsOf(x.id) \subseteq late
    <2>1. Counted(t)
      BY <1>3 DEF DeleteKey, At, Counted
    <2>2. CASE x.id = call[t].key
      BY <2>1, <2>2 DEF CountedInv
    <2>3. CASE x.id # call[t].key
      BY <1>3, <2>3 DEF DeleteKey, Exists
    <2> QED BY <2>2, <2>3
  <1>4. CASE Restart
    BY <1>1, <1>4 DEF Restart
  <1>5. ASSUME NEW t \in Threads, Step(t)
        PROVE  keys \subseteq keys' \/ SetUrl(t) \/ DeleteKey(t)
    BY <1>5 DEF Step, FindKey, AddKey, FindRel, AddRel, Save, DeleteRels,
       CountRels, RemoveFile, EnterCreate, EnterDelete
  <1> QED BY <1>1, <1>2, <1>3, <1>4, <1>5 DEF Next

LEMMA CountedInit == Init => CountedInv
  BY DEF Init, CountedInv, Counted

(* A key goes only when no hackathon uses it but those whose creation came *)
(* between the count of the relations and the deletion.                    *)
THEOREM KeyInUseAlwaysKept == Spec => KeyInUseKept
  <1>1. TypeInv /\ CountedInv /\ [Next]_vars
          => [\A x \in keys : Exists(x.id)' \/ RelsOf(x.id) \subseteq late]_vars
    BY KeyGoesUnused
  <1> QED BY <1>1, TypeInvInit, TypeInvStep, CountedInit, CountedNext, PTL
      DEF Spec, KeyInUseKept

----------------------------------------------------------------------------
(* A key that nobody uses goes *)

Deletes(t, k) ==
    call[t] # None /\ call[t].key = k /\ call[t].step \in Deleting

Tended(k) ==
    RelsOf(k) # {} \/ k \in cut \/ \E t \in Threads : Deletes(t, k)

Saves(t) == call[t] # None /\ call[t].step \in {"save", "set_url"}

TendedInv ==
    /\ \A x \in keys : x.local \/ Tended(x.id)
    /\ \A t \in Threads : Saves(t) /\ Exists(call[t].key)
                            => Tended(call[t].key)

LEMMA TendedUnused == TendedInv => UnusedKeyGoes
  BY DEF TendedInv, UnusedKeyGoes, Tended, Deletes

LEMMA TendedKept ==
    ASSUME TypeInv, TendedInv, NEW t \in Threads,
           \A s \in Threads : s # t => call'[s] = call[s],
           UNCHANGED cut,
           \A r \in rels : \/ r \in rels' \/ Deletes(t, r.key)'
                           \/ ~Exists(r.key)',
           \A k : Deletes(t, k) => \/ Deletes(t, k)' \/ RelsOf(k)' # {}
                                   \/ ~Exists(k)',
           \A x \in keys' : x \in keys \/ x.local \/ Tended(x.id),
           \A k : Exists(k)' => Exists(k) \/ k = nextKey,
           Saves(t)' /\ Exists(call[t].key)' => Tended(call[t].key)'
    PROVE  TendedInv'
  <1>1. ASSUME NEW k, Tended(k), Exists(k)' PROVE Tended(k)'
    <2>1. CASE RelsOf(k) # {}
      <3>1. PICK r \in rels : r.key = k
        BY <2>1 DEF RelsOf
      <3> QED BY <1>1, <3>1 DEF Tended, RelsOf
    <2>2. CASE k \in cut
      BY <2>2 DEF Tended
    <2>3. ASSUME NEW s \in Threads, Deletes(s, k) PROVE Tended(k)'
      <3>1. CASE s = t
        BY <1>1, <2>3, <3>1 DEF Tended
      <3>2. CASE s # t
        BY <2>3, <3>2 DEF Tended, Deletes
      <3> QED BY <3>1, <3>2
    <2> QED BY <1>1, <2>1, <2>2, <2>3 DEF Tended
  <1>2. ASSUME NEW x \in keys' PROVE x.local \/ Tended(x.id)'
    <2>1. Exists(x.id)'
      BY DEF Exists
    <2> QED BY <1>1, <2>1 DEF TendedInv
  <1>3. ASSUME NEW s \in Threads, Saves(s)', Exists(call[s].key)'
        PROVE  Tended(call[s].key)'
    <2>1. CASE s = t
      BY <1>3, <2>1
    <2>2. CASE s # t
      <3>1. PICK k : k = call[s].key /\ k = call[s].key'
        BY <2>2
      <3>2. Saves(s)
        BY <1>3, <2>2 DEF Saves
      <3>3. k \in Nat /\ k < nextKey /\ nextKey \in Nat
        BY <3>1, <3>2, AtFits DEF Saves, Fits, TypeInv, KeysOK, Ids
      <3>4. Exists(k)
        BY <1>3, <3>1, <3>3
      <3>5. Tended(k)
        BY <3>1, <3>2, <3>4 DEF TendedInv
      <3> QED BY <1>1, <1>3, <3>1, <3>5
    <2> QED BY <2>1, <2>2
  <1> QED BY <1>2, <1>3 DEF TendedInv

LEMMA TendedStep ==
    ASSUME TypeInv, TendedInv, NEW t \in Threads, Step(t) PROVE TendedInv'
  <1> USE DEF Steps, Deleting
  <1>1. ASSUME NEW h \in Hackathons,
               \/ \E s \in Subscriptions : EnterCreate(t, h, s)
               \/ \E k \in 1..(nextKey - 1) : EnterDelete(t, h, k)
        PROVE  TendedInv'
    BY <1>1, EnterMoves, TendedKept DEF Deletes, Saves, history, Exists
  <1>2. CASE FindKey(t)
    <2>1. /\ UNCHANGED <<rels, cut, keys>> /\ call[t] # None
          /\ call[t].step = "find_key"
      BY <1>2 DEF FindKey, At, history
    <2>2. call'[t].step \in {"find_rel", "add_key"}
          /\ \A s \in Threads : s # t => call'[s] = call[s]
      <3>1. \A x \in keys : x.id \in Ids
        BY DEF TypeInv, KeysOK, KeyRows
      <3> QED BY <1>2, <2>1, <3>1, HoldMoves, GotoMoves DEF FindKey
    <2> QED BY <2>1, <2>2, TendedKept DEF Deletes, Saves, Exists
  <1>3. CASE AddKey(t)
    <2>1. /\ UNCHANGED <<rels, cut>> /\ call[t] # None
          /\ call[t].step = "add_key" /\ nextKey \in Ids
          /\ Hold(t, "find_rel", nextKey)
      BY <1>3 DEF AddKey, At, TypeInv, KeysOK
    <2>2. call'[t].step = "find_rel"
          /\ \A s \in Threads : s # t => call'[s] = call[s]
      BY <2>1, HoldMoves
    <2>3. PICK y : y.id = nextKey /\ y.local /\ keys' = keys \cup {y}
      <3> DEFINE y == [id |-> nextKey, sub |-> call[t].sub, local |-> TRUE]
      <3>1. y.id = nextKey /\ y.local /\ keys' = keys \cup {y}
        BY <1>3 DEF AddKey
      <3> HIDE DEF y
      <3> QED BY <3>1
    <2> QED BY <2>1, <2>2, <2>3, TendedKept DEF Deletes, Saves, Exists
  <1>4. CASE FindRel(t)
    <2>1. /\ UNCHANGED <<rels, cut, keys>> /\ call[t] # None
          /\ call[t].step = "find_rel"
      BY <1>4 DEF FindRel, At, history
    <2>2. CASE Answer(t)
      BY <2>1, <2>2, AnswerMoves, TendedKept DEF Deletes, Saves, Exists
    <2>3. CASE Goto(t, "add_rel")
      BY <2>1, <2>3, GotoMoves, TendedKept DEF Deletes, Saves, Exists
    <2>4. CASE Goto(t, "save") /\ RelsOf(call[t].key) # {}
      <3>1. call'[t].step = "save" /\ call'[t].key = call[t].key
            /\ \A s \in Threads : s # t => call'[s] = call[s]
        BY <2>1, <2>4, GotoMoves
      <3>2. Tended(call[t].key)'
        BY <2>1, <2>4, <3>1 DEF Tended, RelsOf
      <3> QED BY <2>1, <3>1, <3>2, TendedKept DEF Deletes, Exists
    <2> QED BY <1>4, <2>2, <2>3, <2>4 DEF FindRel, RelsOf
  <1>5. CASE AddRel(t)
    <2>1. /\ UNCHANGED <<cut, keys>> /\ call[t] # None
          /\ call[t].step = "add_rel"
      BY <1>5 DEF AddRel, At
    <2>2. CASE Answer(t) /\ UNCHANGED <<rels, late>>
      BY <2>1, <2>2, AnswerMoves, TendedKept DEF Deletes, Saves, Exists
    <2>3. CASE ~(Answer(t) /\ UNCHANGED <<rels, late>>)
      <3>1. PICK r : r = [hackathon |-> call[t].hackathon, key |-> call[t].key]
        OBVIOUS
      <3>2. rels' = rels \cup {r} /\ r.key = call[t].key /\ Goto(t, "save")
        BY <1>5, <2>3, <3>1 DEF AddRel
      <3>3. call'[t].step = "save" /\ call'[t].key = call[t].key
            /\ \A s \in Threads : s # t => call'[s] = call[s]
        BY <2>1, <3>2, GotoMoves
      <3>4. Tended(call[t].key)'
        BY <3>2, <3>3 DEF Tended, RelsOf
      <3> QED BY <2>1, <3>2, <3>3, <3>4, TendedKept DEF Deletes, Exists
    <2> QED BY <2>2, <2>3
  <1>6. CASE Save(t)
    <2>1. /\ UNCHANGED <<cut, keys, rels>> /\ call[t] # None
          /\ call[t].step = "save"
      BY <1>6 DEF Save, At, history
    <2>2. CASE Answer(t)
      BY <2>1, <2>2, AnswerMoves, TendedKept DEF Deletes, Saves, Exists
    <2>3. CASE Goto(t, "set_url")
      <3>1. call'[t].step = "set_url" /\ call'[t].key = call[t].key
            /\ \A s \in Threads : s # t => call'[s] = call[s]
        BY <2>1, <2>3, GotoMoves
      <3>2. Exists(call[t].key)' => Tended(call[t].key)'
        <4>1. Exists(call[t].key)' => Tended(call[t].key)
          BY <2>1, <3>1 DEF TendedInv, Saves, Exists
        <4> QED BY <2>1, <3>1, <4>1 DEF Tended, Deletes, RelsOf
      <3> QED BY <2>1, <3>1, <3>2, TendedKept DEF Deletes, Exists
    <2> QED BY <1>6, <2>2, <2>3 DEF Save
  <1>7. CASE SetUrl(t)
    <2>1. /\ UNCHANGED <<cut, rels>> /\ call[t] # None
          /\ call[t].step = "set_url" /\ Answer(t)
      BY <1>7 DEF SetUrl, At, history
    <2>2. \A x \in keys' : x \in keys \/ (x.id = call[t].key /\ Exists(x.id))
      <3>1. ASSUME NEW x \in keys, x.id = call[t].key
            PROVE  [x EXCEPT !.local = FALSE].id = x.id
        BY DEF TypeInv, KeysOK, KeyRows
      <3> QED BY <1>7, <3>1 DEF SetUrl, Exists
    <2>3. \A x \in keys' : x \in keys \/ Tended(x.id)
      BY <2>1, <2>2 DEF TendedInv, Saves
    <2>4. \A k : Exists(k)' => Exists(k)
      BY <2>2 DEF Exists
    <2> QED BY <2>1, <2>3, <2>4, AnswerMoves, TendedKept DEF Deletes, Saves
  <1>8. CASE DeleteRels(t)
    <2>1. /\ UNCHANGED <<cut, keys>> /\ call[t] # None /\ Goto(t, "count")
          /\ \A r \in rels : r \in rels' \/ r.key = call[t].key
          /\ call[t].step = "delete_rels"
      BY <1>8 DEF DeleteRels, At, Others
    <2>2. call'[t] # None /\ call'[t].step = "count" /\ call'[t].key = call[t].key
          /\ \A s \in Threads : s # t => call'[s] = call[s]
      BY <2>1, GotoMoves
    <2> QED BY <2>1, <2>2, TendedKept DEF Deletes, Saves, Exists
  <1>9. CASE CountRels(t) \/ RemoveFile(t)
    <2>1. /\ UNCHANGED <<cut, keys, rels>> /\ call[t] # None
          /\ call[t].step \in {"count", "remove"}
      BY <1>9 DEF CountRels, RemoveFile, At, history
    <2>2. CASE Answer(t) /\ (RelsOf(call[t].key) # {} \/ ~Exists(call[t].key))
      <3>1. \A k : Deletes(t, k) => RelsOf(k)' # {} \/ ~Exists(k)'
        BY <2>1, <2>2 DEF Deletes, RelsOf, Exists
      <3> QED BY <2>1, <2>2, <3>1, AnswerMoves, TendedKept DEF Saves, Exists
    <2>3. ASSUME NEW step \in {"remove", "delete_key"}, Goto(t, step)
          PROVE  TendedInv'
      <3>1. call'[t] # None /\ call'[t].step = step /\ call'[t].key = call[t].key
            /\ \A s \in Threads : s # t => call'[s] = call[s]
        BY <2>1, <2>3, GotoMoves
      <3> QED BY <2>1, <3>1, TendedKept DEF Deletes, Saves, Exists
    <2> QED BY <1>9, <2>2, <2>3 DEF CountRels, RemoveFile
  <1>10. CASE DeleteKey(t)
    <2>0. PICK i : i = call[t].key
      OBVIOUS
    <2>1. /\ UNCHANGED cut /\ call[t] # None /\ Answer(t) /\ keys' \subseteq keys
          /\ \A r \in rels : r \in rels' \/ r.key = i
          /\ ~Exists(i)'
      BY <1>10, <2>0 DEF DeleteKey, At, RelsOf, Exists
    <2>2. call'[t] = None /\ \A s \in Threads : s # t => call'[s] = call[s]
      BY <2>1, AnswerMoves
    <2>3. \A k : Deletes(t, k) => ~Exists(k)'
      BY <2>0, <2>1 DEF Deletes
    <2>4. \A k : Exists(k)' => Exists(k)
      BY <2>1 DEF Exists
    <2> QED BY <2>1, <2>2, <2>3, <2>4, TendedKept DEF Saves
  <1> QED BY <1>1, <1>2, <1>3, <1>4, <1>5, <1>6, <1>7, <1>8, <1>9, <1>10
      DEF Step

LEMMA TendedNext == TypeInv /\ TendedInv /\ [Next]_vars => TendedInv'
  <1> SUFFICES ASSUME TypeInv, TendedInv, [Next]_vars PROVE TendedInv'
    OBVIOUS
  <1>1. CASE UNCHANGED vars
    BY <1>1 DEF vars, history, TendedInv, Tended, Deletes, Saves, RelsOf, Exists
  <1>2. CASE Restart
    <2>1. /\ UNCHANGED <<keys, rels>>
          /\ \A t \in Threads : ~Saves(t)'
          /\ \A k : k \in cut \/ (\E t \in Threads : Deletes(t, k)) => k \in cut'
      BY <1>2 DEF Restart, Saves, Deletes
    <2> QED BY <2>1 DEF TendedInv, Tended, RelsOf
  <1>3. ASSUME NEW t \in Threads, Step(t) PROVE TendedInv'
    BY <1>3, TendedStep
  <1> QED BY <1>1, <1>2, <1>3 DEF Next

LEMMA TendedInit == Init => TendedInv
  BY DEF Init, TendedInv, Saves

(* A key that no hackathon uses is on its way out, or a crash has cut the  *)
(* deletion off, or a creation has left it where the next one finds it.    *)
THEOREM UnusedKeyAlwaysGoes == Spec => []UnusedKeyGoes
  BY TypeInvInit, TypeInvStep, TendedInit, TendedNext, TendedUnused, PTL
  DEF Spec

----------------------------------------------------------------------------
(* The url leads to the certificate *)

Removing(t, k) == At(t, "delete_key") /\ call[t].key = k

Leads(k, s) ==
    s \in stored \/ s \in doubled \/ k \in cut \/ \E t \in Threads : Removing(t, k)

UrlInv ==
    /\ \A x, y \in keys : x.sub = y.sub /\ x # y => x.sub \in doubled
    /\ \A x \in keys : x.local \/ Leads(x.id, x.sub)
    /\ \A t \in Threads : \A x \in keys :
         At(t, "set_url") /\ call[t].key = x.id => Leads(x.id, x.sub)

LEMMA UrlInvLeads == UrlInv => UrlLeadsToFile
  BY DEF UrlInv, UrlLeadsToFile, Leads, Removing

(* A row of before, with its url set or not. *)
OldRow(x) ==
    \E y \in keys : /\ y.id = x.id /\ y.sub = x.sub
                    /\ x.local \/ ~y.local \/ Leads(y.id, y.sub)

NewRow(x) == x.local /\ x.id = nextKey

LEMMA UrlKept ==
    ASSUME TypeInv, TypeInv', UrlInv, NEW t \in Threads,
           \A s \in Threads : s # t => call'[s] = call[s],
           UNCHANGED cut, doubled \subseteq doubled',
           \A x \in keys' :
               \/ OldRow(x)
               \/ NewRow(x) /\ \A y \in keys : y.sub = x.sub => y.sub \in doubled',
           \A x \in keys : \/ x.sub \in stored => x.sub \in stored'
                           \/ x.sub \in doubled' \/ Removing(t, x.id)',
           \A x \in keys' : ~Removing(t, x.id),
           At(t, "set_url")' =>
               \A x \in keys' : x.id = call'[t].key => Leads(x.id, x.sub)',
           \A x \in keys : \A y \in keys : x.sub = y.sub /\ x # y /\
               x.sub \in stored => x.sub \in stored' \/ x.sub \in doubled'
    PROVE  UrlInv'
  <1>1. ASSUME NEW x \in keys', NEW y \in keys, y.id = x.id, y.sub = x.sub,
               Leads(y.id, y.sub)
        PROVE  Leads(x.id, x.sub)'
    <2>1. CASE y.sub \in stored \/ y.sub \in doubled \/ y.id \in cut
      BY <1>1, <2>1 DEF Leads
    <2>2. ASSUME NEW s \in Threads, Removing(s, y.id)
          PROVE  Leads(x.id, x.sub)'
      <3>1. s # t
        BY <1>1, <2>2
      <3>2. Removing(s, x.id)'
        BY <1>1, <2>2, <3>1 DEF Removing, At
      <3> QED BY <3>2 DEF Leads
    <2> QED BY <1>1, <2>1, <2>2 DEF Leads
  <1>2. ASSUME NEW x \in keys' PROVE x.local \/ Leads(x.id, x.sub)'
    BY <1>1 DEF OldRow, NewRow, UrlInv
  <1>3. ASSUME NEW s \in Threads, NEW x \in keys', At(s, "set_url")',
               call'[s].key = x.id
        PROVE  Leads(x.id, x.sub)'
    <2>1. CASE s = t
      BY <1>3, <2>1
    <2>2. CASE s # t
      <3>1. At(s, "set_url") /\ call[s].key = x.id
        BY <1>3, <2>2 DEF At
      <3>2. x.id \in Nat /\ x.id < nextKey /\ nextKey \in Nat
        BY <3>1, AtFits DEF At, Fits, TypeInv, KeysOK, Ids
      <3>3. OldRow(x)
        BY <3>2 DEF NewRow
      <3> QED BY <1>1, <3>1, <3>3 DEF OldRow, UrlInv
    <2> QED BY <2>1, <2>2
  <1>4. ASSUME NEW x \in keys', NEW y \in keys', x.sub = y.sub, x # y
        PROVE  x.sub \in doubled'
    <2>1. x.id # y.id
      BY <1>4 DEF TypeInv, KeysOK
    <2>2. CASE OldRow(x) /\ OldRow(y)
      BY <1>4, <2>1, <2>2 DEF OldRow, UrlInv
    <2>3. ASSUME NEW v \in keys', NEW w \in keys', v.sub = w.sub, OldRow(v),
                 ~OldRow(w)
          PROVE  v.sub \in doubled'
      BY <2>3 DEF OldRow
    <2>4. CASE ~OldRow(x) /\ ~OldRow(y)
      BY <2>1, <2>4 DEF NewRow
    <2> QED BY <1>4, <2>2, <2>3, <2>4
  <1> QED BY <1>2, <1>3, <1>4 DEF UrlInv

(* Every row is one of before: nothing but AddKey inserts one. *)
LEMMA OldRows ==
    ASSUME TypeInv, keys' \subseteq keys PROVE \A x \in keys' : OldRow(x)
  BY DEF OldRow, TypeInv, KeysOK, KeyRows

LEMMA UrlStep ==
    ASSUME TypeInv, TypeInv', UrlInv, NEW t \in Threads, Step(t) PROVE UrlInv'
  <1> USE DEF Steps, Deleting
  <1>1. ASSUME NEW h \in Hackathons,
               \/ \E s \in Subscriptions : EnterCreate(t, h, s)
               \/ \E k \in 1..(nextKey - 1) : EnterDelete(t, h, k)
        PROVE  UrlInv'
    BY <1>1, EnterMoves, UrlKept, OldRows DEF Removing, At, history
  <1>2. CASE FindKey(t)
    <2>1. UNCHANGED <<stored, history, keys>> /\ call[t] # None
          /\ call[t].step = "find_key"
      BY <1>2 DEF FindKey, At, files
    <2>2. call'[t].step \in {"find_rel", "add_key"}
          /\ \A s \in Threads : s # t => call'[s] = call[s]
      <3>1. \A x \in keys : x.id \in Ids
        BY DEF TypeInv, KeysOK, KeyRows
      <3> QED BY <1>2, <2>1, <3>1, HoldMoves, GotoMoves DEF FindKey
    <2> QED BY <2>1, <2>2, UrlKept, OldRows DEF Removing, At, history
  <1>3. CASE AddKey(t)
    <2>1. /\ UNCHANGED <<stored, cut>> /\ call[t] # None
          /\ call[t].step = "add_key" /\ nextKey \in Ids
          /\ Hold(t, "find_rel", nextKey)
          /\ doubled \subseteq doubled'
          /\ \A y \in keys : y.sub = call[t].sub => y.sub \in doubled'
      BY <1>3 DEF AddKey, At, TypeInv, KeysOK, files
    <2>2. call'[t].step = "find_rel"
          /\ \A s \in Threads : s # t => call'[s] = call[s]
      BY <2>1, HoldMoves
    <2>3. PICK y : /\ NewRow(y) /\ keys' = keys \cup {y} /\ y.sub = call[t].sub
      <3> DEFINE y == [id |-> nextKey, sub |-> call[t].sub, local |-> TRUE]
      <3>1. /\ y.id = nextKey /\ y.local /\ keys' = keys \cup {y}
            /\ y.sub = call[t].sub
        BY <1>3 DEF AddKey
      <3> HIDE DEF y
      <3> QED BY <3>1 DEF NewRow
    <2>4. \A x \in keys : OldRow(x)
      BY DEF OldRow, TypeInv, KeysOK, KeyRows
    <2> QED BY <2>1, <2>2, <2>3, <2>4, UrlKept DEF Removing, At
  <1>4. CASE FindRel(t) \/ AddRel(t)
    <2>1. UNCHANGED <<stored, doubled, cut, keys>> /\ call[t] # None
          /\ call[t].step \in {"find_rel", "add_rel"}
      BY <1>4 DEF FindRel, AddRel, At, files, history
    <2>2. CASE Answer(t)
      BY <2>1, <2>2, AnswerMoves, UrlKept, OldRows DEF Removing, At
    <2>3. ASSUME NEW step \in {"add_rel", "save"}, Goto(t, step) PROVE UrlInv'
      BY <2>1, <2>3, GotoMoves, UrlKept, OldRows DEF Removing, At
    <2> QED BY <1>4, <2>2, <2>3 DEF FindRel, AddRel
  <1>5. CASE Save(t)
    <2>1. UNCHANGED <<doubled, cut, keys>> /\ call[t] # None
          /\ call[t].step = "save" /\ stored \subseteq stored'
      BY <1>5 DEF Save, At, history
    <2>2. CASE Answer(t)
      BY <2>1, <2>2, AnswerMoves, UrlKept, OldRows DEF Removing, At
    <2>3. CASE Goto(t, "set_url") /\ call[t].sub \in stored'
      <3>1. call'[t].step = "set_url" /\ call'[t].key = call[t].key
            /\ \A s \in Threads : s # t => call'[s] = call[s]
        BY <2>1, <2>3, GotoMoves
      <3>2. \A x \in keys : x.id = call[t].key => x.sub = call[t].sub
        BY <2>1, AtFits DEF Fits
      <3>3. \A x \in keys' : x.id = call'[t].key => Leads(x.id, x.sub)'
        BY <2>1, <2>3, <3>1, <3>2 DEF Leads
      <3> QED BY <2>1, <3>1, <3>3, UrlKept, OldRows DEF Removing, At
    <2> QED BY <1>5, <2>2, <2>3 DEF Save
  <1>6. CASE SetUrl(t)
    <2>1. UNCHANGED <<stored, doubled, cut>> /\ call[t] # None
          /\ At(t, "set_url") /\ call[t].step = "set_url" /\ Answer(t)
      BY <1>6 DEF SetUrl, At, history, files
    <2>2. call'[t] = None /\ \A s \in Threads : s # t => call'[s] = call[s]
      BY <2>1, AnswerMoves
    <2>3. \A x \in keys' : OldRow(x)
      <3> DEFINE F(x) == IF x.id = call[t].key THEN [x EXCEPT !.local = FALSE]
                                               ELSE x
      <3>1. keys' = {F(x) : x \in keys}
        BY <1>6 DEF SetUrl
      <3>2. \A x \in keys : /\ F(x).id = x.id /\ F(x).sub = x.sub
                            /\ x.id # call[t].key => F(x) = x
        BY DEF TypeInv, KeysOK, KeyRows
      <3>3. \A x \in keys : x.id = call[t].key => Leads(x.id, x.sub)
        BY <2>1 DEF UrlInv
      <3>4. \A x \in keys : x.local \in BOOLEAN
        BY DEF TypeInv, KeysOK, KeyRows
      <3> HIDE DEF F
      <3>5. ASSUME NEW x \in keys PROVE OldRow(F(x))
        <4>1. CASE x.id = call[t].key
          BY <3>2, <3>3, <4>1 DEF OldRow
        <4>2. CASE x.id # call[t].key
          BY <3>2, <3>4, <4>2 DEF OldRow
        <4> QED BY <4>1, <4>2
      <3> QED BY <3>1, <3>5
    <2> QED BY <2>1, <2>2, <2>3, UrlKept DEF Removing, At
  <1>7. CASE DeleteRels(t) \/ CountRels(t)
    <2>1. UNCHANGED <<stored, doubled, cut, keys>> /\ call[t] # None
          /\ call[t].step \in {"delete_rels", "count"}
      BY <1>7 DEF DeleteRels, CountRels, At, files, history
    <2>2. CASE Answer(t)
      BY <2>1, <2>2, AnswerMoves, UrlKept, OldRows DEF Removing, At
    <2>3. ASSUME NEW step \in {"count", "remove"}, Goto(t, step) PROVE UrlInv'
      BY <2>1, <2>3, GotoMoves, UrlKept, OldRows DEF Removing, At
    <2> QED BY <1>7, <2>2, <2>3 DEF DeleteRels, CountRels
  <1>8. CASE RemoveFile(t)
    <2>1. UNCHANGED <<doubled, cut, keys>> /\ call[t] # None
          /\ call[t].step = "remove"
      BY <1>8 DEF RemoveFile, At, history
    <2>2. CASE Answer(t) /\ UNCHANGED stored
      BY <2>1, <2>2, AnswerMoves, UrlKept, OldRows DEF Removing, At
    <2>3. ASSUME NEW x \in keys, x.id = call[t].key, Goto(t, "delete_key"),
                 stored \ {x.sub} \subseteq stored'
          PROVE  UrlInv'
      <3>1. /\ call'[t] # None /\ call'[t].step = "delete_key"
            /\ call'[t].key = x.id
            /\ \A s \in Threads : s # t => call'[s] = call[s]
        BY <2>1, <2>3, GotoMoves
      <3>2. Removing(t, x.id)'
        BY <3>1 DEF Removing, At
      <3>3. \A y \in keys : \/ y.sub \in stored => y.sub \in stored'
                            \/ y.sub \in doubled' \/ Removing(t, y.id)'
        BY <2>1, <2>3, <3>2 DEF UrlInv
      <3>4. \A y \in keys : \A z \in keys : y.sub = z.sub /\ y # z =>
                y.sub \in doubled'
        BY <2>1 DEF UrlInv
      <3> QED BY <2>1, <3>1, <3>3, <3>4, UrlKept, OldRows DEF Removing, At
    <2> QED BY <1>8, <2>2, <2>3 DEF RemoveFile, files
  <1>9. CASE DeleteKey(t)
    <2>1. UNCHANGED <<stored, doubled, cut>> /\ call[t] # None /\ Answer(t)
          /\ keys' \subseteq keys /\ \A x \in keys' : x.id # call[t].key
      BY <1>9 DEF DeleteKey, At, files
    <2>2. call'[t] = None /\ \A s \in Threads : s # t => call'[s] = call[s]
      BY <2>1, AnswerMoves
    <2> QED BY <2>1, <2>2, UrlKept, OldRows DEF Removing, At
  <1> QED BY <1>1, <1>2, <1>3, <1>4, <1>5, <1>6, <1>7, <1>8, <1>9 DEF Step

LEMMA UrlNext == TypeInv /\ UrlInv /\ [Next]_vars => UrlInv'
  <1> SUFFICES ASSUME TypeInv, UrlInv, [Next]_vars PROVE UrlInv'
    OBVIOUS
  <1>1. CASE UNCHANGED vars
    BY <1>1 DEF vars, history, files, UrlInv, Leads, Removing, At
  <1>2. CASE Restart
    <2>1. /\ UNCHANGED <<keys, stored, doubled>>
          /\ \A t \in Threads : ~At(t, "set_url")'
          /\ \A k : k \in cut \/ (\E t \in Threads : Removing(t, k)) => k \in cut'
      BY <1>2 DEF Restart, Removing, At, Deleting, files
    <2> QED BY <2>1 DEF UrlInv, Leads
  <1>3. ASSUME NEW t \in Threads, Step(t) PROVE UrlInv'
    BY <1>3, UrlStep, TypeInvStep
  <1> QED BY <1>1, <1>2, <1>3 DEF Next

LEMMA UrlInit == Init => UrlInv
  BY DEF Init, UrlInv, At

(* While a subscription has had one key at a time, the url in its row has a*)
(* certificate behind it until the row is deleted, unless a crash cuts it. *)
THEOREM UrlAlwaysLeadsToFile == Spec => []UrlLeadsToFile
  BY TypeInvInit, TypeInvStep, UrlInit, UrlNext, UrlInvLeads, PTL DEF Spec

============================================================================
