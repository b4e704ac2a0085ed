----------------------------- MODULE AzureCert -----------------------------
(***************************************************************************)
(* Azure certificates of hackathons (hack/azure_cert_manager.py): rows of  *)
(* azure_key and hackathon_azure_key, the certificate files on the disk of *)
(* the server and those in the storage.  Both kinds of file are named by   *)
(* the subscription.  The pem file and the management host are left out:   *)
(* the one is never removed, the other as fixed as the subscription.       *)
(***************************************************************************)
EXTENDS Naturals

CONSTANTS
    Threads,       \* threads of the server process
    Hackathons,    \* hackathons
    Subscriptions, \* Azure subscriptions
    MaxKeys,       \* bound: rows ever inserted into azure_key
    CanRestart,    \* TRUE: the server process may crash and restart
    None

ASSUME AzureCertAssumption ==
    /\ MaxKeys \in Nat
    /\ CanRestart \in BOOLEAN
    /\ None \notin Nat

VARIABLES
    keys,    \* rows of azure_key: id, subscription_id, and whether cert_url is
             \* the path on the disk (local) or the url in the storage
    nextKey, \* AUTO_INCREMENT of azure_key
    rels,    \* rows of hackathon_azure_key: hackathon, key
    cers,    \* subscriptions with a certificate on the disk
    stored,  \* subscriptions with a certificate in the storage
    call,    \* call[t]: the request t serves and its next step
    late,    \* history: relations inserted behind the count of a deletion
    doubled, \* history: subscriptions that have had two keys at a time
    cut      \* history: keys whose deletion was cut off

files == <<cers, stored>>
history == <<late, doubled, cut>>
vars == <<keys, nextKey, rels, files, call, history>>

Ids == Nat \ {0}

KeyRows == [id : Ids, sub : Subscriptions, local : BOOLEAN]

Rels == [hackathon : Hackathons, key : Ids]

Deleting == {"count", "remove", "delete_key"}

Steps == Deleting \cup
    {"find_key", "add_key", "find_rel", "add_rel", "save", "set_url",
     "delete_rels"}

Calls == [step : Steps, hackathon : Hackathons, sub : Subscriptions \cup {None},
          key : Ids \cup {None}]

ASSUME NoneAssumption == None \notin Calls

Init ==
    /\ keys = {} /\ nextKey = 1 /\ rels = {}
    /\ cers = {} /\ stored = {}
    /\ call = [t \in Threads |-> None]
    /\ late = {} /\ doubled = {} /\ cut = {}

At(t, step) == call[t] # None /\ call[t].step = step

Goto(t, step) == call' = [call EXCEPT ![t].step = step]

Hold(t, step, k) == call' = [call EXCEPT ![t].step = step, ![t].key = k]

Answer(t) == call' = [call EXCEPT ![t] = None]

Exists(k) == \E x \in keys : x.id = k

RelsOf(k) == {r \in rels : r.key = k}

----------------------------------------------------------------------------
(* create_certificate *)

(* Bound: room for the keys of every creation under way.                   *)
Adding == {t \in Threads : At(t, "find_key") \/ At(t, "add_key")}

EnterCreate(t, h, s) ==
    /\ call[t] = None
    /\ nextKey <= MaxKeys
    /\ Adding = {} \/ nextKey < MaxKeys
    /\ call' = [call EXCEPT ![t] =
           [step |-> "find_key", hackathon |-> h, sub |-> s, key |-> None]]
    /\ cers' \in {cers, cers \cup {s}}
    /\ UNCHANGED <<keys, nextKey, rels, stored, history>>

(* Only a key whose cert_url is still the path on the disk is found.       *)
FindKey(t) ==
    /\ At(t, "find_key")
    /\ \/ \E x \in keys : /\ x.sub = call[t].sub /\ x.local
                          /\ Hold(t, "find_rel", x.id)
       \/ /\ \A x \in keys : x.sub = call[t].sub => ~x.local
          /\ Goto(t, "add_key")
    /\ UNCHANGED <<keys, nextKey, rels, files, history>>

AddKey(t) ==
    /\ At(t, "add_key")
    /\ keys' = keys \cup
           {[id |-> nextKey, sub |-> call[t].sub, local |-> TRUE]}
    /\ nextKey' = nextKey + 1
    /\ Hold(t, "find_rel", nextKey)
    /\ doubled' = IF \E x \in keys : x.sub = call[t].sub
                  THEN doubled \cup {call[t].sub} ELSE doubled
    /\ UNCHANGED <<rels, files, late, cut>>

(* The row is read again for its id, and fails if it is gone.              *)
FindRel(t) ==
    /\ At(t, "find_rel")
    /\ \/ /\ Exists(call[t].key)
          /\ IF \E r \in RelsOf(call[t].key) : r.hackathon = call[t].hackathon
             THEN Goto(t, "save") ELSE Goto(t, "add_rel")
       \/ ~Exists(call[t].key) /\ Answer(t)
    /\ UNCHANGED <<keys, nextKey, rels, files, history>>

(* The foreign key refuses the relation if the key is gone.                *)
AddRel(t) ==
    /\ At(t, "add_rel")
    /\ LET r == [hackathon |-> call[t].hackathon, key |-> call[t].key]
       IN  \/ /\ Exists(r.key)
              /\ rels' = rels \cup {r}
              /\ late' = IF \E x \in Threads :
                              /\ At(x, "remove") \/ At(x, "delete_key")
                              /\ call[x].key = r.key
                         THEN late \cup {r} ELSE late
              /\ Goto(t, "save")
           \/ ~Exists(r.key) /\ Answer(t) /\ UNCHANGED <<rels, late>>
    /\ UNCHANGED <<keys, nextKey, files, doubled, cut>>

(* Mutant of Save: a refusal of the storage goes unnoticed.                *)
SaveAnyway(t) ==
    /\ At(t, "save")
    /\ stored' \in {stored, stored \cup {call[t].sub}}
    /\ Goto(t, "set_url")
    /\ UNCHANGED <<keys, nextKey, rels, cers, history>>

(* It fails without the file on the disk, or when the storage refuses.     *)
Save(t) ==
    /\ At(t, "save")
    /\ \/ /\ call[t].sub \in cers
          /\ stored' = stored \cup {call[t].sub}
          /\ Goto(t, "set_url")
       \/ Answer(t) /\ UNCHANGED stored
    /\ UNCHANGED <<keys, nextKey, rels, cers, history>>

(* The update fails if the row is gone.                                    *)
SetUrl(t) ==
    /\ At(t, "set_url")
    /\ keys' = {IF x.id = call[t].key THEN [x EXCEPT !.local = FALSE] ELSE x :
                   x \in keys}
    /\ Answer(t)
    /\ UNCHANGED <<nextKey, rels, files, history>>

----------------------------------------------------------------------------
(* delete_certificate *)

EnterDelete(t, h, k) ==
    /\ call[t] = None
    /\ call' = [call EXCEPT ![t] =
           [step |-> "delete_rels", hackathon |-> h, sub |-> None, key |-> k]]
    /\ UNCHANGED <<keys, nextKey, rels, files, history>>

Others(k, h) == {r \in rels : r.key # k \/ r.hackathon # h}

(* Mutant of DeleteRels: counted before they are deleted.                  *)
DeleteCounted(t) ==
    /\ At(t, "delete_rels")
    /\ rels' = Others(call[t].key, call[t].hackathon)
    /\ late' = late \cap rels'
    /\ IF RelsOf(call[t].key) = {} THEN Goto(t, "count") ELSE Answer(t)
    /\ UNCHANGED <<keys, nextKey, files, doubled, cut>>

DeleteRels(t) ==
    /\ At(t, "delete_rels")
    /\ rels' = Others(call[t].key, call[t].hackathon)
    /\ late' = late \cap rels'
    /\ Goto(t, "count")
    /\ UNCHANGED <<keys, nextKey, files, doubled, cut>>

(* Mutant of CountRels: only those of the hackathon itself are counted.    *)
CountOwn(t) ==
    /\ At(t, "count")
    /\ IF \E r \in RelsOf(call[t].key) : r.hackathon = call[t].hackathon
       THEN Answer(t) ELSE Goto(t, "remove")
    /\ UNCHANGED <<keys, nextKey, rels, files, history>>

CountRels(t) ==
    /\ At(t, "count")
    /\ IF RelsOf(call[t].key) = {} THEN Goto(t, "remove") ELSE Answer(t)
    /\ UNCHANGED <<keys, nextKey, rels, files, history>>

(* The certificate on the disk, if cert_url is its path and it is there, or*)
(* else the one in the storage; a failure is logged.                       *)
RemoveFile(t) ==
    /\ At(t, "remove")
    /\ \/ \E x \in keys :
            /\ x.id = call[t].key
            /\ \/ UNCHANGED files
               \/ x.local /\ cers' = cers \ {x.sub} /\ UNCHANGED stored
               \/ ~x.local /\ stored' = stored \ {x.sub} /\ UNCHANGED cers
            /\ Goto(t, "delete_key")
       \/ ~Exists(call[t].key) /\ Answer(t) /\ UNCHANGED files
    /\ UNCHANGED <<keys, nextKey, rels, history>>

(* Mutant of DeleteKey: the relations to it stay.                          *)
DeleteKeyOnly(t) ==
    /\ At(t, "delete_key")
    /\ keys' = {x \in keys : x.id # call[t].key}
    /\ Answer(t)
    /\ UNCHANGED <<nextKey, rels, files, history>>

(* The database deletes the relations to it too (ondelete='CASCADE').      *)
DeleteKey(t) ==
    /\ At(t, "delete_key")
    /\ keys' = {x \in keys : x.id # call[t].key}
    /\ rels' = rels \ RelsOf(call[t].key)
    /\ late' = late \ RelsOf(call[t].key)
    /\ Answer(t)
    /\ UNCHANGED <<nextKey, files, doubled, cut>>

----------------------------------------------------------------------------
Step(t) ==
    \/ FindKey(t) \/ AddKey(t) \/ FindRel(t) \/ AddRel(t) \/ Save(t)
    \/ SetUrl(t) \/ DeleteRels(t) \/ CountRels(t) \/ RemoveFile(t)
    \/ DeleteKey(t)
    \/ \E h \in Hackathons :
        \/ \E s \in Subscriptions : EnterCreate(t, h, s)
        \/ \E k \in 1..(nextKey - 1) : EnterDelete(t, h, k)

Restart ==
    /\ CanRestart
    /\ \E t \in Threads : call[t] # None
    /\ call' = [t \in Threads |-> None]
    /\ cut' = cut \cup {call[t].key : t \in {x \in Threads :
                  call[x] # None /\ call[x].step \in Deleting}}
    /\ UNCHANGED <<keys, nextKey, rels, files, late, doubled>>

Next == Restart \/ \E t \in Threads : Step(t)

Spec == Init /\ [][Next]_vars

----------------------------------------------------------------------------
TypeOK ==
    /\ keys \subseteq KeyRows
    /\ nextKey \in Ids
    /\ \A x \in keys : x.id < nextKey
    /\ \A x, y \in keys : x.id = y.id => x = y
    /\ rels \subseteq Rels
    /\ \A r \in rels : Exists(r.key)
    /\ cers \subseteq Subscriptions /\ stored \subseteq Subscriptions
    /\ call \in [Threads -> Calls \cup {None}]
    /\ late \subseteq rels
    /\ doubled \subseteq Subscriptions
    /\ cut \subseteq Ids

(* "If the auzreKey is not needed any more, delete the azureKey too"       *)
(* (delete_certificate), and only then: what a deletion takes from another *)
(* hackathon is at most a relation inserted behind its count.              *)
KeyInUseKept ==
    [][\A x \in keys : Exists(x.id)' \/ RelsOf(x.id) \subseteq late]_vars

(* And then always: a key that no hackathon uses is one that a creation    *)
(* has left behind, which the next creation finds, or somebody, or a crash,*)
(* is in the middle of its deletion.  So two hackathons that give up a key *)
(* at the same time do not leave it to each other.                         *)
UnusedKeyGoes ==
    \A x \in keys :
        \/ RelsOf(x.id) # {}
        \/ x.local
        \/ x.id \in cut
        \/ \E t \in Threads :
              call[t] # None /\ call[t].key = x.id /\ call[t].step \in Deleting

(* The url that create_certificate returns leads to a certificate until    *)
(* the key is deleted, unless the subscription has had two keys: both lead *)
(* to the same file, and the deletion of one takes it from the other.      *)
UrlLeadsToFile ==
    \A x \in keys :
        \/ x.local
        \/ x.sub \in stored
        \/ x.sub \in doubled
        \/ x.id \in cut
        \/ \E t \in Threads : At(t, "delete_key") /\ call[t].key = x.id
=============================================================================
