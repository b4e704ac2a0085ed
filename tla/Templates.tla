----------------------------- MODULE Templates -----------------------------
(***************************************************************************)
(* Templates (template/template_mgr.py): rows of the table template, files *)
(* of the storage, and the file cache of template contents (cache/         *)
(* cache_mgr.py, over beaker).  Contents are told apart by the file that   *)
(* holds them: each save writes a new one.  The storage is LocalStorage,   *)
(* whose file has two unresolved merges: both sides do what is modelled.   *)
(* A request for a template comes from somebody with permission for it.    *)
(***************************************************************************)
EXTENDS Naturals

CONSTANTS
    Threads,      \* threads of the server process
    Names,        \* names of templates
    MaxTemplates, \* bound: rows ever inserted into template
    MaxFiles,     \* bound: files ever saved
    CanRestart,   \* TRUE: the server process may crash and restart
    None

ASSUME TemplatesAssumption ==
    /\ MaxTemplates \in Nat
    /\ MaxFiles \in Nat
    /\ CanRestart \in BOOLEAN
    /\ None \notin Nat

VARIABLES
    rows,       \* rows of template: id, name, and the file that
                \* local_path and url refer to
    nextId,     \* AUTO_INCREMENT of template
    files,      \* files on the disk
    nextFile,   \* a name no file has had (uuid1)
    cache,      \* cache[i]: file whose content is cached for template i, None
                \* when a failed load is; i is not in the domain of a miss
    offered,    \* templates that a row of hackathon_template_rel refers to,
    started,    \* templates that a row of experiment refers to, or did until
                \* the template was deleted
    pc,         \* pc[t]: the next transaction or remote call of thread t
    name,       \* name[t]: the name in its request
    id,         \* id[t]: id of the row it holds
    file,       \* file[t]: the file it has read of, or has saved
    overlapped, \* history: referred to while a deletion was under way
    raced,      \* history: updated while a load was under way, or updated with
                \* a crash before the cache was told
    cut         \* history: templates whose deletion a crash cut off

tables == <<rows, nextId, offered, started>>
locals == <<pc, name, id, file>>
history == <<overlapped, raced, cut>>
vars == <<tables, files, nextFile, cache, locals, history>>

Ids == Nat \ {0}

TemplateRows == [id : Ids, name : Names, url : Ids]

Steps == {"idle", "upload", "find", "insert", "update", "invalidate",
          "lookup", "fetch", "store", "start", "offer", "drop_cache", "unlink",
          "rels", "row"}

Deleting == {"drop_cache", "unlink", "rels", "row"}

Loading == {"lookup", "fetch", "store"}

Init ==
    /\ rows = {} /\ nextId = 1 /\ offered = {} /\ started = {}
    /\ files = {} /\ nextFile = 1
    /\ cache = [i \in {} |-> None]
    /\ pc = [t \in Threads |-> "idle"]
    /\ name = [t \in Threads |-> None]
    /\ id = [t \in Threads |-> None]
    /\ file = [t \in Threads |-> None]
    /\ overlapped = {} /\ raced = {} /\ cut = {}

Exists(i) == \E r \in rows : r.id = i

(* Thread t turns from step s to the next one, holding n, i and f.         *)
Turn(t, s, next, n, i, f) ==
    /\ pc[t] = s
    /\ pc' = [pc EXCEPT ![t] = next]
    /\ name' = [name EXCEPT ![t] = n]
    /\ id' = [id EXCEPT ![t] = i]
    /\ file' = [file EXCEPT ![t] = f]

Goto(t, s, next) == Turn(t, s, next, name[t], id[t], file[t])

Answer(t, s) == Turn(t, s, "idle", None, None, None)

Without(i) == [j \in DOMAIN cache \ {i} |-> cache[j]]

(* A reference to a template, while a deletion of it is past its check.    *)
Refer(i) ==
    overlapped' = IF \E t \in Threads : pc[t] \in Deleting /\ id[t] = i
                  THEN overlapped \cup {i} ELSE overlapped

----------------------------------------------------------------------------
(* create_template, create_template_by_file, update_template               *)

(* Only an update looks for the row before the file is saved.              *)
EnterSave(t, n) ==
    /\ Turn(t, "idle", "upload", n, None, None)
    /\ UNCHANGED <<tables, files, nextFile, cache, history>>

(* LocalStorage.save, LocalStorage.delete: nothing when the file is gone.  *)
Save(f) == files' = files \cup {f}

Remove(f) == files' = files \ {f}

(* Mutant of SaveToStorage: the name of the file is not made unique.       *)
SaveSameName(t) ==
    /\ \/ /\ nextFile <= MaxFiles
          /\ Turn(t, "upload", "find", name[t], None, 1)
          /\ Save(1)
          /\ nextFile' = nextFile + 1
       \/ Answer(t, "upload") /\ UNCHANGED <<files, nextFile>>
    /\ UNCHANGED <<tables, cache, history>>

(* __save_template_to_storage, which may fail, and does at the bound       *)
SaveToStorage(t) ==
    /\ \/ /\ nextFile <= MaxFiles
          /\ Turn(t, "upload", "find", name[t], None, nextFile)
          /\ Save(nextFile)
          /\ nextFile' = nextFile + 1
       \/ Answer(t, "upload") /\ UNCHANGED <<files, nextFile>>
    /\ UNCHANGED <<tables, cache, history>>

(* __save_template_to_database *)
FindByName(t) ==
    /\ \/ \E r \in rows : /\ r.name = name[t]
                          /\ Turn(t, "find", "update", None, r.id, file[t])
       \/ /\ \A r \in rows : r.name # name[t]
          /\ Goto(t, "find", "insert")
    /\ UNCHANGED <<tables, files, nextFile, cache, history>>

(* Mutant of InsertRow: the name is not unique.                            *)
InsertAgain(t) ==
    /\ Answer(t, "insert")
    /\ IF nextId <= MaxTemplates
       THEN /\ rows' = rows \cup
                   {[id |-> nextId, name |-> name[t], url |-> file[t]]}
            /\ nextId' = nextId + 1
       ELSE UNCHANGED <<rows, nextId>>
    /\ UNCHANGED <<offered, started, files, nextFile, cache, history>>

(* The name is unique: the insert fails if it has been taken meanwhile.    *)
InsertRow(t) ==
    /\ Answer(t, "insert")
    /\ IF nextId <= MaxTemplates /\ \A r \in rows : r.name # name[t]
       THEN /\ rows' = rows \cup
                   {[id |-> nextId, name |-> name[t], url |-> file[t]]}
            /\ nextId' = nextId + 1
       ELSE UNCHANGED <<rows, nextId>>
    /\ UNCHANGED <<offered, started, files, nextFile, cache, history>>

(* The update fails if the row has been deleted meanwhile.                 *)
UpdateRow(t) ==
    /\ IF Exists(id[t]) THEN Goto(t, "update", "invalidate")
                        ELSE Answer(t, "update")
    /\ rows' = {IF r.id = id[t] THEN [r EXCEPT !.url = file[t]] ELSE r :
                   r \in rows}
    /\ raced' = IF \E x \in Threads : pc[x] \in Loading /\ id[x] = id[t]
                THEN raced \cup {id[t]} ELSE raced
    /\ UNCHANGED <<nextId, offered, started, files, nextFile, cache,
                   overlapped, cut>>

(* Mutant of Invalidate: the cache is not told of an update.               *)
Forget(t) ==
    /\ Answer(t, "invalidate")
    /\ UNCHANGED <<tables, files, nextFile, cache, history>>

Invalidate(t) ==
    /\ Answer(t, "invalidate")
    /\ cache' = Without(id[t])
    /\ UNCHANGED <<tables, files, nextFile, history>>

----------------------------------------------------------------------------
(* load_template, and the start of an experiment that follows it           *)

EnterLoad(t, r) ==
    /\ Turn(t, "idle", "lookup", None, r.id, r.url)
    /\ UNCHANGED <<tables, files, nextFile, cache, history>>

(* beaker: a hit, or the creation lock of the key is taken.                *)
Lookup(t) ==
    /\ \/ id[t] \in DOMAIN cache /\ cache[id[t]] = None /\ Answer(t, "lookup")
       \/ id[t] \in DOMAIN cache /\ cache[id[t]] # None /\
              Goto(t, "lookup", "start")
       \/ /\ id[t] \notin DOMAIN cache
          /\ \A x \in Threads : id[x] = id[t] => pc[x] \notin {"fetch", "store"}
          /\ Goto(t, "lookup", "fetch")
    /\ UNCHANGED <<tables, files, nextFile, cache, history>>

(* The path that was read before.  A file that cannot be opened, say       *)
(* because it has been removed a moment ago, raises, and nothing is cached;*)
(* one that was not there is asked for by its url, which yields nothing.   *)
Fetch(t) ==
    /\ \/ file[t] \in files /\ Goto(t, "fetch", "store")
       \/ Answer(t, "fetch")
       \/ file[t] \notin files /\ Turn(t, "fetch", "store", None, id[t], None)
    /\ UNCHANGED <<tables, files, nextFile, cache, history>>

(* What was fetched is cached, also when it is nothing.                    *)
Store(t) ==
    /\ IF file[t] = None THEN Answer(t, "store") ELSE Goto(t, "store", "start")
    /\ cache' = [j \in DOMAIN cache \cup {id[t]} |->
                    IF j = id[t] THEN file[t] ELSE cache[j]]
    /\ UNCHANGED <<tables, files, nextFile, history>>

(* A new experiment, unless the user has one or only the content was asked *)
(* for; the foreign key refuses a template that is gone.                   *)
Start(t) ==
    /\ Answer(t, "start")
    /\ \/ /\ Exists(id[t])
          /\ started' = started \cup {id[t]}
          /\ Refer(id[t])
       \/ UNCHANGED <<started, overlapped>>
    /\ UNCHANGED <<rows, nextId, offered, files, nextFile, cache, raced, cut>>

(* Mutant of Expire: only a failed load is tried again.                    *)
ExpireFailed(i) ==
    /\ i \in DOMAIN cache /\ cache[i] = None
    /\ cache' = Without(i)
    /\ UNCHANGED <<tables, files, nextFile, locals, history>>

(* An hour has passed: expire=3600.                                        *)
Expire(i) ==
    /\ i \in DOMAIN cache
    /\ cache' = Without(i)
    /\ UNCHANGED <<tables, files, nextFile, locals, history>>

----------------------------------------------------------------------------
(* add_template_to_hackathon, delete_template_from_hackathon               *)

EnterOffer(t, r) ==
    /\ r.id \notin offered
    /\ Turn(t, "idle", "offer", None, r.id, None)
    /\ UNCHANGED <<tables, files, nextFile, cache, history>>

Offer(t) ==
    /\ Answer(t, "offer")
    /\ IF Exists(id[t])
       THEN offered' = offered \cup {id[t]} /\ Refer(id[t])
       ELSE UNCHANGED <<offered, overlapped>>
    /\ UNCHANGED <<rows, nextId, started, files, nextFile, cache, raced, cut>>

Withdraw(t, i) ==
    /\ pc[t] = "idle"
    /\ i \in offered /\ Exists(i)
    /\ offered' = offered \ {i}
    /\ UNCHANGED <<rows, nextId, started, files, nextFile, cache, locals,
                   history>>

----------------------------------------------------------------------------
(* delete_template *)

(* Mutant of EnterDelete: templates in use may be deleted.                 *)
EnterAnyDelete(t, r) ==
    /\ Turn(t, "idle", "drop_cache", None, r.id, None)
    /\ UNCHANGED <<tables, files, nextFile, cache, history>>

EnterDelete(t, r) ==
    /\ r.id \notin started
    /\ Turn(t, "idle", "drop_cache", None, r.id, None)
    /\ UNCHANGED <<tables, files, nextFile, cache, history>>

DropCache(t) ==
    /\ Goto(t, "drop_cache", "unlink")
    /\ cache' = Without(id[t])
    /\ UNCHANGED <<tables, files, nextFile, history>>

(* storage.delete of the url the row has now.  It raises when the row has  *)
(* gone, when another thread removes the file first, or cannot remove it.  *)
Unlink(t) ==
    /\ \/ \E r \in rows :
            /\ r.id = id[t]
            /\ Remove(r.url)
            /\ Goto(t, "unlink", "rels")
       \/ Answer(t, "unlink") /\ UNCHANGED files
    /\ UNCHANGED <<tables, nextFile, cache, history>>

DeleteRels(t) ==
    /\ Goto(t, "rels", "row")
    /\ offered' = offered \ {id[t]}
    /\ UNCHANGED <<rows, nextId, started, files, nextFile, cache, history>>

(* Rows that refer to it keep a null in place of its id.                   *)
DeleteRow(t) ==
    /\ Answer(t, "row")
    /\ rows' = {r \in rows : r.id # id[t]}
    /\ UNCHANGED <<nextId, offered, started, files, nextFile, cache,
                   history>>

----------------------------------------------------------------------------
Step(t) ==
    \/ SaveToStorage(t) \/ FindByName(t) \/ InsertRow(t) \/ UpdateRow(t)
    \/ Invalidate(t) \/ Lookup(t) \/ Fetch(t) \/ Store(t) \/ Start(t)
    \/ Offer(t) \/ DropCache(t) \/ Unlink(t) \/ DeleteRels(t) \/ DeleteRow(t)

Enter(t) ==
    \/ \E n \in Names : EnterSave(t, n)
    \/ \E r \in rows : EnterLoad(t, r) \/ EnterOffer(t, r) \/ EnterDelete(t, r)
    \/ \E i \in offered : Withdraw(t, i)

(* The cache is kept in files and survives.                                *)
Restart ==
    /\ CanRestart
    /\ \E t \in Threads : pc[t] # "idle"
    /\ pc' = [t \in Threads |-> "idle"]
    /\ name' = [t \in Threads |-> None]
    /\ id' = [t \in Threads |-> None]
    /\ file' = [t \in Threads |-> None]
    /\ cut' = cut \cup {id[t] : t \in {x \in Threads : pc[x] \in Deleting}}
    /\ raced' = raced \cup
                {id[t] : t \in {x \in Threads : pc[x] = "invalidate"}}
    /\ UNCHANGED <<tables, files, nextFile, cache, overlapped>>

Next ==
    \/ \E t \in Threads : Enter(t) \/ Step(t)
    \/ \E i \in DOMAIN cache : Expire(i)
    \/ Restart

Spec == Init /\ [][Next]_vars

(* Threads that serve a request go on, and hours pass.                     *)
FairSpec ==
    /\ Spec
    /\ \A t \in Threads : WF_vars(Step(t))
    /\ \A i \in 1..MaxTemplates : WF_vars(Expire(i))

----------------------------------------------------------------------------
TypeOK ==
    /\ rows \subseteq TemplateRows
    /\ nextId \in Ids
    /\ \A r \in rows : r.id < nextId
    /\ \A r, s \in rows : r.id = s.id \/ r.name = s.name => r = s
    /\ offered \subseteq Ids /\ started \subseteq Ids
    /\ files \subseteq Ids /\ nextFile \in Ids
    /\ DOMAIN cache \subseteq Ids
    /\ \A i \in DOMAIN cache : cache[i] \in Ids \cup {None}
    /\ pc \in [Threads -> Steps]
    /\ name \in [Threads -> Names \cup {None}]
    /\ id \in [Threads -> Ids \cup {None}]
    /\ file \in [Threads -> Ids \cup {None}]
    /\ overlapped \subseteq Ids
    /\ raced \subseteq Ids /\ cut \subseteq Ids

(* The content of a template can be fetched as long as its row is there,   *)
(* whatever is saved and deleted at the same time: delete_template removes *)
(* the file before the row, and only in that window, or when a crash falls *)
(* into it, does a row refer to a file that is gone.                       *)
RowHasFile ==
    \A r \in rows :
        \/ r.url \in files
        \/ r.id \in cut
        \/ \E t \in Threads : pc[t] \in {"rels", "row"} /\ id[t] = r.id

(* A template that an experiment or a hackathon uses is not deleted (the   *)
(* check "template already in use" of delete_template), unless it was taken*)
(* into use after that check.                                              *)
InUseIsKept == \A i \in (started \cup offered) \ overlapped : Exists(i)

(* update_template invalidates the cache after the row is committed: what  *)
(* is cached is what the row refers to, but for a load that had read the   *)
(* row before the update, or a crash before the invalidation.              *)
CacheIsCurrent ==
    \A r \in rows :
        \/ r.id \notin DOMAIN cache
        \/ cache[r.id] \in {None, r.url}
        \/ r.id \in raced
        \/ \E t \in Threads : pc[t] = "invalidate" /\ id[t] = r.id

(* Stale content, and content of a deleted template, does not stay in the  *)
(* cache for ever: once templates are no longer saved or deleted, what is  *)
(* cached is, after at most an hour, what the rows refer to.               *)
Converges ==
    \A i \in 1..MaxTemplates :
        <>[](i \in DOMAIN cache =>
                \E r \in rows : r.id = i /\ cache[i] \in {None, r.url})
=============================================================================
