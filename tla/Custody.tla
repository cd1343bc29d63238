------------------------------- MODULE Custody -------------------------------
(***************************************************************************)
(* One church's encryption key and what is sealed under it: provisioning,  *)
(* the wrapped key on the registry row, each process's key cache, the      *)
(* backup gate, the restore from escrow after a master key rotation, the   *)
(* operator's settings form, and the documents of the three storage modes  *)
(* (src/apps/core/keys.py, src/apps/tenants/ and src/apps/documents/).     *)
(*                                                                         *)
(* A key is a number never used twice, and so is the seal of a wrapping    *)
(* (its digest): the nonce makes every wrapping different. Processes are   *)
(* web and worker processes, each started with one PLATFORM_MASTER_KEY.    *)
(***************************************************************************)
EXTENDS Naturals, Sequences

CONSTANTS
  Process,
  MaxDeks,        \* bound: data keys ever generated
  MaxMasters,     \* bound: master keys the operator deploys
  MaxSeals,       \* bound: times a key is wrapped
  MaxDocuments,   \* bound: uploads ever started
  Chosen,         \* bound: the storage modes the operator chooses from
  Church, Absent, \* the registry row exists, or provisioning has not committed yet
  Empty           \* no cache entry

ASSUME CustodyAssumption ==
  /\ MaxDeks \in Nat /\ MaxMasters \in Nat \ {0} /\ MaxSeals \in Nat /\ MaxDocuments \in Nat
  /\ Chosen \subseteq {"store", "link", "track"}
  /\ Church # Absent
  /\ Empty \notin [seal : Nat, dek : Nat]

VARIABLES
  church,     \* the committed Tenant row
  deks,       \* data keys generated so far
  seals,      \* wrappings made so far
  sealed,     \* the keys some encrypted column of the church's schema is under
  files,      \* sealed files on the media volume, by upload
  documents,  \* Document rows, oldest first
  uploads,    \* uploads started so far
  master,     \* the master key each process was started with
  deployed,   \* the master key in the environment now
  cache,      \* keys._cache of each process, for this schema
  copy,       \* the Tenant object a request or job of each process has loaded
  escrow,     \* keys somebody holds a copy of outside the system
  confirmed   \* ghost: keys somebody at the church confirmed having a copy of

cvars == <<church, deks, seals, sealed, files, documents, uploads, master, deployed, cache,
          copy, escrow, confirmed>>

registry == <<deks, seals, escrow, confirmed>>
volume == <<files, documents, uploads>>
platform == <<master, deployed>>

Mode == {"store", "link", "track"}

Wrapped == [dek : Nat, under : Nat, seal : Nat]

NoRow == [status |-> Absent, wrapped |-> [dek |-> 0, under |-> 0, seal |-> 0],
          fingerprint |-> 0, mode |-> "track", backup |-> FALSE]

\* What a process is in the middle of: nothing, a settings form, a change of mode, a
\* confirmed backup that is not in the trail yet, a job, an upload.
NotWorking == [on |-> "nothing", row |-> NoRow, file |-> 0]

CInit ==
  /\ church = NoRow
  /\ deks = 0 /\ seals = 0 /\ uploads = 0
  /\ sealed = {} /\ files = {} /\ documents = <<>> /\ escrow = {}
  /\ deployed = 1
  /\ master = [p \in Process |-> 1]
  /\ cache = [p \in Process |-> Empty]
  /\ copy = [p \in Process |-> NotWorking]
  /\ confirmed = {}

-----------------------------------------------------------------------------
(* core/keys.py: which key applies. A result is the key, or 0 for an error,  *)
(* and the cache entry afterwards.                                           *)

Key(dek, entry) == [dek |-> dek, entry |-> entry]

\* unwrap_dek under the process's own master key; AES-GCM refuses any other.
Unwrap(p, wrapped) ==
  IF wrapped.under = master[p]
  THEN Key(wrapped.dek, [seal |-> wrapped.seal, dek |-> wrapped.dek])
  ELSE Key(0, cache[p])

\* tenant_context and web requests: the bound row carries its own wrapped key.
KeyOfRow(p, wrapped) ==
  IF cache[p] # Empty /\ cache[p].seal = wrapped.seal
  THEN Key(cache[p].dek, cache[p])
  ELSE Unwrap(p, wrapped)

\* schema_context binds a FakeTenant: the cache as it is, then the registry.
KeyOfSchema(p, wrapped) ==
  IF cache[p] # Empty THEN Key(cache[p].dek, cache[p]) ELSE Unwrap(p, wrapped)

\* Mutant: provisioning asks for the key like everybody else.
key_from_registry(p, dek, wrapped) == KeyOfSchema(p, wrapped)

\* override_key: the new key is handed over, and the cache is not touched.
override_key(p, dek, wrapped) == Key(dek, cache[p])

Remember(p, key) == cache' = [cache EXCEPT ![p] = key.entry]

-----------------------------------------------------------------------------
(* The operator: provisioning, the settings form, rotation and restore.      *)

Wrap(p, dek) == [dek |-> dek, under |-> master[p], seal |-> seals + 1]

Idle(p) == copy[p].on = "nothing"

\* One transaction: the row, the schema, and a founder whose address is sealed.
\* It may fail as a whole, and be tried again. Its result page shows the key.
provision_church(p, mode, commits) ==
  /\ church.status = Absent
  /\ deks < MaxDeks /\ seals < MaxSeals
  /\ deks' = deks + 1
  /\ seals' = seals + 1
  /\ LET key == override_key(p, deks', Wrap(p, deks'))
     IN  /\ key.dek # 0
         /\ Remember(p, key)
         /\ IF commits
            THEN /\ church' = [status |-> Church, wrapped |-> Wrap(p, deks'),
                               fingerprint |-> deks', mode |-> mode, backup |-> FALSE]
                 /\ sealed' = {key.dek}
                 /\ escrow' = escrow \cup {deks'}
            ELSE UNCHANGED <<church, sealed, escrow>>
  /\ UNCHANGED <<volume, platform, copy, confirmed>>

Load(p, what) ==
  /\ church.status = Church
  /\ Idle(p)
  /\ copy' = [copy EXCEPT ![p] = [on |-> what, row |-> church, file |-> 0]]
  /\ UNCHANGED <<church, registry, sealed, volume, platform, cache>>

\* The form is saved with every column of the row it was loaded from, the mode that row
\* had included; a new mode is left to set_document_mode.
church_settings(p, mode) ==
  /\ copy[p].on = "settings"
  /\ church' = copy[p].row
  /\ copy' = [copy EXCEPT ![p] = IF mode = church'.mode THEN NotWorking
                                 ELSE [on |-> "mode", row |-> [church' EXCEPT !.mode = mode],
                                       file |-> 0]]
  /\ UNCHANGED <<registry, sealed, volume, platform, cache>>

\* That saves the one column, and commits; its audit entry, sealed under
\* schema_context, is a commit of its own.
set_document_mode(p) ==
  /\ copy[p].on = "mode"
  /\ church' = [church EXCEPT !.mode = copy[p].row.mode]
  /\ copy' = [copy EXCEPT ![p].on = "entry"]
  /\ UNCHANGED <<registry, sealed, volume, platform, cache>>

mode_recorded(p) ==
  /\ copy[p].on = "entry"
  /\ LET key == KeyOfSchema(p, church.wrapped)
     IN  key.dek # 0 /\ sealed' = sealed \cup {key.dek} /\ Remember(p, key)
  /\ copy' = [copy EXCEPT ![p] = NotWorking]
  /\ UNCHANGED <<church, registry, volume, platform>>

\* Mutant: whatever is pasted is wrapped.
accepts_any_key(dek) == TRUE

\* A key with another fingerprint is somebody else's escrow entry.
fingerprint_matches(dek) == dek = church.fingerprint

rotate_key_from_escrow(p, dek) ==
  /\ church.status = Church
  /\ seals < MaxSeals
  /\ fingerprint_matches(dek)
  /\ church' = [church EXCEPT !.wrapped = Wrap(p, dek), !.fingerprint = dek]
  /\ seals' = seals + 1
  /\ cache' = [cache EXCEPT ![p] = Empty]
  /\ UNCHANGED <<deks, sealed, volume, platform, copy, escrow, confirmed>>

\* The operator's escrow: export_tenant_key, the console, or another church's entry.
church_restore_key(p) == \E dek \in 1..MaxDeks : rotate_key_from_escrow(p, dek)

rotate_master_key ==
  /\ deployed < MaxMasters
  /\ deployed' = deployed + 1
  /\ UNCHANGED <<church, registry, sealed, volume, master, cache, copy>>

\* A deploy, or a crash: the process comes back with the environment's key.
restart(p) ==
  /\ master' = [master EXCEPT ![p] = deployed]
  /\ cache' = [cache EXCEPT ![p] = Empty]
  /\ copy' = [copy EXCEPT ![p] = NotWorking]
  /\ UNCHANGED <<church, registry, sealed, volume, deployed>>

-----------------------------------------------------------------------------
(* The church: the backup step, and what a page or a job seals.              *)

\* Mutant: the gate lets the documents pages through.
gate_open_to_documents(what) == church.backup \/ what = "document"

\* ForceKeyBackupMiddleware: nothing but the backup step until it is confirmed.
GatePasses(what) == church.backup

\* The page and the download both unwrap the key for somebody with MANAGE_USERS, and
\* the download writes its audit entry first; only then can the form be confirmed,
\* which saves just the backup columns.
key_backup_download(p) ==
  /\ church.status = Church
  /\ LET shown == Unwrap(p, church.wrapped)
         key == KeyOfRow(p, church.wrapped)
     IN  /\ shown.dek # 0
         /\ escrow' = escrow \cup {shown.dek}
         /\ sealed' = sealed \cup {key.dek} /\ Remember(p, key)
  /\ UNCHANGED <<church, deks, seals, volume, platform, copy, confirmed>>

key_backup(p) ==
  /\ church.status = Church
  /\ ~church.backup /\ Idle(p)
  /\ LET dek == Unwrap(p, church.wrapped).dek
     IN  /\ dek # 0
         /\ church' = [church EXCEPT !.backup = TRUE]
         /\ escrow' = escrow \cup {dek}
         /\ confirmed' = confirmed \cup {dek}
  /\ copy' = [copy EXCEPT ![p] = [on |-> "confirming", row |-> church, file |-> 0]]
  /\ UNCHANGED <<deks, seals, sealed, volume, platform, cache>>

\* The audit entry is a commit of its own: a process that dies first leaves the gate
\* open and nothing in the trail.
key_backup_recorded(p) ==
  /\ copy[p].on = "confirming"
  /\ LET key == KeyOfRow(p, copy[p].row.wrapped)
     IN  key.dek # 0 /\ sealed' = sealed \cup {key.dek} /\ Remember(p, key)
  /\ copy' = [copy EXCEPT ![p] = NotWorking]
  /\ UNCHANGED <<church, registry, volume, platform>>

\* The sweep works with the rows it loaded when it began.
sweep(p) ==
  /\ copy[p].on = "job"
  /\ LET key == KeyOfRow(p, copy[p].row.wrapped)
     IN  /\ Remember(p, key)
         /\ sealed' = IF key.dek = 0 THEN sealed ELSE sealed \cup {key.dek}
  /\ copy' = [copy EXCEPT ![p] = NotWorking]
  /\ UNCHANGED <<church, registry, volume, platform>>

Row(p, file) == [mode |-> copy[p].row.mode, file |-> file]

\* Mutant: the row first, the file after it.
store_row_first(p) ==
  LET key == KeyOfRow(p, copy[p].row.wrapped)
  IN  /\ copy[p].row.mode = "store" => key.dek # 0
      /\ Remember(p, key)
      /\ documents' = Append(documents, Row(p, IF copy[p].row.mode = "store"
                                               THEN uploads + 1 ELSE 0))
      /\ copy' = [copy EXCEPT ![p].on = "saving", ![p].file = uploads + 1]
      /\ UNCHANGED files

\* encrypted_file.save: the sealed bytes reach the volume before the row commits.
SealFile(p) ==
  LET key == KeyOfRow(p, copy[p].row.wrapped)
  IN  /\ copy[p].row.mode = "store" => key.dek # 0
      /\ Remember(p, key)
      /\ files' = IF copy[p].row.mode = "store"
                  THEN files \cup {[upload |-> uploads + 1, dek |-> key.dek]} ELSE files
      /\ copy' = [copy EXCEPT ![p].on = "saving",
                              ![p].file = IF copy[p].row.mode = "store" THEN uploads + 1 ELSE 0]
      /\ UNCHANGED documents

\* store_document: the mode is the one the request was bound with.
store_document(p) ==
  /\ copy[p].on = "upload"
  /\ uploads < MaxDocuments
  /\ uploads' = uploads + 1
  /\ SealFile(p)
  /\ UNCHANGED <<church, registry, sealed, platform>>

\* The transaction commits: the row, its encrypted columns, its audit entry.
commit_document(p) ==
  /\ copy[p].on = "saving"
  /\ documents' = Append(documents, Row(p, copy[p].file))
  /\ LET key == KeyOfRow(p, copy[p].row.wrapped)
     IN  key.dek # 0 /\ sealed' = sealed \cup {key.dek} /\ Remember(p, key)
  /\ copy' = [copy EXCEPT ![p] = NotWorking]
  /\ UNCHANGED <<church, registry, files, uploads, platform>>

\* The form is refused, or the request dies; the file stays behind.
abandon(p) ==
  /\ ~Idle(p)
  /\ copy' = [copy EXCEPT ![p] = NotWorking]
  /\ UNCHANGED <<church, registry, sealed, volume, platform, cache>>

CNext ==
  \/ rotate_master_key
  \/ \E p \in Process :
       \/ \E m \in Chosen, c \in BOOLEAN : provision_church(p, m, c)
       \/ Load(p, "settings") \/ \E m \in Chosen : church_settings(p, m)
       \/ set_document_mode(p) \/ mode_recorded(p)
       \/ church_restore_key(p) \/ restart(p)
       \/ key_backup_download(p) \/ key_backup(p) \/ key_backup_recorded(p)
       \/ Load(p, "job") \/ sweep(p)
       \/ GatePasses("document") /\ Load(p, "upload")
       \/ store_document(p) \/ commit_document(p) \/ abandon(p)

CSpec == CInit /\ [][CNext]_cvars

-----------------------------------------------------------------------------
(* Properties                                                                *)

\* The keys of what has been sealed for the church, columns and files.
KeysInUse == sealed \cup {f.dek : f \in files}

\* get_current_key: "better a loud failure than silently writing one church's data
\* under another's key". Failed provisionings, stale caches and rows, rotations and
\* restores never leave a value under a key other than the church's own.
OneKeyPerChurch == KeysInUse \subseteq {church.fingerprint}

\* rotate_key_from_escrow refuses the wrong entry: the row always wraps the very key
\* its data is under, and somebody outside the system has that key too.
KeyIsRecoverable ==
  church.status = Church =>
    /\ church.wrapped.dek \in escrow
    /\ KeysInUse \subseteq {church.wrapped.dek}

\* store_document: a record in store mode has its sealed file whatever died when, and
\* a change of mode makes no earlier record inconsistent.
EveryRecordHasItsFile ==
  \A n \in DOMAIN documents :
    IF documents[n].mode = "store"
    THEN \E f \in files : f.upload = documents[n].file
    ELSE documents[n].file = 0

\* ForceKeyBackupMiddleware: no document is taken from a church that never confirmed a
\* backup, and no file is sealed under a key that nobody there confirmed having a copy
\* of, whatever form was loaded earlier and whatever key was put back since.
BackupComesFirst ==
  /\ documents # <<>> => confirmed # {}
  /\ {f.dek : f \in files} \subseteq confirmed
=============================================================================
