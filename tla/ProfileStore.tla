------------------------------ MODULE ProfileStore ------------------------------
(***************************************************************************)
(* The scan profiles (ProfileStore in store.go): a map in memory and one   *)
(* file per profile a user or an import made.  Built-in profiles come with *)
(* the program; those whose ID begins with "sheet-" come from range syncs  *)
(* and are kept in the sync's cache instead of in files.                   *)
(*                                                                         *)
(* Every operation runs under the store's lock and replaces a file by a    *)
(* rename, so it is one step; a write or a removal may fail.               *)
(***************************************************************************)
EXTENDS Naturals, Functions

CONSTANTS
    FactoryIds,   \* profiles of the program
    SheetIds,     \* IDs that begin with "sheet-"
    UserIds,      \* IDs of other profiles, given by NewID
    LibraryIds,   \* IDs that begin with "localdb-"
    Factory,      \* what a profile of the program contains
    MaxEdits,     \* bound: operations of users
    MaxFaults     \* bound: operations that fail, and restarts

\* The program's IDs do not begin with "sheet-", nor those of NewID with
\* "localdb-".
ProfileStoreAssumption ==
    /\ {MaxEdits, MaxFaults} \subseteq Nat
    /\ FactoryIds \cap SheetIds = {} /\ UserIds \cap LibraryIds = {}

VARIABLES
    profiles, \* ProfileStore.profiles: ID -> [builtIn, content]
    files,    \* the profile directory: ID -> content
    edits,    \* operations of users so far
    faults    \* failed writes and restarts so far

profilevars == <<profiles, files, edits, faults>>

Known(id) == id \in DOMAIN profiles
BuiltIn(id) == Known(id) /\ profiles[id].builtIn
Fresh(id) == id \in UserIds /\ ~Known(id) /\ id \notin DOMAIN files
With(f, id, value) == [x \in DOMAIN f \cup {id} |-> IF x = id THEN value ELSE f[x]]
Without(f, ids) == [x \in DOMAIN f \ ids |-> f[x]]

(* What NewProfileStore makes of a directory: files go over built-ins. *)
Loaded(directory) ==
    [id \in FactoryIds \cup DOMAIN directory |->
        IF id \in DOMAIN directory THEN [builtIn |-> FALSE, content |-> directory[id]]
        ELSE [builtIn |-> TRUE, content |-> Factory]]

ProfilesInit ==
    /\ files = [id \in {} |-> 0] /\ profiles = Loaded(files)
    /\ edits = 0 /\ faults = 0

-----------------------------------------------------------------------------
\* Faulty variant: the profile is kept in memory before its file is written.
StoredUnwritten(id, content) ==
    /\ profiles' = With(profiles, id, [builtIn |-> FALSE, content |-> content])
    /\ \/ files' = With(files, id, content) /\ UNCHANGED faults
       \/ faults < MaxFaults /\ faults' = faults + 1 /\ UNCHANGED files

(* The profile is written, then kept in memory. *)
Stored(id, content) ==
    \/ /\ files' = With(files, id, content)
       /\ profiles' = With(profiles, id, [builtIn |-> FALSE, content |-> content])
       /\ UNCHANGED faults
    \/ faults < MaxFaults /\ faults' = faults + 1 /\ UNCHANGED <<profiles, files>>

\* Faulty variant: a built-in profile is replaced.
SaveOver(id, content) == Stored(id, content)

(* Save: a built-in profile is not replaced. *)
Save(id, content) == ~BuiltIn(id) /\ Stored(id, content)

Edit(A) == edits < MaxEdits /\ edits' = edits + 1 /\ A

(* Import of a profile file: it gets an ID of its own when its ID is taken  *)
(* or it is an exported built-in profile.                                   *)
Import(id, builtIn, content) ==
    LET given == IF Known(id) \/ builtIn THEN {u \in UserIds : Fresh(u)} ELSE {id}
    IN \E u \in given : Stored(u, content)

(* Duplicate: a copy under a new ID. *)
Duplicate(id) ==
    Known(id) /\ \E u \in UserIds : Fresh(u) /\ Stored(u, profiles[id].content)

(* Delete: a profile that is not built in, its file first. *)
Delete(id) ==
    /\ Known(id) /\ ~BuiltIn(id)
    /\ \/ /\ files' = Without(files, {id})
          /\ profiles' = Without(profiles, {id})
          /\ UNCHANGED faults
       \/ faults < MaxFaults /\ faults' = faults + 1 /\ UNCHANGED <<profiles, files>>

(* ReplaceSyncedProfiles: the profiles of a sheet for all "sheet-" IDs. *)
Replaced(store, ids, content) ==
    [id \in (DOMAIN store \ SheetIds) \cup ids |->
        IF id \in ids THEN [builtIn |-> TRUE, content |-> content] ELSE store[id]]

(* What users do.  A form that was opened before the last sync may save a   *)
(* sheet profile that is no longer one.                                     *)
UserEdits ==
    \/ \E id \in DOMAIN profiles \cup UserIds \cup SheetIds : Edit(Save(id, edits'))
    \/ \E id \in UserIds, builtIn \in BOOLEAN : Edit(Import(id, builtIn, edits'))
    \/ \E id \in DOMAIN profiles : Edit(Duplicate(id) \/ Delete(id))

-----------------------------------------------------------------------------
ProfilesTypeOK ==
    /\ DOMAIN profiles \subseteq FactoryIds \cup SheetIds \cup UserIds \cup LibraryIds
    /\ DOMAIN files \subseteq DOMAIN profiles \cup SheetIds
    /\ edits \in 0..MaxEdits /\ faults \in 0..MaxFaults

(* A restart serves the profiles that are served now, whatever was saved,   *)
(* copied, deleted or failed (Save, Import, Duplicate, Delete,              *)
(* NewProfileStore); sheet IDs are the cache's.                             *)
ReloadAgrees == Without(Loaded(files), SheetIds) = Without(profiles, SheetIds)

(* No operation replaces or removes a profile of the program, which all     *)
(* other profiles are duplicated from (ErrBuiltIn).                         *)
FactoryKept == \A id \in FactoryIds : BuiltIn(id) /\ profiles[id].content = Factory
=============================================================================
