---------------------------- MODULE RemoteReceivers ----------------------------
(***************************************************************************)
(* Receivers of other computers (remote.go) and their place in the list of *)
(* receivers (Refresh in runtime.go): a list in a file that is written in  *)
(* place, and refreshes that take long, may overlap and keep the old list  *)
(* of receivers while a session runs.                                      *)
(***************************************************************************)
EXTENDS Naturals

CONSTANTS
    Editors,   \* requests in progress
    Remotes,   \* receivers that may be added
    MaxSaves,  \* bound: receivers saved and deleted
    MaxUpsets  \* bound: writes that fail or are cut short by a crash, and sessions

RemoteReceiversAssumption == {MaxSaves, MaxUpsets} \subseteq Nat

VARIABLES
    remotes,   \* RemoteReceiverStore.items
    remoteFile,\* [list, torn]: remote-receivers.json
    devices,   \* the remote ones of Runtime.devices
    receiving, \* a session runs
    refreshes, \* per request: [pc, list: what it will install, alone]
    saves, upsets,
    outdated,  \* refreshes crossed or kept an old list, and none was alone since
    started    \* the program runs

remotevars == <<remotes, remoteFile, devices, receiving, refreshes, saves, upsets, outdated, started>>

Resting == [pc |-> "idle", list |-> {}, alone |-> TRUE]
Refreshing == {e \in Editors : refreshes[e].pc # "idle"}

RemotesTypeOK ==
    /\ {remotes, remoteFile.list, devices} \subseteq SUBSET Remotes
    /\ ~started => remoteFile.torn

RemotesInit ==
    /\ remotes = {} /\ remoteFile = [list |-> {}, torn |-> FALSE] /\ devices = {}
    /\ receiving = FALSE /\ refreshes = [e \in Editors |-> Resting]
    /\ saves = 0 /\ upsets = 0 /\ outdated = FALSE /\ started = TRUE

Upset == upsets < MaxUpsets /\ upsets' = upsets + 1

(* e goes on, and the refreshes in progress are no longer alone. *)
Enters(e, next) ==
    refreshes' = [o \in Editors |->
        CASE o = e -> [next EXCEPT !.alone = (Refreshing \ {e} = {})]
          [] o \in Refreshing \ {e} -> [refreshes[o] EXCEPT !.alone = FALSE]
          [] OTHER -> refreshes[o]]

-----------------------------------------------------------------------------
(* Save or Delete, then a refresh; a write that fails keeps the change in   *)
(* memory, reports the error and refreshes nothing.                         *)
ChangeRemotes(e, list) ==
    /\ started /\ refreshes[e].pc = "idle" /\ saves < MaxSaves /\ saves' = saves + 1
    /\ remotes' = list
    /\ \/ /\ remoteFile' = [list |-> list, torn |-> FALSE]
          /\ Enters(e, [Resting EXCEPT !.pc = "look"])
          /\ outdated' = (outdated \/ Refreshing # {})
          /\ UNCHANGED upsets
       \/ /\ Upset /\ outdated' = TRUE /\ UNCHANGED <<remoteFile, refreshes>>
    /\ UNCHANGED <<devices, receiving, started>>

SaveRemote(e, r) == ChangeRemotes(e, remotes \cup {r})
DeleteRemote(e, r) == r \in remotes /\ ChangeRemotes(e, remotes \ {r})

\* Faulty variant: a refresh forgets the remote receivers while one runs.
LookForgets(e) ==
    /\ refreshes[e].pc = "look"
    /\ Enters(e, [refreshes[e] EXCEPT !.pc = IF receiving THEN "install" ELSE "discover", !.list = {}])
    /\ outdated' = (outdated \/ Refreshing # {e})
    /\ UNCHANGED <<remotes, remoteFile, devices, receiving, saves, upsets, started>>

(* Refresh takes the receivers there are while a session runs, ... *)
Look(e) ==
    /\ refreshes[e].pc = "look"
    /\ Enters(e, [refreshes[e] EXCEPT !.pc = IF receiving THEN "install" ELSE "discover",
                                      !.list = IF receiving THEN devices ELSE {}])
    /\ outdated' = (outdated \/ Refreshing # {e} \/ (receiving /\ devices # remotes))
    /\ UNCHANGED <<remotes, remoteFile, devices, receiving, saves, upsets, started>>

(* ... else it looks for all of them, which takes seconds. *)
Discover(e) ==
    /\ refreshes[e].pc = "discover"
    /\ Enters(e, [refreshes[e] EXCEPT !.pc = "install", !.list = remotes])
    /\ outdated' = (outdated \/ Refreshing # {e})
    /\ UNCHANGED <<remotes, remoteFile, devices, receiving, saves, upsets, started>>

InstallDevices(e) ==
    /\ refreshes[e].pc = "install"
    /\ devices' = refreshes[e].list
    /\ outdated' = (outdated /\ ~(refreshes[e].alone /\ refreshes[e].list = remotes))
    /\ refreshes' = [refreshes EXCEPT ![e] = Resting]
    /\ UNCHANGED <<remotes, remoteFile, receiving, saves, upsets, started>>

AskRefresh(e) ==
    /\ started /\ refreshes[e].pc = "idle"
    /\ Enters(e, [Resting EXCEPT !.pc = "look"])
    /\ outdated' = (outdated \/ Refreshing # {})
    /\ UNCHANGED <<remotes, remoteFile, devices, receiving, saves, upsets, started>>

Session ==
    /\ started
    /\ \/ receiving /\ UNCHANGED upsets
       \/ ~receiving /\ Upset
    /\ receiving' = ~receiving
    /\ UNCHANGED <<remotes, remoteFile, devices, refreshes, saves, outdated, started>>

(* The program is killed and starts again; a kill in the middle of a write  *)
(* leaves a file that NewRemoteReceiverStore, and so the program, refuses.  *)
KillRemotes ==
    /\ started /\ Upset
    /\ \E torn \in BOOLEAN :
         /\ torn => saves < MaxSaves
         /\ remoteFile' = [remoteFile EXCEPT !.torn = torn]
         /\ started' = ~torn
    /\ remotes' = remoteFile.list /\ devices' = remoteFile.list
    /\ receiving' = FALSE /\ refreshes' = [e \in Editors |-> Resting] /\ outdated' = FALSE
    /\ UNCHANGED saves

RemotesNext ==
    \/ \E e \in Editors :
         \/ Look(e) \/ Discover(e) \/ InstallDevices(e) \/ AskRefresh(e)
         \/ \E r \in Remotes : SaveRemote(e, r) \/ DeleteRemote(e, r)
    \/ Session \/ KillRemotes

RemotesSpec == RemotesInit /\ [][RemotesNext]_remotevars

-----------------------------------------------------------------------------
(* At rest the receivers listed are the saved ones, unless refreshes        *)
(* crossed, kept an old list or failed, and none was alone since            *)
(* (SaveRemoteReceiver, DeleteRemoteReceiver, Refresh).                     *)
RemotesListed == Refreshing = {} /\ ~outdated => devices = remotes
=============================================================================
