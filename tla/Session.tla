-------------------------------- MODULE Session --------------------------------
(***************************************************************************)
(* A session as the client sees it: the objects that the wrappers pass     *)
(* between Go and libtorrent, who owns them and when they go.              *)
(*                                                                         *)
(* src/interfaces/add_torrent_params.i gives a torrent a copy of the       *)
(* client's torrent_info; src/interfaces/torrent_handle.i gives out raw    *)
(* pointers to it; src/upload_plugin.cxx attaches a plugin to the torrents *)
(* added after it was registered; src/interfaces/dht.i binds the arguments *)
(* of a put to the callback that signs it.  The client's calls, the        *)
(* network thread and disk jobs interleave.                                *)
(***************************************************************************)
EXTENDS Integers, FiniteSets

CONSTANTS
  Torrents,
  Puts,    \* mutable items the client puts into the DHT
  Items,   \* their contents
  MaxSeq   \* bound: other clients put no item above this sequence number

ASSUME SessionAssumption == MaxSeq \in Nat

VARIABLES
  stage,         \* "none", "posted", "running" or "removed"
  ti,            \* add_torrent_params::ti: "none", "copy" or "own", the client's object
  own_info,      \* the client has not deleted its torrent_info
  owners,        \* who holds a shared_ptr to the copy
  pointed,       \* torrents of which the client has the pointer of torrent_file()
  freed,         \* those of which it has deleted what the pointer points to
  jobs,          \* torrents with a disk job, which keeps storage and torrent
  registered, plugged,  \* add_upload_extension was called; torrents with the plugin
  peers,         \* connections of a torrent: whether bittorrent, whether with a plugin
  data,          \* dht_put_operation::data, which the client may change after the call
  bound,         \* what boost::bind copied
  seq, signed,   \* what the callback was called with, and what it signed
  sent,          \* puts whose item was sent to the nodes
  stored,        \* external: the item of the key in the DHT, as [data, seq]
  overtaken      \* history: puts with another's item stored after their lookup

infoVars    == <<ti, own_info, owners, pointed, freed>>
pluginVars  == <<registered, plugged, peers>>
torrentVars == <<stage, jobs, infoVars, pluginVars>>
putVars     == <<data, bound, seq, signed, sent, stored, overtaken>>
vars == <<torrentVars, putVars>>

NoItem == "none"
NoSeq  == -1
Kinds == {"bittorrent", "web"}

Init ==
  /\ stage = [t \in Torrents |-> "none"]
  /\ ti = [t \in Torrents |-> "none"] /\ own_info = Torrents
  /\ owners = [t \in Torrents |-> {}] /\ jobs = {} /\ pointed = {} /\ freed = {}
  /\ registered = FALSE /\ plugged = {} /\ peers = [t \in Torrents |-> {}]
  /\ data = [o \in Puts |-> NoItem] /\ bound = data /\ signed = data
  /\ seq = [o \in Puts |-> NoSeq]
  /\ sent = {} /\ stored = [data |-> NoItem, seq |-> 0] /\ overtaken = {}

-----------------------------------------------------------------------------
(* add_torrent_params.                                                     *)
(* A fault: the params take the client's object itself.                    *)
TakeInfo(t) == ti' = [ti EXCEPT ![t] = "own"] /\ UNCHANGED owners

CopyInfo(t) == ti' = [ti EXCEPT ![t] = "copy"] /\ owners' = [owners EXCEPT ![t] = {"params"}]

SetTorrentInfo(t) ==
  /\ stage[t] = "none" /\ ti[t] = "none" /\ t \in own_info
  /\ CopyInfo(t)
  /\ UNCHANGED <<stage, jobs, own_info, pointed, freed, pluginVars, putVars>>

(* The engine takes the params over; its network thread starts the torrent *)
(* later.                                                                  *)
AddTorrent(t) ==
  /\ stage[t] = "none" /\ ti[t] # "none"
  /\ stage' = [stage EXCEPT ![t] = "posted"]
  /\ owners' = [owners EXCEPT ![t] = IF ti[t] = "copy" THEN @ \cup {"torrent"} ELSE @]
  /\ UNCHANGED <<jobs, ti, own_info, pointed, freed, pluginVars, putVars>>

(* The torrents added after it was registered have the plugin.             *)
CreateUploadPlugin(t) == plugged' = IF registered THEN plugged \cup {t} ELSE plugged

Start(t) ==
  /\ stage[t] = "posted"
  /\ stage' = [stage EXCEPT ![t] = "running"]
  /\ CreateUploadPlugin(t)
  /\ UNCHANGED <<jobs, infoVars, registered, peers, putVars>>

-----------------------------------------------------------------------------
(* Disk jobs, and the end of a torrent.                                    *)
TorrentAlive(t) == stage[t] \in {"posted", "running"} \/ t \in jobs

Dropped(t) == owners' = [owners EXCEPT ![t] = @ \ {"torrent"}]

StartJob(t) ==
  /\ stage[t] = "running" /\ t \notin jobs
  /\ jobs' = jobs \cup {t}
  /\ UNCHANGED <<stage, infoVars, pluginVars, putVars>>

EndJob(t) ==
  /\ t \in jobs
  /\ jobs' = jobs \ {t}
  /\ IF stage[t] = "removed" THEN Dropped(t) ELSE UNCHANGED owners
  /\ UNCHANGED <<stage, ti, own_info, pointed, freed, pluginVars, putVars>>

RemoveTorrent(t) ==
  /\ stage[t] = "running"
  /\ stage' = [stage EXCEPT ![t] = "removed"]
  /\ peers' = [peers EXCEPT ![t] = {}] /\ plugged' = plugged \ {t}
  /\ IF t \in jobs THEN UNCHANGED owners ELSE Dropped(t)
  /\ UNCHANGED <<jobs, ti, own_info, pointed, freed, registered, putVars>>

(* torrent_file() of a handle whose torrent is there gives out the pointer *)
(* and drops the reference that came with it.                              *)
TorrentFile(t) ==
  /\ TorrentAlive(t) /\ t \notin pointed
  /\ pointed' = pointed \cup {t}
  /\ UNCHANGED <<stage, jobs, ti, own_info, owners, freed, pluginVars, putVars>>

(* The client deletes what is its own, the params and its torrent_info,    *)
(* when it likes.                                                          *)
DeleteAddTorrentParams(t) ==
  /\ stage[t] \in {"posted", "running", "removed"}
  /\ owners' = [owners EXCEPT ![t] = @ \ {"params"}]
  /\ UNCHANGED <<stage, jobs, ti, own_info, pointed, freed, pluginVars, putVars>>

DeleteTorrentInfo(t) ==
  /\ t \in own_info
  /\ own_info' = own_info \ {t}
  /\ UNCHANGED <<stage, jobs, ti, owners, pointed, freed, pluginVars, putVars>>

(* Or it deletes the object that torrent_file() pointed it to, of which it *)
(* owns nothing.                                                           *)
DeleteTorrentFile(t) ==
  /\ t \in pointed
  /\ pointed' = pointed \ {t} /\ freed' = freed \cup {t}
  /\ UNCHANGED <<stage, jobs, ti, own_info, owners, pluginVars, putVars>>

-----------------------------------------------------------------------------
(* upload_plugin.                                                          *)
AddUploadExtension ==
  /\ ~registered /\ registered' = TRUE
  /\ UNCHANGED <<stage, jobs, infoVars, plugged, peers, putVars>>

(* The connections of a torrent with the plugin get upload_peer_plugin:    *)
(* nothing but its being there, as its callbacks are all comments.         *)
Connection(t, kind) == [kind |-> kind, plugin |-> t \in plugged /\ kind = "bittorrent"]

NewConnection(t, kind) ==
  /\ stage[t] = "running"
  /\ peers' = [peers EXCEPT ![t] = @ \cup {Connection(t, kind)}]
  /\ UNCHANGED <<stage, jobs, infoVars, registered, plugged, putVars>>

-----------------------------------------------------------------------------
(* dht_put_mutable_item, and dht_put_item_cb on the network thread once    *)
(* the engine has looked up the item that is stored.                       *)
SetData(o, d) ==
  /\ data' = [data EXCEPT ![o] = d]
  /\ UNCHANGED <<torrentVars, bound, seq, signed, sent, stored, overtaken>>

(* What an uninitialised pointer points to is any item, or none (or the    *)
(* process ends).                                                          *)
Dereferenced(o) == IF data[o] = NoItem THEN Items \cup {"junk"} ELSE {data[o]}

DhtPutMutableItem(o) ==
  /\ bound[o] = NoItem
  /\ \E d \in Dereferenced(o) : bound' = [bound EXCEPT ![o] = d]
  /\ UNCHANGED <<torrentVars, data, seq, signed, sent, stored, overtaken>>

LookedUp(o) ==
  /\ bound[o] # NoItem /\ seq[o] = NoSeq
  /\ seq' = [seq EXCEPT ![o] = stored.seq]
  /\ UNCHANGED <<torrentVars, data, bound, signed, sent, stored, overtaken>>

(* A fault: the operation is bound, not a copy of what it points to.       *)
SeesOperation(o) == data[o]

SeesCopy(o) == bound[o]

(* A fault: the item is signed with the number of the one it replaces.     *)
SignSameSeq(o) == signed' = [signed EXCEPT ![o] = SeesCopy(o)] /\ UNCHANGED seq

(* e = data, seq++.                                                        *)
Sign(o) ==
  /\ signed' = [signed EXCEPT ![o] = SeesCopy(o)]
  /\ seq' = [seq EXCEPT ![o] = @ + 1]

DhtPutItemCb(o) ==
  /\ seq[o] # NoSeq /\ signed[o] = NoItem
  /\ Sign(o)
  /\ UNCHANGED <<torrentVars, data, bound, sent, stored, overtaken>>

(* The nodes take an item with a number above that of the one they have.   *)
Store(item, number) ==
  IF number > stored.seq
  THEN /\ stored' = [data |-> item, seq |-> number]
       /\ overtaken' = overtaken \cup {o \in Puts : seq[o] # NoSeq /\ o \notin sent}
  ELSE UNCHANGED <<stored, overtaken>>

Send(o) ==
  /\ signed[o] # NoItem /\ o \notin sent
  /\ sent' = sent \cup {o}
  /\ Store(signed[o], seq[o])
  /\ UNCHANGED <<torrentVars, data, bound, seq, signed>>

OtherPut ==
  /\ stored.seq < MaxSeq
  /\ Store("other", stored.seq + 1)
  /\ UNCHANGED <<torrentVars, data, bound, seq, signed, sent>>

Next ==
  \/ \E t \in Torrents :
       \/ SetTorrentInfo(t) \/ AddTorrent(t) \/ Start(t)
       \/ StartJob(t) \/ EndJob(t) \/ RemoveTorrent(t)
       \/ TorrentFile(t) \/ DeleteTorrentFile(t)
       \/ DeleteAddTorrentParams(t) \/ DeleteTorrentInfo(t)
       \/ \E kind \in Kinds : NewConnection(t, kind)
  \/ AddUploadExtension
  \/ \E o \in Puts :
       \/ DhtPutMutableItem(o) \/ LookedUp(o) \/ DhtPutItemCb(o) \/ Send(o)
       \/ \E d \in Items : SetData(o, d)
  \/ OtherPut

Spec == Init /\ [][Next]_vars

-----------------------------------------------------------------------------
(* The torrent_info lives as long as the torrent that uses it, also after  *)
(* the torrent was removed with a disk job under way, and although the     *)
(* client deletes its params and its own torrent_info when it likes: its   *)
(* copy is nobody else's.  One deletion is not the client's to make, that  *)
(* of what torrent_file() points to.  The comment there says that the      *)
(* pointer comes with a reference of its own and is for the client to      *)
(* delete; it has none, and the torrent is left with a freed object.       *)
InfoLive(t) == IF ti[t] = "copy" THEN owners[t] # {} ELSE t \in own_info

InfoOutlivesTorrent == \A t \in Torrents : TorrentAlive(t) => InfoLive(t) \/ t \in freed

(* What a put leaves in the DHT is its data as they were at the call,      *)
(* although the client may change or delete them before the network thread *)
(* gets to the callback, and although there was an item under that key, as *)
(* long as nobody else's item is stored between the lookup and the store.  *)
PutIsStored ==
  [][\A o \in Puts : o \in sent' \ sent /\ o \notin overtaken => stored'.data = bound[o]]_vars
=============================================================================
