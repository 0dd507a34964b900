---------------------------- MODULE Session_proofs ----------------------------
(***************************************************************************)
(* Any number of puts to one key, of this client and of others: what they  *)
(* leave in the DHT.                                                       *)
(***************************************************************************)
EXTENDS Session, TLAPS

(* A put that nobody has overtaken knows the number of the stored item.    *)
PutInv ==
  /\ DOMAIN bound = Puts /\ DOMAIN signed = Puts
  /\ seq \in [Puts -> Nat \cup {NoSeq}] /\ stored.seq \in Nat
  /\ \A o \in Puts :
       /\ bound[o] = NoItem => seq[o] = NoSeq
       /\ seq[o] = NoSeq => signed[o] = NoItem
       /\ signed[o] # NoItem => signed[o] = bound[o]
       /\ o \notin sent \cup overtaken /\ seq[o] # NoSeq =>
            stored.seq = IF signed[o] = NoItem THEN seq[o] ELSE seq[o] - 1

LEMMA PutInit == Init => PutInv
BY DEF Init, PutInv, NoSeq

LEMMA StoreKeeps ==
  ASSUME PutInv, NEW item, NEW number \in Nat, Store(item, number), UNCHANGED <<bound, seq, signed>>,
         sent \subseteq sent'
  PROVE  PutInv'
<1>1. CASE number > stored.seq
  <2>1. stored'.seq = number /\ overtaken' = overtaken \cup {o \in Puts : seq[o] # NoSeq /\ o \notin sent}
    BY <1>1 DEF Store
  <2> QED BY <2>1 DEF PutInv
<1>2. CASE ~(number > stored.seq)
  BY <1>2 DEF Store, PutInv
<1> QED BY <1>1, <1>2

LEMMA PutStep == PutInv /\ [Next]_vars => PutInv'
<1> SUFFICES ASSUME PutInv, [Next]_vars PROVE PutInv'
  OBVIOUS
<1>1. CASE UNCHANGED <<bound, seq, signed, sent, stored, overtaken>>
  BY <1>1 DEF PutInv
<1>2. ASSUME NEW o \in Puts, DhtPutMutableItem(o) PROVE PutInv'
  BY <1>2 DEF PutInv, DhtPutMutableItem
<1>3. ASSUME NEW o \in Puts, LookedUp(o) PROVE PutInv'
  BY <1>3 DEF PutInv, LookedUp, NoSeq
<1>4. ASSUME NEW o \in Puts, DhtPutItemCb(o) PROVE PutInv'
  BY <1>4 DEF PutInv, DhtPutItemCb, Sign, SeesCopy, NoSeq
<1>5. ASSUME NEW o \in Puts, Send(o) PROVE PutInv'
  <2>1. seq[o] \in Nat
    BY <1>5 DEF PutInv, Send
  <2> QED BY <1>5, <2>1, StoreKeeps DEF Send
<1>6. CASE OtherPut
  <2>1. stored.seq + 1 \in Nat
    BY DEF PutInv
  <2> QED BY <1>6, <2>1, StoreKeeps DEF OtherPut
<1>7. ASSUME NEW o \in Puts, NEW d \in Items, SetData(o, d) PROVE PutInv'
  BY <1>1, <1>7 DEF SetData
<1>8. CASE AddUploadExtension
  BY <1>1, <1>8 DEF AddUploadExtension, putVars
<1>9. ASSUME NEW t \in Torrents,
              \/ SetTorrentInfo(t) \/ AddTorrent(t) \/ Start(t)
              \/ StartJob(t) \/ EndJob(t) \/ RemoveTorrent(t)
              \/ TorrentFile(t) \/ DeleteTorrentFile(t)
              \/ DeleteAddTorrentParams(t) \/ DeleteTorrentInfo(t)
       PROVE  PutInv'
  BY <1>1, <1>9 DEF SetTorrentInfo, AddTorrent, Start, StartJob, EndJob, RemoveTorrent,
    TorrentFile, DeleteTorrentFile, DeleteAddTorrentParams, DeleteTorrentInfo, putVars
<1>10. ASSUME NEW t \in Torrents, NEW kind \in Kinds, NewConnection(t, kind) PROVE PutInv'
  BY <1>1, <1>10 DEF NewConnection, putVars
<1>11. CASE UNCHANGED vars
  BY <1>1, <1>11 DEF vars, putVars
<1> QED
  BY <1>2, <1>3, <1>4, <1>5, <1>6, <1>7, <1>8, <1>9, <1>10, <1>11 DEF Next

(* Any number of puts, of this client and of others: one that was not      *)
(* overtaken leaves its data, as they were at the call, in the DHT.        *)
THEOREM PutsAreStored == Spec => PutIsStored
<1>1. ASSUME PutInv, NEW o \in Puts, Send(o), o \notin sent, o \notin overtaken
      PROVE  stored'.data = bound[o]
  <2>1. signed[o] = bound[o] /\ seq[o] > stored.seq
    BY <1>1 DEF PutInv, Send
  <2> QED BY <1>1, <2>1 DEF Send, Store
<1>2. ASSUME PutInv, [Next]_vars, NEW o \in Puts, o \in sent' \ sent, o \notin overtaken
      PROVE  Send(o)
  BY <1>2 DEF Next, vars, putVars, torrentVars, Send, SetTorrentInfo, AddTorrent, Start,
    StartJob, EndJob, RemoveTorrent, TorrentFile, DeleteTorrentFile, DeleteAddTorrentParams,
    DeleteTorrentInfo, NewConnection, AddUploadExtension, DhtPutMutableItem, LookedUp, DhtPutItemCb, SetData, OtherPut
<1>3. PutInv /\ [Next]_vars =>
        [\A o \in Puts : o \in sent' \ sent /\ o \notin overtaken => stored'.data = bound[o]]_vars
  BY <1>1, <1>2
<1> QED BY <1>3, PutInit, PutStep, PTL DEF Spec, PutIsStored
=============================================================================
