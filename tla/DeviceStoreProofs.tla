------------------------- MODULE DeviceStoreProofs --------------------------
(***************************************************************************)
(* Facts about the operators of Crypto and DeviceStore that the proofs     *)
(* about the two processes rest on.                                        *)
(***************************************************************************)
EXTENDS DeviceStore, TLAPS

\* Encrypt fills a credential column with a well-formed value.
LEMMA EncryptType ==
    ASSUME NEW k \in Keys, NEW text \in Plain
    PROVE  Encrypt(k, text) \in Cipher
BY DEF Encrypt, Cipher, Plain

\* Decrypting a column gives a plain text.
LEMMA DecryptType ==
    ASSUME NEW k, NEW c \in Cipher
    PROVE  Decrypt(k, c) \in Plain
BY DEF Decrypt, Cipher

\* What a key has sealed, the same key opens, the empty string included.
LEMMA EncryptOpens ==
    ASSUME NEW k, NEW text
    PROVE  /\ Decrypts(k, Encrypt(k, text))
           /\ Decrypt(k, Encrypt(k, text)) = text
BY DEF Encrypt, Decrypts, Decrypt

\* netutil.IsPublic is a Boolean.
LEMMA IsPublicType == \A ip : IsPublic(ip) \in BOOLEAN
BY SMT DEF IsPublic

\* Update's SET clause keeps a device well formed.
LEMMA SetColumnsType ==
    ASSUME NEW d \in Device, NEW u, IsUpdates(u)
    PROVE  SetColumns(d, u) \in Device
BY DEF SetColumns, Device, IsUpdates

\* ... and never touches the address: ip_address is not an allowed column.
LEMMA SetColumnsKeepsAddress ==
    ASSUME NEW d \in Device, NEW u
    PROVE  /\ SetColumns(d, u).ip = d.ip
           /\ SetColumns(d, u).is_public_ip = d.is_public_ip
           /\ SetColumns(d, u).discovered_via = d.discovered_via
BY DEF SetColumns, Device

\* DeviceStore.Create keeps the tables well formed.
LEMMA InsertType ==
    ASSUME StoreTypeOK, NEW d \in Device, CanInsert(d), Insert(d)
    PROVE  StoreTypeOK'
BY StoreAssumption DEF StoreTypeOK, CanInsert, Insert, NextId, Ids, Row

\* DeviceStore.Update keeps the tables well formed.
LEMMA UpdateType ==
    ASSUME StoreTypeOK, NEW id, NEW u, IsUpdates(u), Update(id, u)
    PROVE  StoreTypeOK'
<1>1. ASSUME NEW r \in devices
      PROVE  (IF r.id = id THEN [r EXCEPT !.d = SetColumns(r.d, u)] ELSE r) \in Row
  <2>1. r \in Row /\ r.d \in Device
    BY DEF StoreTypeOK, Row
  <2>2. SetColumns(r.d, u) \in Device
    BY <2>1, SetColumnsType
  <2> QED
    BY <2>1, <2>2 DEF Row
<1> QED
  BY <1>1 DEF StoreTypeOK, Update

\* DeviceStore.Delete keeps the tables well formed.
LEMMA RemoveType ==
    ASSUME StoreTypeOK, NEW id, Remove(id)
    PROVE  StoreTypeOK'
BY DEF StoreTypeOK, Remove

\* A map with a status only is a well-formed argument of Update.
LEMMA StatusUpdates ==
    ASSUME NEW status \in Statuses
    PROVE  IsUpdates([status |-> status])
BY DEF IsUpdates
=============================================================================
