---------------------------- MODULE CommandProofs ----------------------------
(***************************************************************************)
(* Proofs about the commands and interfaces that change what the node      *)
(* keeps, or read it for a client: the key store, the address lists, the   *)
(* mounted file systems, the resource manager, `cat` with the RPC client's *)
(* files and directories, the config profiles, and `refs`.  Every section  *)
(* is about one part: its inductive invariant, a lemma for every group of  *)
(* actions, and the theorem that the property the runs check holds for     *)
(* every value of the constants.                                           *)
(***************************************************************************)
EXTENDS KeyStore, AddrLists, FuseFS, RefsWalk, ResourceLimits, ApiFile, ConfigProfiles, Induction, FiniteSetTheorems, TLAPS

-----------------------------------------------------------------------------
(***************************************************************************)
(* The key store.                                                          *)
(*                                                                         *)
(* `key rename` gives a key its second name before it deletes the first,   *)
(* and deletes that name whatever key has it by then.  Several renames of  *)
(* one key may wait to delete, and each of its names may be one of those   *)
(* they will delete: what saves the key is a count.  Every rename that     *)
(* waits has added a name, so a key has more names than renames that wait  *)
(* to delete one.                                                          *)
(***************************************************************************)
KeyOps == {"idle", "put", "rmNext", "rm", "has", "overwrite", "renamePut", "renameDelete", "list", "lookup", "sign"}
Renaming == {"has", "overwrite", "renamePut", "renameDelete"}
KeyCmdSet == [op : KeyOps, name : Names \union {NoName}, to : Names \union {NoName}, key : Nat, left : SUBSET Names]

KeyTypes ==
  /\ made \in Nat \ {0} /\ identity \in 1 .. made /\ loaded \in Nat /\ dropped \subseteq Nat
  /\ ks \in [Names -> 0 .. made]
  /\ kcmd \in [KeyCmds -> KeyCmdSet]
  /\ holder \in {"none", "daemon", "rotate"}

\* What the commands have in hand.
KeyCmdInv ==
  \A c \in KeyCmds :
    /\ kcmd[c].key <= made
    /\ kcmd[c].op \in {"put", "rm"} => kcmd[c].name \in KeyNames
    /\ kcmd[c].op \in Renaming =>
         kcmd[c].name \in KeyNames /\ kcmd[c].to \in KeyNames /\ kcmd[c].name # kcmd[c].to /\ kcmd[c].key > 0

\* The names a key has, and the renames of it that have still to delete one.
NamesOf(k) == {n \in Names : ks[n] = k}
Deleting(k) == {c \in KeyCmds : kcmd[c].op = "renameDelete" /\ kcmd[c].key = k}

\* The names a key has beyond those that will be deleted: one, unless the config
\* still has the key.
SpareNames(k) == IF k = identity /\ holder # "rotate" THEN 0 ELSE 1
Enough(k) == Cardinality(NamesOf(k)) >= Cardinality(Deleting(k)) + SpareNames(k)
KeyCountInv == \A k \in 1 .. made : k \notin dropped => Enough(k)

SelfInv == ks["self"] = NoKey /\ (holder = "daemon" => loaded = identity)

KeyInv == KeyTypes /\ KeyCmdInv /\ KeyCountInv /\ SelfInv

\* Key files and commands in progress are finitely many, and so are the names of a
\* key and the renames of it.
LEMMA KeyFinite ==
  /\ \A S : S \subseteq Names => IsFiniteSet(S) /\ Cardinality(S) \in Nat
  /\ \A S : S \subseteq KeyCmds => IsFiniteSet(S) /\ Cardinality(S) \in Nat
<1>1. IsFiniteSet(Names)
  <2>1. IsFiniteSet({"self"})
    BY FS_Singleton
  <2> QED BY <2>1, FS_Union, KeyConstants DEF Names
<1> QED BY <1>1, FS_Subset, FS_CardinalityType, KeyConstants

\* A key that keeps its names, and of which no further rename waits, has enough.
LEMMA EnoughKept ==
  ASSUME NEW k, Enough(k), NamesOf(k) \subseteq NamesOf(k)', Deleting(k)' \subseteq Deleting(k),
         SpareNames(k)' <= SpareNames(k)
  PROVE  Enough(k)'
<1> DEFINE n == Cardinality(NamesOf(k))  m == Cardinality(NamesOf(k)')
           d == Cardinality(Deleting(k)) e == Cardinality(Deleting(k)')
<1>1. n <= m /\ n \in Nat /\ m \in Nat
  <2>1. NamesOf(k) \subseteq Names /\ NamesOf(k)' \subseteq Names
    BY DEF NamesOf
  <2> QED BY <2>1, FS_Subset, KeyFinite
<1>2. e <= d /\ e \in Nat /\ d \in Nat
  <2>1. Deleting(k) \subseteq KeyCmds /\ Deleting(k)' \subseteq KeyCmds
    BY DEF Deleting
  <2> QED BY <2>1, FS_Subset, KeyFinite
<1>3. SpareNames(k) \in Nat /\ SpareNames(k)' \in Nat
  BY DEF SpareNames
<1>4. n >= d + SpareNames(k)
  BY DEF Enough
<1>5. m >= e + SpareNames(k)'
  <2> HIDE DEF n, m, d, e
  <2> QED BY <1>1, <1>2, <1>3, <1>4
<1> QED BY <1>5 DEF Enough

\* What a command may become without touching the store.
Harmless(r) ==
  /\ r \in KeyCmdSet /\ r.key <= made /\ r.op # "renameDelete"
  /\ r.op \in {"put", "rm"} => r.name \in KeyNames
  /\ r.op \in Renaming => r.name \in KeyNames /\ r.to \in KeyNames /\ r.name # r.to /\ r.key > 0

\* The steps that only read the store: the checks of gen, import and rename, the
\* lookups of list, rm and name publish.
LEMMA KeyReads ==
  ASSUME KeyInv, NEW c \in KeyCmds, NEW r, Harmless(r), Become(c, r), StoreAsIs
  PROVE  KeyInv'
<1> USE DEF KeyInv
<1>1. KeyTypes'
  BY DEF KeyTypes, Become, StoreAsIs, Harmless
<1>2. KeyCmdInv'
  BY DEF KeyTypes, KeyCmdInv, Become, StoreAsIs, Harmless
<1>3. KeyCountInv'
  <2> SUFFICES ASSUME NEW k \in 1 .. made, k \notin dropped
               PROVE  Enough(k)'
    BY DEF KeyCountInv, StoreAsIs
  <2>1. NamesOf(k)' = NamesOf(k) /\ SpareNames(k)' = SpareNames(k) /\ SpareNames(k) \in Nat
    BY DEF NamesOf, SpareNames, StoreAsIs
  <2>2. Deleting(k)' \subseteq Deleting(k)
    BY DEF Deleting, KeyTypes, Become, Harmless
  <2> QED BY <2>1, <2>2, EnoughKept DEF KeyCountInv
<1>4. SelfInv'
  BY DEF SelfInv, StoreAsIs
<1> QED BY <1>1, <1>2, <1>3, <1>4

\* The command at rest is harmless.
LEMMA IdleHarmless == KeyTypes => Harmless(IdleKeyCmd)
<1>1. IdleKeyCmd \in KeyCmdSet
  BY DEF IdleKeyCmd, KeyCmdSet, KeyOps, NoKey
<1>2. IdleKeyCmd.op = "idle" /\ IdleKeyCmd.key = 0
  BY DEF IdleKeyCmd, NoKey
<1> QED BY <1>1, <1>2 DEF KeyTypes, Harmless, Renaming

LEMMA KeyReadSteps ==
  ASSUME KeyInv, NEW c \in KeyCmds,
         \/ KeyRmGet(c) \/ KeyRenameHas(c) \/ KeyListGet(c) \/ KeyLookupGet(c) \/ NamePublish(c) \/ KeyList(c)
         \/ \E n \in Names : KeyGenCheck(c, n) \/ KeyImportCheck(c, n)
         \/ \E names \in SUBSET Names : KeyRmCmd(c, names)
         \/ \E n, to \in Names, force \in BOOLEAN : KeyRenameGet(c, n, to, force)
         \/ \E k \in 1 .. made : KeyLookup(c, k)
  PROVE  KeyInv'
<1> USE DEF KeyInv
<1>0. kcmd[c] \in KeyCmdSet
  BY DEF KeyTypes
<1>i. Harmless(IdleKeyCmd)
  BY IdleHarmless
<1>c. /\ kcmd[c].key <= made
      /\ kcmd[c].op \in Renaming =>
           kcmd[c].name \in KeyNames /\ kcmd[c].to \in KeyNames /\ kcmd[c].name # kcmd[c].to /\ kcmd[c].key > 0
  BY DEF KeyCmdInv
<1>1. CASE KeyRmGet(c)
  <2>1. CASE Finish(c)
    BY Zenon, <1>1, <2>1, <1>i, KeyReads DEF Finish, KeyRmGet
  <2>2. CASE \E n \in kcmd[c].left : n # "self" /\ Become(c, [kcmd[c] EXCEPT !.op = "rm", !.name = n, !.left = @ \ {n}])
    <3>1. PICK n \in kcmd[c].left : n # "self" /\ Become(c, [kcmd[c] EXCEPT !.op = "rm", !.name = n, !.left = @ \ {n}])
      BY Zenon, <2>2
    <3>2. Harmless([kcmd[c] EXCEPT !.op = "rm", !.name = n, !.left = @ \ {n}])
      BY <1>0, <1>c, <3>1 DEF Harmless, KeyCmdSet, KeyOps, Renaming, Names
    <3> QED BY Zenon, <1>1, <3>1, <3>2, KeyReads DEF KeyRmGet
  <2> QED BY Zenon, <1>1, <2>1, <2>2 DEF KeyRmGet
<1>2. CASE KeyRenameHas(c)
  <2> DEFINE r == [kcmd[c] EXCEPT !.op = IF ks[kcmd[c].to] = NoKey THEN "renamePut" ELSE "overwrite"]
  <2>1. kcmd[c].op = "has"
    BY <1>2 DEF KeyRenameHas, At
  <2>2. Harmless(r)
    BY <1>0, <1>c, <2>1 DEF Harmless, KeyCmdSet, KeyOps, Renaming
  <2> QED BY <1>2, <2>2, KeyReads DEF KeyRenameHas
<1>3. CASE KeyListGet(c)
  <2>1. CASE Finish(c)
    BY <1>3, <2>1, <1>i, KeyReads DEF Finish, KeyListGet
  <2>2. CASE \E n \in kcmd[c].left : Become(c, [kcmd[c] EXCEPT !.left = @ \ {n}])
    <3>1. PICK n \in kcmd[c].left : Become(c, [kcmd[c] EXCEPT !.left = @ \ {n}])
      BY <2>2
    <3>2. kcmd[c].op = "list"
      BY <1>3 DEF KeyListGet, At
    <3>3. Harmless([kcmd[c] EXCEPT !.left = @ \ {n}])
      BY <1>0, <1>c, <3>2 DEF Harmless, KeyCmdSet, KeyOps, Renaming
    <3> QED BY <1>3, <3>1, <3>3, KeyReads DEF KeyListGet
  <2> QED BY <1>3, <2>1, <2>2 DEF KeyListGet
<1>4. CASE KeyLookupGet(c)
  <2>0. kcmd[c].op = "lookup"
    BY <1>4 DEF KeyLookupGet, At
  <2>1. CASE Finish(c)
    BY <1>4, <2>1, <1>i, KeyReads DEF Finish, KeyLookupGet
  <2>2. CASE Become(c, [kcmd[c] EXCEPT !.op = "sign", !.left = {}])
    <3>1. Harmless([kcmd[c] EXCEPT !.op = "sign", !.left = {}])
      BY <1>0, <1>c DEF Harmless, KeyCmdSet, KeyOps, Renaming
    <3> QED BY <1>4, <2>2, <3>1, KeyReads DEF KeyLookupGet
  <2>3. CASE \E n \in kcmd[c].left : Become(c, [kcmd[c] EXCEPT !.left = @ \ {n}])
    <3>1. PICK n \in kcmd[c].left : Become(c, [kcmd[c] EXCEPT !.left = @ \ {n}])
      BY <2>3
    <3>2. Harmless([kcmd[c] EXCEPT !.left = @ \ {n}])
      BY <1>0, <1>c, <2>0 DEF Harmless, KeyCmdSet, KeyOps, Renaming
    <3> QED BY <1>4, <3>1, <3>2, KeyReads DEF KeyLookupGet
  <2> QED BY <1>4, <2>1, <2>2, <2>3 DEF KeyLookupGet
<1>5. CASE NamePublish(c)
  BY <1>5, <1>i, KeyReads DEF NamePublish, Finish
<1>6. CASE KeyList(c)
  <2> DEFINE r == [IdleKeyCmd EXCEPT !.op = "list", !.left = {n \in KeyNames : ks[n] # NoKey}]
  <2>1. {n \in KeyNames : ks[n] # NoKey} \in SUBSET Names
    BY DEF Names
  <2>2. r \in KeyCmdSet /\ r.op = "list" /\ r.key = 0
    BY Zenon, <2>1 DEF IdleKeyCmd, KeyCmdSet, KeyOps, NoKey
  <2>3. Harmless(r)
    BY <2>2 DEF Harmless, Renaming, KeyTypes
  <2> QED BY <1>6, <2>3, KeyReads DEF KeyList
<1>7. CASE \E n \in Names : KeyGenCheck(c, n) \/ KeyImportCheck(c, n)
  <2>1. PICK n \in Names : KeyGenCheck(c, n) \/ KeyImportCheck(c, n)
    BY <1>7
  <2> DEFINE r == [IdleKeyCmd EXCEPT !.op = "put", !.name = n]
  <2>2. r \in KeyCmdSet /\ r.op = "put" /\ r.key = 0 /\ r.name = n
    BY DEF IdleKeyCmd, KeyCmdSet, KeyOps, NoKey
  <2>3. n \in KeyNames
    BY Zenon, <2>1 DEF Names, KeyGenCheck, KeyImportCheck
  <2>4. Harmless(r)
    BY <2>2, <2>3 DEF Harmless, Renaming, KeyTypes
  <2> QED BY Zenon, <2>1, <2>4, KeyReads DEF KeyGenCheck, KeyImportCheck
<1>8. CASE \E names \in SUBSET Names : KeyRmCmd(c, names)
  <2>1. PICK names \in SUBSET Names : KeyRmCmd(c, names)
    BY <1>8
  <2> DEFINE r == [IdleKeyCmd EXCEPT !.op = "rmNext", !.left = names]
  <2>2. r \in KeyCmdSet /\ r.op = "rmNext" /\ r.key = 0
    BY DEF IdleKeyCmd, KeyCmdSet, KeyOps, NoKey
  <2>3. Harmless(r)
    BY <2>2 DEF Harmless, Renaming, KeyTypes
  <2> QED BY Zenon, <2>1, <2>3, KeyReads DEF KeyRmCmd
<1>9. CASE \E n, to \in Names, force \in BOOLEAN : KeyRenameGet(c, n, to, force)
  <2>1. PICK n \in Names, to \in Names, force \in BOOLEAN : KeyRenameGet(c, n, to, force)
    BY <1>9
  <2> DEFINE o == IF force THEN "has" ELSE "renamePut"
             r == [IdleKeyCmd EXCEPT !.op = o, !.name = n, !.to = to, !.key = ks[n]]
  <2>2. n \in KeyNames /\ to \in KeyNames /\ n # to
    BY Zenon, <2>1 DEF KeyRenameGet, Names
  <2>3. ks[n] \in 0 .. made /\ ks[n] # 0 /\ made \in Nat
    BY Zenon, <2>1 DEF KeyRenameGet, KeyTypes, NoKey
  <2>o. o \in {"has", "renamePut"}
    OBVIOUS
  <2>4. r \in KeyCmdSet /\ r.op = o /\ r.key = ks[n] /\ r.name = n /\ r.to = to
    <3> DEFINE k == ks[n]
    <3>1. k \in Nat /\ n \in Names /\ to \in Names /\ o \in KeyOps
      BY <2>3, <2>o DEF KeyOps
    <3> HIDE DEF o, k
    <3>2. [IdleKeyCmd EXCEPT !.op = o, !.name = n, !.to = to, !.key = k] \in KeyCmdSet
      BY <3>1 DEF IdleKeyCmd, KeyCmdSet
    <3>3. /\ [IdleKeyCmd EXCEPT !.op = o, !.name = n, !.to = to, !.key = k].op = o
          /\ [IdleKeyCmd EXCEPT !.op = o, !.name = n, !.to = to, !.key = k].name = n
          /\ [IdleKeyCmd EXCEPT !.op = o, !.name = n, !.to = to, !.key = k].to = to
          /\ [IdleKeyCmd EXCEPT !.op = o, !.name = n, !.to = to, !.key = k].key = k
      BY DEF IdleKeyCmd
    <3> QED BY <3>2, <3>3 DEF k
  <2>5. Harmless(r)
    BY <2>2, <2>3, <2>4, <2>o DEF Harmless, Renaming
  <2> QED BY Zenon, <2>1, <2>5, KeyReads DEF KeyRenameGet
<1>10. CASE \E k \in 1 .. made : KeyLookup(c, k)
  <2>1. PICK k \in 1 .. made : KeyLookup(c, k)
    BY <1>10
  <2> DEFINE r == [IdleKeyCmd EXCEPT !.op = "sign", !.key = k]
             s == [IdleKeyCmd EXCEPT !.op = "lookup", !.key = k, !.left = {n \in KeyNames : ks[n] # NoKey}]
  <2>2. {n \in KeyNames : ks[n] # NoKey} \in SUBSET Names
    BY DEF Names
  <2>3. k \in Nat /\ k <= made
    BY DEF KeyTypes
  <2>4. /\ r \in KeyCmdSet /\ r.op = "sign" /\ r.key = k
        /\ s \in KeyCmdSet /\ s.op = "lookup" /\ s.key = k
    BY Zenon, <2>2, <2>3 DEF IdleKeyCmd, KeyCmdSet, KeyOps, NoKey
  <2>5. Harmless(r)
    BY <2>3, <2>4 DEF Harmless, Renaming
  <2>6. Harmless(s)
    BY <2>3, <2>4 DEF Harmless, Renaming
  <2> QED BY Zenon, <2>1, <2>5, <2>6, KeyReads DEF KeyLookup
<1> QED BY <1>1, <1>2, <1>3, <1>4, <1>5, <1>6, <1>7, <1>8, <1>9, <1>10

\* key gen and import write a key under a name that is free at that moment.
LEMMA KeyGenPutStep ==
  ASSUME KeyInv, NEW c \in KeyCmds, KeyGenPut(c)
  PROVE  KeyInv'
<1> USE DEF KeyInv
<1>i. Harmless(IdleKeyCmd)
  BY IdleHarmless
<1>1. CASE ks[kcmd[c].name] # NoKey
  BY <1>1, <1>i, KeyReads DEF KeyGenPut, Finish, StoreAsIs
<1>2. CASE ks[kcmd[c].name] = NoKey
  <2> DEFINE n == kcmd[c].name
  <2>1. /\ made' = made + 1 /\ ks' = [ks EXCEPT ![n] = made + 1] /\ ks[n] = 0
        /\ UNCHANGED <<identity, loaded, holder, dropped>>
    BY <1>2 DEF KeyGenPut, NoKey
  <2>2. kcmd' = [kcmd EXCEPT ![c] = IdleKeyCmd]
    BY DEF KeyGenPut, Finish, Become
  <2>3. n \in KeyNames /\ n \in Names
    BY DEF KeyGenPut, At, KeyCmdInv, Names
  <2>4. made \in Nat /\ ks \in [Names -> 0 .. made]
    BY DEF KeyTypes
  <2>5. KeyTypes'
    <3>1. ks' \in [Names -> 0 .. made']
      BY <2>1, <2>3, <2>4
    <3>2. kcmd' \in [KeyCmds -> KeyCmdSet]
      BY <2>2, <1>i DEF KeyTypes, Harmless
    <3> QED BY <3>1, <3>2, <2>1 DEF KeyTypes
  <2>6. KeyCmdInv'
    <3>1. \A d \in KeyCmds : kcmd'[d] = kcmd[d] \/ kcmd'[d] = IdleKeyCmd
      BY <2>2 DEF KeyTypes
    <3>2. \A d \in KeyCmds : kcmd[d].key \in Nat
      BY DEF KeyTypes, KeyCmdSet
    <3> QED BY <3>1, <3>2, <1>i, <2>1, <2>4 DEF KeyCmdInv, Harmless, KeyCmdSet
  <2>7. KeyCountInv'
    <3> SUFFICES ASSUME NEW k \in 1 .. made + 1, k \notin dropped
                 PROVE  Enough(k)'
      BY <2>1 DEF KeyCountInv
    <3>1. CASE k <= made
      <4>0. k \in 1 .. made
        BY <3>1, <2>4
      <4>1. NamesOf(k) \subseteq NamesOf(k)'
        BY <2>1, <2>3, <2>4 DEF NamesOf
      <4>2. Deleting(k)' \subseteq Deleting(k)
        BY <2>2, <1>i DEF Deleting, KeyTypes, Harmless
      <4>3. SpareNames(k)' = SpareNames(k) /\ SpareNames(k) \in Nat
        BY <2>1 DEF SpareNames
      <4> QED BY <4>0, <4>1, <4>2, <4>3, EnoughKept DEF KeyCountInv
    <3>2. CASE k = made + 1
      <4>1. NamesOf(k)' = {n}
        BY <3>2, <2>1, <2>3, <2>4 DEF NamesOf
      <4>2. Deleting(k)' = {}
        <5>1. \A d \in KeyCmds : kcmd'[d].key # k \/ kcmd'[d].op = "idle"
          BY <3>2, <2>2, <2>4 DEF KeyCmdInv, KeyTypes, KeyCmdSet, IdleKeyCmd
        <5> QED BY <5>1 DEF Deleting
      <4>3. SpareNames(k)' \in {0, 1}
        BY DEF SpareNames
      <4>4. Cardinality({n}) = 1 /\ Cardinality({}) = 0
        BY FS_Singleton, FS_EmptySet
      <4> HIDE DEF n
      <4> QED BY <4>1, <4>2, <4>3, <4>4 DEF Enough
    <3> QED BY <3>1, <3>2, <2>4
  <2>8. SelfInv'
    BY <2>1, <2>3, <2>4, KeyConstants DEF SelfInv, Names
  <2> QED BY <2>5, <2>6, <2>7, <2>8
<1> QED BY <1>1, <1>2

\* The steps that take a name from its key on purpose: key rm, and rename --force of
\* the name in the way.
LEMMA KeyForget ==
  ASSUME KeyInv, NEW c \in KeyCmds, NEW r, Harmless(r), Become(c, r), NEW n \in KeyNames,
         dropped' = dropped \union ({ks[n]} \ {NoKey}), ks' = [ks EXCEPT ![n] = NoKey],
         UNCHANGED <<identity, loaded, holder, made>>
  PROVE  KeyInv'
<1> USE DEF KeyInv
<1>0. n \in Names /\ n # "self" /\ made \in Nat /\ ks \in [Names -> 0 .. made]
  BY KeyConstants DEF Names, KeyTypes
<1>1. KeyTypes'
  <2>1. ks' \in [Names -> 0 .. made]
    BY <1>0 DEF NoKey
  <2>2. dropped' \subseteq Nat
    <3>1. ks[n] \in Nat /\ dropped \subseteq Nat
      BY <1>0 DEF KeyTypes
    <3> QED BY <3>1
  <2>3. kcmd' \in [KeyCmds -> KeyCmdSet]
    BY DEF KeyTypes, Become, Harmless
  <2> QED BY <2>1, <2>2, <2>3 DEF KeyTypes
<1>2. KeyCmdInv'
  BY DEF KeyTypes, KeyCmdInv, Become, Harmless
<1>3. KeyCountInv'
  <2> SUFFICES ASSUME NEW k \in 1 .. made, k \notin dropped'
               PROVE  Enough(k)'
    BY DEF KeyCountInv
  <2>1. k \notin dropped /\ ks[n] # k
    BY DEF NoKey
  <2>2. NamesOf(k) \subseteq NamesOf(k)'
    BY <1>0, <2>1 DEF NamesOf
  <2>3. Deleting(k)' \subseteq Deleting(k)
    BY DEF Deleting, KeyTypes, Become, Harmless
  <2>4. SpareNames(k)' = SpareNames(k) /\ SpareNames(k) \in Nat
    BY DEF SpareNames
  <2> QED BY <2>1, <2>2, <2>3, <2>4, EnoughKept DEF KeyCountInv
<1>4. SelfInv'
  BY <1>0 DEF SelfInv
<1> QED BY <1>1, <1>2, <1>3, <1>4

LEMMA KeyForgetSteps ==
  ASSUME KeyInv, NEW c \in KeyCmds, KeyRmDelete(c) \/ KeyRenameOverwrite(c)
  PROVE  KeyInv'
<1> USE DEF KeyInv
<1>0. kcmd[c] \in KeyCmdSet
  BY DEF KeyTypes
<1>i. Harmless(IdleKeyCmd)
  BY IdleHarmless
<1>c. /\ kcmd[c].key <= made
      /\ kcmd[c].op \in {"put", "rm"} => kcmd[c].name \in KeyNames
      /\ kcmd[c].op \in Renaming =>
           kcmd[c].name \in KeyNames /\ kcmd[c].to \in KeyNames /\ kcmd[c].name # kcmd[c].to /\ kcmd[c].key > 0
  BY DEF KeyCmdInv
<1>1. CASE KeyRmDelete(c)
  <2> DEFINE r == [kcmd[c] EXCEPT !.op = "rmNext", !.name = NoName]
  <2>1. kcmd[c].name \in KeyNames
    BY <1>1, <1>c DEF KeyRmDelete, At
  <2>2. Harmless(r)
    BY <1>0, <1>c DEF Harmless, KeyCmdSet, KeyOps, Renaming
  <2>3. Become(c, r) \/ Become(c, IdleKeyCmd)
    BY <1>1 DEF KeyRmDelete, Finish
  <2> QED BY <1>1, <1>i, <2>1, <2>2, <2>3, KeyForget DEF KeyRmDelete
<1>2. CASE KeyRenameOverwrite(c)
  <2> DEFINE r == [kcmd[c] EXCEPT !.op = "renamePut"]
  <2>1. kcmd[c].op \in Renaming
    BY <1>2 DEF KeyRenameOverwrite, At, Renaming
  <2>2. Harmless(r)
    BY <1>0, <1>c, <2>1 DEF Harmless, KeyCmdSet, KeyOps, Renaming
  <2>3. Become(c, r) \/ Become(c, IdleKeyCmd)
    BY <1>2 DEF KeyRenameOverwrite, Finish
  <2> QED BY <1>2, <1>i, <1>c, <2>1, <2>2, <2>3, KeyForget DEF KeyRenameOverwrite
<1> QED BY <1>1, <1>2

\* rename gives the key a second name: it has one more, and one more rename waits.
LEMMA KeyRenamePutStep ==
  ASSUME KeyInv, NEW c \in KeyCmds, KeyRenamePut(c)
  PROVE  KeyInv'
<1> USE DEF KeyInv
<1>i. Harmless(IdleKeyCmd)
  BY IdleHarmless
<1>0. kcmd[c] \in KeyCmdSet /\ kcmd[c].op = "renamePut"
  BY DEF KeyTypes, KeyRenamePut, At
<1>1. CASE ks[kcmd[c].to] # NoKey
  BY <1>1, <1>i, KeyReads DEF KeyRenamePut, Finish, StoreAsIs
<1>2. CASE ks[kcmd[c].to] = NoKey
  <2> DEFINE to == kcmd[c].to
             key == kcmd[c].key
             r == [kcmd[c] EXCEPT !.op = "renameDelete"]
  <2>1. /\ ks' = [ks EXCEPT ![to] = key] /\ ks[to] = 0 /\ kcmd' = [kcmd EXCEPT ![c] = r]
        /\ UNCHANGED <<identity, loaded, holder, made, dropped>>
    BY <1>2 DEF KeyRenamePut, Become, NoKey
  <2>2. to \in KeyNames /\ kcmd[c].name \in KeyNames /\ kcmd[c].name # to /\ key \in 1 .. made
    BY <1>0 DEF KeyCmdInv, Renaming, KeyTypes, KeyCmdSet
  <2>3. to \in Names /\ to # "self" /\ made \in Nat /\ ks \in [Names -> 0 .. made]
    BY <2>2, KeyConstants DEF Names, KeyTypes
  <2>4. /\ r \in KeyCmdSet /\ r.op = "renameDelete" /\ r.key = key /\ r.to = to /\ r.name = kcmd[c].name
    BY <1>0 DEF KeyCmdSet, KeyOps
  <2>5. KeyTypes'
    <3>1. ks' \in [Names -> 0 .. made]
      BY <2>1, <2>2, <2>3
    <3>2. kcmd' \in [KeyCmds -> KeyCmdSet]
      BY <2>1, <2>4 DEF KeyTypes
    <3> QED BY <2>1, <3>1, <3>2 DEF KeyTypes
  <2>6. KeyCmdInv'
    <3> SUFFICES ASSUME NEW d \in KeyCmds
                 PROVE  /\ kcmd'[d].key <= made
                        /\ kcmd'[d].op \in {"put", "rm"} => kcmd'[d].name \in KeyNames
                        /\ kcmd'[d].op \in Renaming =>
                             kcmd'[d].name \in KeyNames /\ kcmd'[d].to \in KeyNames /\ kcmd'[d].name # kcmd'[d].to /\ kcmd'[d].key > 0
      BY <2>1 DEF KeyCmdInv
    <3>1. CASE d = c
      <4>1. kcmd'[d] = r
        BY <3>1, <2>1 DEF KeyTypes
      <4> HIDE DEF r
      <4> QED BY <4>1, <2>2, <2>4 DEF Renaming
    <3>2. CASE d # c
      <4>1. kcmd'[d] = kcmd[d]
        BY <3>2, <2>1 DEF KeyTypes
      <4> QED BY <4>1 DEF KeyCmdInv
    <3> QED BY <3>1, <3>2
  <2>7. KeyCountInv'
    <3> SUFFICES ASSUME NEW k \in 1 .. made, k \notin dropped
                 PROVE  Enough(k)'
      BY <2>1 DEF KeyCountInv
    <3>0. SpareNames(k)' = SpareNames(k) /\ SpareNames(k) \in Nat
      BY <2>1 DEF SpareNames
    <3>e. Enough(k)
      BY DEF KeyCountInv
    <3>1. CASE k # key
      <4>1. NamesOf(k) \subseteq NamesOf(k)'
        BY <2>1, <2>2, <2>3 DEF NamesOf
      <4>2. Deleting(k)' \subseteq Deleting(k)
        <5>1. \A d \in KeyCmds : d # c => kcmd'[d] = kcmd[d]
          BY <2>1 DEF KeyTypes
        <5>2. kcmd'[c] = r
          BY <2>1 DEF KeyTypes
        <5> HIDE DEF r
        <5> QED BY <5>1, <5>2, <3>1, <2>4 DEF Deleting
      <4> QED BY <3>0, <3>e, <4>1, <4>2, EnoughKept
    <3>2. CASE k = key
      <4>1. NamesOf(k)' = NamesOf(k) \union {to} /\ to \notin NamesOf(k)
        BY <3>2, <2>1, <2>2, <2>3 DEF NamesOf
      <4>2. Deleting(k)' = Deleting(k) \union {c} /\ c \notin Deleting(k)
        <5>1. \A d \in KeyCmds : d # c => kcmd'[d] = kcmd[d]
          BY <2>1 DEF KeyTypes
        <5>2. kcmd'[c] = r
          BY <2>1 DEF KeyTypes
        <5>3. c \notin Deleting(k)
          BY <1>0 DEF Deleting
        <5> HIDE DEF r
        <5> QED BY <5>1, <5>2, <5>3, <3>2, <2>4 DEF Deleting
      <4>3. /\ IsFiniteSet(NamesOf(k)) /\ Cardinality(NamesOf(k)) \in Nat
            /\ IsFiniteSet(Deleting(k)) /\ Cardinality(Deleting(k)) \in Nat
        <5>1. NamesOf(k) \subseteq Names /\ Deleting(k) \subseteq KeyCmds
          BY DEF NamesOf, Deleting
        <5> QED BY <5>1, KeyFinite
      <4>4. Cardinality(NamesOf(k)') = Cardinality(NamesOf(k)) + 1
        BY <4>1, <4>3, FS_AddElement
      <4>5. Cardinality(Deleting(k)') = Cardinality(Deleting(k)) + 1
        BY <4>2, <4>3, FS_AddElement
      <4> QED BY <3>0, <3>e, <4>3, <4>4, <4>5 DEF Enough
    <3> QED BY <3>1, <3>2
  <2>8. SelfInv'
    BY <2>1, <2>3 DEF SelfInv
  <2> QED BY <2>5, <2>6, <2>7, <2>8
<1> QED BY <1>1, <1>2

\* rename deletes the old name.  When its own key still has it, that is one name
\* and one waiting rename less; a key that took the name meanwhile counts as
\* overwritten.
LEMMA KeyRenameDeleteStep ==
  ASSUME KeyInv, NEW c \in KeyCmds, KeyRenameDelete(c)
  PROVE  KeyInv'
<1> USE DEF KeyInv
<1> DEFINE n == kcmd[c].name
           key == kcmd[c].key
<1>i. Harmless(IdleKeyCmd)
  BY IdleHarmless
<1>0. kcmd[c] \in KeyCmdSet /\ kcmd[c].op = "renameDelete"
  BY DEF KeyTypes, KeyRenameDelete, At
<1>1. /\ dropped' = dropped \union ({ks[n]} \ {NoKey, key}) /\ ks' = [ks EXCEPT ![n] = NoKey]
      /\ kcmd' = [kcmd EXCEPT ![c] = IdleKeyCmd] /\ UNCHANGED <<identity, loaded, holder, made>>
  BY DEF KeyRenameDelete, Finish, Become
<1>2. n \in KeyNames /\ key \in 1 .. made
  BY <1>0 DEF KeyCmdInv, Renaming, KeyTypes, KeyCmdSet
<1>3. n \in Names /\ n # "self" /\ made \in Nat /\ ks \in [Names -> 0 .. made] /\ dropped \subseteq Nat /\ ks[n] \in Nat
  BY <1>2, KeyConstants DEF Names, KeyTypes
<1>4. KeyTypes'
  <2>1. ks' \in [Names -> 0 .. made]
    BY <1>1, <1>3 DEF NoKey
  <2>2. dropped' \subseteq Nat
    BY <1>1, <1>3
  <2>3. kcmd' \in [KeyCmds -> KeyCmdSet]
    BY <1>1, <1>i DEF KeyTypes, Harmless
  <2> QED BY <1>1, <2>1, <2>2, <2>3 DEF KeyTypes
<1>5. KeyCmdInv'
  BY <1>1, <1>i DEF KeyTypes, KeyCmdInv, Harmless
<1>6. KeyCountInv'
  <2> SUFFICES ASSUME NEW k \in 1 .. made, k \notin dropped'
               PROVE  Enough(k)'
    BY <1>1 DEF KeyCountInv
  <2>1. k \notin dropped /\ (ks[n] = k => k = key)
    BY <1>1 DEF NoKey
  <2>e. Enough(k)
    BY <2>1 DEF KeyCountInv
  <2>0. SpareNames(k)' = SpareNames(k) /\ SpareNames(k) \in Nat
    BY <1>1 DEF SpareNames
  <2>d. Deleting(k)' \subseteq Deleting(k)
    BY <1>1, <1>i DEF Deleting, KeyTypes, Harmless
  <2>2. CASE ks[n] # k
    <3>1. NamesOf(k) \subseteq NamesOf(k)'
      BY <1>1, <1>3, <2>2 DEF NamesOf
    <3> QED BY <2>0, <2>e, <2>d, <3>1, EnoughKept
  <2>3. CASE ks[n] = k
    <3>1. NamesOf(k)' = NamesOf(k) \ {n} /\ n \in NamesOf(k)
      BY <1>1, <1>3, <2>3 DEF NamesOf, NoKey
    <3>2. Deleting(k)' = Deleting(k) \ {c} /\ c \in Deleting(k)
      BY <1>0, <1>1, <1>i, <2>1, <2>3 DEF Deleting, KeyTypes, Harmless
    <3>3. /\ IsFiniteSet(NamesOf(k)) /\ Cardinality(NamesOf(k)) \in Nat
          /\ IsFiniteSet(Deleting(k)) /\ Cardinality(Deleting(k)) \in Nat
      <4>1. NamesOf(k) \subseteq Names /\ Deleting(k) \subseteq KeyCmds
        BY DEF NamesOf, Deleting
      <4> QED BY <4>1, KeyFinite
    <3>4. Cardinality(NamesOf(k)') = Cardinality(NamesOf(k)) - 1
      <4> HIDE DEF n
      <4> QED BY <3>1, <3>3, FS_RemoveElement
    <3>5. Cardinality(Deleting(k)') = Cardinality(Deleting(k)) - 1
      BY <3>2, <3>3, FS_RemoveElement
    <3> QED BY <2>0, <2>e, <3>3, <3>4, <3>5 DEF Enough
  <2> QED BY <2>2, <2>3
<1>7. SelfInv'
  BY <1>1, <1>3 DEF SelfInv
<1> QED BY <1>4, <1>5, <1>6, <1>7

\* The daemon starts and ends, and key rotate runs between two daemons: the old
\* identity gets a name before the config gets the new one.
LEMMA KeyDaemonSteps ==
  ASSUME KeyInv, KeyDaemonStart \/ KeyDaemonEnd \/ KeyRotateConfig \/ \E n \in Names : KeyRotateOpen(n)
  PROVE  KeyInv'
<1> USE DEF KeyInv
<1>t. made \in Nat /\ identity \in 1 .. made /\ ks \in [Names -> 0 .. made]
  BY DEF KeyTypes
<1>1. CASE KeyDaemonStart
  <2> USE <1>1 DEF KeyDaemonStart
  <2>1. KeyTypes'
    BY DEF KeyTypes
  <2>2. KeyCmdInv'
    BY DEF KeyCmdInv
  <2>3. KeyCountInv'
    <3> SUFFICES ASSUME NEW k \in 1 .. made, k \notin dropped
                 PROVE  Enough(k)'
      BY DEF KeyCountInv
    <3>1. NamesOf(k)' = NamesOf(k) /\ Deleting(k)' = Deleting(k) /\ SpareNames(k)' = SpareNames(k) /\ SpareNames(k) \in Nat
      BY DEF NamesOf, Deleting, SpareNames
    <3> QED BY <3>1, EnoughKept DEF KeyCountInv
  <2>4. SelfInv'
    BY DEF SelfInv
  <2> QED BY <2>1, <2>2, <2>3, <2>4
<1>2. CASE KeyDaemonEnd
  <2> USE <1>2 DEF KeyDaemonEnd
  <2>i. Harmless(IdleKeyCmd) /\ IdleKeyCmd.op = "idle"
    BY IdleHarmless DEF IdleKeyCmd
  <2>1. KeyTypes'
    BY <2>i DEF KeyTypes, Harmless, NoKey
  <2>2. KeyCmdInv'
    BY <2>i DEF KeyCmdInv, Harmless
  <2>3. KeyCountInv'
    <3> SUFFICES ASSUME NEW k \in 1 .. made, k \notin dropped
                 PROVE  Enough(k)'
      BY DEF KeyCountInv
    <3>1. NamesOf(k)' = NamesOf(k) /\ SpareNames(k)' = SpareNames(k) /\ SpareNames(k) \in Nat
      BY DEF NamesOf, SpareNames
    <3>2. Deleting(k)' = {}
      BY <2>i DEF Deleting
    <3> QED BY <3>1, <3>2, EnoughKept DEF KeyCountInv
  <2>4. SelfInv'
    BY DEF SelfInv
  <2> QED BY <2>1, <2>2, <2>3, <2>4
<1>3. CASE KeyRotateConfig
  <2>1. /\ holder = "rotate" /\ holder' = "none" /\ UNCHANGED <<ks, kcmd, loaded, dropped>>
        /\ made' \in {made, made + 1}
        /\ made' = made => identity' = identity
        /\ made' = made + 1 => identity' = made + 1
    BY <1>3, <1>t DEF KeyRotateConfig
  <2>2. KeyTypes'
    <3>1. made' \in Nat \ {0} /\ identity' \in 1 .. made'
      BY <2>1, <1>t DEF KeyTypes
    <3>2. ks' \in [Names -> 0 .. made']
      <4>1. 0 .. made \subseteq 0 .. made'
        BY <2>1, <1>t
      <4> QED BY <2>1, <4>1, <1>t
    <3> QED BY <2>1, <3>1, <3>2 DEF KeyTypes
  <2>3. KeyCmdInv'
    <3>1. \A d \in KeyCmds : kcmd[d].key \in Nat
      BY DEF KeyTypes, KeyCmdSet
    <3> QED BY <2>1, <3>1, <1>t DEF KeyCmdInv
  <2>4. KeyCountInv'
    <3> SUFFICES ASSUME NEW k \in 1 .. made', k \notin dropped
                 PROVE  Enough(k)'
      BY <2>1 DEF KeyCountInv
    <3>1. NamesOf(k)' = NamesOf(k) /\ Deleting(k)' = Deleting(k)
      BY <2>1 DEF NamesOf, Deleting
    <3>2. CASE k \in 1 .. made
      <4>1. SpareNames(k)' <= SpareNames(k)
        BY <2>1 DEF SpareNames
      <4> QED BY <3>1, <3>2, <4>1, EnoughKept DEF KeyCountInv
    <3>3. CASE k = made + 1 /\ identity' = k
      <4>1. NamesOf(k) = {}
        BY <3>3, <1>t DEF NamesOf
      <4>2. Deleting(k) = {}
        BY <3>3, <1>t DEF Deleting, KeyCmdInv, KeyTypes, KeyCmdSet
      <4>3. SpareNames(k)' = 0
        BY <3>3, <2>1 DEF SpareNames
      <4> QED BY <3>1, <4>1, <4>2, <4>3, FS_EmptySet DEF Enough
    <3> QED BY <2>1, <3>2, <3>3, <1>t
  <2>5. SelfInv'
    BY <2>1 DEF SelfInv
  <2> QED BY <2>2, <2>3, <2>4, <2>5
<1>4. CASE \E n \in Names : KeyRotateOpen(n)
  <2> PICK n \in Names : KeyRotateOpen(n)
    BY <1>4
  <2>1. /\ holder = "none" /\ n # "self" /\ ks[n] = 0 /\ ks' = [ks EXCEPT ![n] = identity] /\ holder' = "rotate"
        /\ UNCHANGED <<kcmd, identity, loaded, made, dropped>>
    BY DEF KeyRotateOpen, NoKey
  <2>2. KeyTypes'
    <3>1. ks' \in [Names -> 0 .. made]
      BY <2>1, <1>t
    <3> QED BY <2>1, <3>1 DEF KeyTypes
  <2>3. KeyCmdInv'
    BY <2>1 DEF KeyCmdInv
  <2>4. KeyCountInv'
    <3> SUFFICES ASSUME NEW k \in 1 .. made, k \notin dropped
                 PROVE  Enough(k)'
      BY <2>1 DEF KeyCountInv
    <3>d. Deleting(k)' = Deleting(k)
      BY <2>1 DEF Deleting
    <3>1. CASE k # identity
      <4>1. NamesOf(k)' = NamesOf(k) /\ SpareNames(k)' = SpareNames(k) /\ SpareNames(k) \in Nat
        BY <3>1, <2>1, <1>t DEF NamesOf, SpareNames
      <4> QED BY <3>d, <4>1, EnoughKept DEF KeyCountInv
    <3>2. CASE k = identity
      <4>1. NamesOf(k)' = NamesOf(k) \union {n} /\ n \notin NamesOf(k)
        BY <3>2, <2>1, <1>t DEF NamesOf
      <4>2. SpareNames(k) = 0 /\ SpareNames(k)' = 1
        BY <3>2, <2>1 DEF SpareNames
      <4>3. /\ IsFiniteSet(NamesOf(k)) /\ Cardinality(NamesOf(k)) \in Nat /\ Cardinality(Deleting(k)) \in Nat
        <5>1. NamesOf(k) \subseteq Names /\ Deleting(k) \subseteq KeyCmds
          BY DEF NamesOf, Deleting
        <5> QED BY <5>1, KeyFinite
      <4>4. Cardinality(NamesOf(k)') = Cardinality(NamesOf(k)) + 1
        BY <4>1, <4>3, FS_AddElement
      <4>5. Enough(k)
        BY DEF KeyCountInv
      <4> QED BY <3>d, <4>2, <4>3, <4>4, <4>5 DEF Enough
    <3> QED BY <3>1, <3>2
  <2>5. SelfInv'
    BY <2>1, <1>t DEF SelfInv
  <2> QED BY <2>2, <2>3, <2>4, <2>5
<1> QED BY <1>1, <1>2, <1>3, <1>4

\* Every key has more names than renames that wait to delete one (KeyCountInv), and
\* no command touches the name "self": the inductive invariant of the key store.
THEOREM KeyInvariant == KeySpec => []KeyInv
<1>1. KeyInit => KeyInv
  <2> SUFFICES ASSUME KeyInit
               PROVE  KeyInv
    OBVIOUS
  <2> USE DEF KeyInit
  <2>1. KeyTypes
    BY DEF KeyTypes, IdleKeyCmd, KeyCmdSet, KeyOps, NoKey
  <2>2. KeyCmdInv
    BY DEF KeyCmdInv, IdleKeyCmd, NoKey, Renaming
  <2>3. KeyCountInv
    <3> SUFFICES Enough(1)
      BY DEF KeyCountInv
    <3>1. NamesOf(1) = {} /\ Deleting(1) = {} /\ SpareNames(1) = 0
      BY DEF NamesOf, Deleting, SpareNames, IdleKeyCmd, NoKey
    <3> QED BY <3>1, FS_EmptySet DEF Enough
  <2>4. SelfInv
    BY DEF SelfInv, Names
  <2> QED BY <2>1, <2>2, <2>3, <2>4 DEF KeyInv
<1>2. KeyInv /\ [KeyNext]_kVars => KeyInv'
  <2> SUFFICES ASSUME KeyInv, [KeyNext]_kVars
               PROVE  KeyInv'
    OBVIOUS
  <2>1. CASE UNCHANGED kVars
    BY <2>1 DEF kVars, KeyInv, KeyTypes, KeyCmdInv, KeyCountInv, SelfInv, Enough, NamesOf, Deleting, SpareNames
  <2>2. CASE KeyDaemonStart \/ KeyDaemonEnd \/ KeyRotateConfig \/ \E n \in Names : KeyRotateOpen(n)
    BY <2>2, KeyDaemonSteps
  <2>3. ASSUME NEW c \in KeyCmds, KeyGenPut(c)
        PROVE  KeyInv'
    BY <2>3, KeyGenPutStep
  <2>4. ASSUME NEW c \in KeyCmds, KeyRmDelete(c) \/ KeyRenameOverwrite(c)
        PROVE  KeyInv'
    BY <2>4, KeyForgetSteps
  <2>5. ASSUME NEW c \in KeyCmds, KeyRenamePut(c)
        PROVE  KeyInv'
    BY <2>5, KeyRenamePutStep
  <2>6. ASSUME NEW c \in KeyCmds, KeyRenameDelete(c)
        PROVE  KeyInv'
    BY <2>6, KeyRenameDeleteStep
  <2>7. ASSUME NEW c \in KeyCmds,
               \/ KeyRmGet(c) \/ KeyRenameHas(c) \/ KeyListGet(c) \/ KeyLookupGet(c) \/ NamePublish(c) \/ KeyList(c)
               \/ \E n \in Names : KeyGenCheck(c, n) \/ KeyImportCheck(c, n)
               \/ \E names \in {{n} : n \in Names} \union {KeyNames} : KeyRmCmd(c, names)
               \/ \E n, to \in Names, force \in BOOLEAN : KeyRenameGet(c, n, to, force)
               \/ \E k \in 1 .. made : KeyLookup(c, k)
        PROVE  KeyInv'
    <3>1. \A names \in {{n} : n \in Names} \union {KeyNames} : names \in SUBSET Names
      BY DEF Names
    <3> QED BY <2>7, <3>1, KeyReadSteps
  <2> QED BY <2>1, <2>2, <2>3, <2>4, <2>5, <2>6, <2>7 DEF KeyNext
<1> QED BY <1>1, <1>2, PTL DEF KeySpec

\* No key is lost, and the daemon uses the identity of the config, whatever `ipfs
\* key` commands overlap or are cut off (core/coreapi/key.go, keystore.go).
THEOREM KeyStoreSafe == KeySpec => []KeysKept
<1>1. KeyInv => KeysKept
  <2> SUFFICES ASSUME KeyInv
               PROVE  NoKeyLost /\ DaemonIdentityCurrent
    BY DEF KeysKept
  <2> USE DEF KeyInv
  <2>1. NoKeyLost
    <3> SUFFICES ASSUME NEW k \in 1 .. made, k # identity, k \notin dropped
                 PROVE  \E n \in Names : KeyExported(n) = k
      BY DEF NoKeyLost
    <3>1. /\ Cardinality(NamesOf(k)) \in Nat /\ Cardinality(Deleting(k)) \in Nat
          /\ IsFiniteSet(NamesOf(k))
      <4>1. NamesOf(k) \subseteq Names /\ Deleting(k) \subseteq KeyCmds
        BY DEF NamesOf, Deleting
      <4> QED BY <4>1, KeyFinite
    <3>2. Cardinality(NamesOf(k)) # 0
      BY <3>1 DEF KeyCountInv, Enough, SpareNames
    <3>3. NamesOf(k) # {}
      BY <3>1, <3>2, FS_EmptySet
    <3>4. PICK n \in Names : ks[n] = k
      BY <3>3 DEF NamesOf
    <3>5. n # "self"
      BY <3>4 DEF SelfInv, NoKey, KeyTypes
    <3> QED BY <3>4, <3>5 DEF KeyExported
  <2>2. DaemonIdentityCurrent
    BY DEF DaemonIdentityCurrent, SelfInv, KeyUsed, KeyVerified
  <2> QED BY <2>1, <2>2
<1> QED BY <1>1, KeyInvariant, PTL
-----------------------------------------------------------------------------
(***************************************************************************)
(* The address lists.                                                      *)
(*                                                                         *)
(* Nothing but the save is under a lock, and two commands that overlap may *)
(* lose an entry: what is promised to last is what commands that were      *)
(* alone have added.  The list such a command has in hand is the one place *)
(* where a lasting entry is out of memory for a while.                     *)
(***************************************************************************)
ListEntries == FilterTexts \union BootEntries
ListPcs == {"idle", "live", "take", "put", "save"}
ListCmdSet == [pc : ListPcs, list : Lists, op : {"add", "rm", "rmAll"}, args : Seq(ListEntries),
               old : SUBSET ListEntries, alone : BOOLEAN]

ListTypes ==
  /\ mem \in [Lists -> SUBSET ListEntries] /\ disk \in [Lists -> SUBSET ListEntries]
  /\ lasting \in [Lists -> SUBSET ListEntries]
  /\ lcmd \in [ListCmds -> ListCmdSet]

\* Commands that overlap know it, and then nothing is promised to last.
Active(c) == lcmd[c].pc # "idle"
AloneInv ==
  \A c \in ListCmds : Active(c) =>
    IF lcmd[c].alone THEN \A d \in ListCmds : Active(d) => d = c ELSE \A l \in Lists : lasting[l] = {}

\* What has been asked for is no longer promised; arguments that got past the swarm
\* are filters.
ArgsInv ==
  \A c \in ListCmds : Active(c) =>
    /\ Asked(lcmd[c].list, lcmd[c].op, ToSet(lcmd[c].args)) = {}
    /\ lcmd[c].pc = "live" => lcmd[c].list = "filters"
    /\ lcmd[c].list = "filters" /\ lcmd[c].pc # "live" /\ lcmd[c].op # "rmAll" =>
         \A f \in ToSet(lcmd[c].args) : MaskOf[f] # "bad"

\* Where what lasts is: on disk, in the swarm and in memory, but for the list that a
\* command has in hand.
LastingInv ==
  /\ AddedLasts
  /\ \A l \in Lists : lasting[l] \subseteq mem[l] \/ \E c \in ListCmds : lcmd[c].pc = "put" /\ lcmd[c].list = l
  /\ \A c \in ListCmds : lcmd[c].pc = "put" => lasting[lcmd[c].list] \subseteq lcmd[c].old

\* What a command that is alone is about to promise.
PromiseInv ==
  \A c \in ListCmds : Active(c) /\ lcmd[c].alone /\ lcmd[c].op = "add" =>
    /\ lcmd[c].list = "filters" /\ lcmd[c].pc # "live" => Masks(ToSet(lcmd[c].args)) \subseteq live
    /\ lcmd[c].pc = "save" => ToSet(lcmd[c].args) \subseteq mem[lcmd[c].list]

SaveInv == mem = disk \/ unsaved \/ \E c \in ListCmds : lcmd[c].pc \in {"put", "save"}

ListInv == ListTypes /\ AloneInv /\ ArgsInv /\ LastingInv /\ PromiseInv /\ SaveInv

\* More filters deny more networks.
LEMMA MasksGrow == \A S, T : S \subseteq T => Masks(S) \subseteq Masks(T)
BY DEF Masks

\* `bootstrap rm` decides about every entry by itself.
LEMMA RemoveOne ==
  \A e, old, args : e \in old /\ e \in BootstrapRemove({e}, args) => e \in BootstrapRemove(old, args)
BY DEF BootstrapRemove

\* What no removal is about is spared by it.
LEMMA SparedFilter ==
  ASSUME NEW args, NEW e \in lasting["filters"], Asked("filters", "rm", args) = {},
         \A f \in args : MaskOf[f] # "bad"
  PROVE  e \notin args
<1>1. MaskOf[e] \notin Masks(args)
  BY DEF Asked
<1> QED BY <1>1 DEF Masks

LEMMA SparedPeer ==
  ASSUME NEW args, NEW e \in lasting["bootstrap"], Asked("bootstrap", "rm", args) = {}
  PROVE  e \in BootstrapRemove({e}, args)
BY DEF Asked

\* A command at rest.
LEMMA IdleListType ==
  IdleListCmd \in ListCmdSet /\ IdleListCmd.pc = "idle"
<1>1. << >> \in Seq(ListEntries)
  OBVIOUS
<1>2. {} \in SUBSET ListEntries
  OBVIOUS
<1> QED BY <1>1, <1>2 DEF IdleListCmd, ListCmdSet, ListPcs, Lists

\* A command starts.
LEMMA ListStartStep ==
  ASSUME ListInv, NEW c \in ListCmds, NEW pc \in {"live", "take"}, NEW list \in Lists,
         NEW op \in {"add", "rm", "rmAll"}, NEW args \in Seq(ListEntries),
         (pc = "live") <=> (list = "filters"), ListStart(c, pc, list, op, args)
  PROVE  ListInv'
<1> USE DEF ListInv
<1> DEFINE others == {d \in ListCmds \ {c} : lcmd[d].pc # "idle"}
           rec == [pc |-> pc, list |-> list, op |-> op, args |-> args, old |-> {}, alone |-> others = {}]
<1>0. /\ lcmd[c].pc = "idle"
      /\ lcmd' = [d \in ListCmds |->
           IF d = c THEN rec ELSE IF d \in others THEN [lcmd[d] EXCEPT !.alone = FALSE] ELSE lcmd[d]]
      /\ lasting' = IF others = {} THEN [lasting EXCEPT ![list] = @ \ Asked(list, op, ToSet(args))]
                    ELSE [l \in Lists |-> {}]
      /\ UNCHANGED <<live, mem, disk, unsaved>>
  BY DEF ListStart
<1>1. /\ rec \in ListCmdSet /\ rec.pc = pc /\ rec.list = list /\ rec.op = op /\ rec.args = args
      /\ rec.alone = (others = {})
  <2>1. (others = {}) \in BOOLEAN /\ {} \in SUBSET ListEntries
    OBVIOUS
  <2> HIDE DEF others
  <2> QED BY <2>1 DEF ListCmdSet, ListPcs
<1>2. ASSUME NEW d \in ListCmds, d # c
      PROVE  /\ lcmd'[d] \in ListCmdSet /\ lcmd'[d].pc = lcmd[d].pc /\ lcmd'[d].list = lcmd[d].list
             /\ lcmd'[d].op = lcmd[d].op /\ lcmd'[d].args = lcmd[d].args /\ lcmd'[d].old = lcmd[d].old
             /\ Active(d) => d \in others /\ ~lcmd'[d].alone
  <2>1. lcmd'[d] = IF d \in others THEN [lcmd[d] EXCEPT !.alone = FALSE] ELSE lcmd[d]
    BY <1>0, <1>2
  <2>2. lcmd[d] \in ListCmdSet
    BY DEF ListTypes
  <2> QED BY <2>1, <2>2, <1>2 DEF ListCmdSet, Active
<1>3. lcmd'[c] = rec
  BY <1>0
<1> HIDE DEF rec
<1>4. /\ \A l \in Lists : lasting'[l] \subseteq lasting[l]
      /\ others # {} => \A l \in Lists : lasting'[l] = {}
      /\ others = {} => lasting'[list] = lasting[list] \ Asked(list, op, ToSet(args))
      /\ lasting' \in [Lists -> SUBSET ListEntries]
  <2> HIDE DEF others
  <2> QED BY <1>0 DEF ListTypes
<1>5. ListTypes'
  <2>1. lcmd' \in [ListCmds -> ListCmdSet]
    <3>1. lcmd' = [d \in ListCmds |-> lcmd'[d]]
      BY <1>0
    <3> QED BY <3>1, <1>1, <1>2, <1>3
  <2> QED BY <2>1, <1>0, <1>4 DEF ListTypes
<1>6. AloneInv'
  <2> SUFFICES ASSUME NEW d \in ListCmds, Active(d)'
               PROVE  IF lcmd'[d].alone THEN \A x \in ListCmds : Active(x)' => x = d
                      ELSE \A l \in Lists : lasting'[l] = {}
    BY DEF AloneInv
  <2>1. CASE d = c
    <3>1. CASE others = {}
      <4>1. ASSUME NEW x \in ListCmds, Active(x)', x # c
            PROVE  FALSE
        <5>1. Active(x)
          BY <4>1, <1>2 DEF Active
        <5> QED BY <5>1, <4>1, <3>1, <1>2
      <4>2. lcmd'[d].alone
        BY <3>1, <2>1, <1>1, <1>3
      <4> QED BY <4>1, <4>2, <2>1
    <3>2. CASE others # {}
      BY <3>2, <2>1, <1>1, <1>3, <1>4
    <3> QED BY <3>1, <3>2
  <2>2. CASE d # c
    <3>1. Active(d)
      BY <2>2, <1>2 DEF Active
    <3> QED BY <3>1, <2>2, <1>2, <1>4
  <2> QED BY <2>1, <2>2
<1>7. ArgsInv'
  <2> SUFFICES ASSUME NEW d \in ListCmds, Active(d)'
               PROVE  /\ Asked(lcmd[d].list, lcmd[d].op, ToSet(lcmd[d].args))' = {}
                      /\ lcmd'[d].pc = "live" => lcmd'[d].list = "filters"
                      /\ lcmd'[d].list = "filters" /\ lcmd'[d].pc # "live" /\ lcmd'[d].op # "rmAll" =>
                           \A f \in ToSet(lcmd'[d].args) : MaskOf[f] # "bad"
    BY DEF ArgsInv, ToSet
  <2>0. lcmd'[d].list \in Lists
    BY <1>1, <1>2, <1>3 DEF ListTypes, ListCmdSet
  <2>1. CASE d = c
    <3>1. Asked(list, op, ToSet(args))' = {}
      <4>1. CASE others = {}
        BY <4>1, <1>4 DEF Asked, ToSet
      <4>2. CASE others # {}
        BY <4>2, <1>4 DEF Asked
      <4> QED BY <4>1, <4>2
    <3> QED BY <3>1, <2>1, <1>1, <1>3 DEF ToSet
  <2>2. CASE d # c
    <3>1. Active(d)
      BY <2>2, <1>2 DEF Active
    <3>2. Asked(lcmd[d].list, lcmd[d].op, ToSet(lcmd[d].args))' = {}
      BY <3>1, <2>0, <2>2, <1>2, <1>4 DEF Asked
    <3> QED BY <3>1, <3>2, <2>2, <1>2 DEF ArgsInv
  <2> QED BY <2>1, <2>2
<1>8. LastingInv'
  <2>1. AddedLasts'
    <3>1. Masks(lasting'["filters"]) \subseteq Masks(lasting["filters"])
      BY <1>4, MasksGrow DEF Lists
    <3> QED BY <3>1, <1>0, <1>4 DEF LastingInv, AddedLasts, FiltersShown, Masks
  <2>2. ASSUME NEW l \in Lists
        PROVE  lasting'[l] \subseteq mem'[l] \/ \E d \in ListCmds : lcmd'[d].pc = "put" /\ lcmd'[d].list = l
    <3>1. CASE lasting[l] \subseteq mem[l]
      BY <3>1, <1>0, <1>4
    <3>2. ASSUME NEW d \in ListCmds, lcmd[d].pc = "put" /\ lcmd[d].list = l
          PROVE  lcmd'[d].pc = "put" /\ lcmd'[d].list = l
      BY <3>2, <1>0, <1>2
    <3> QED BY <3>1, <3>2 DEF LastingInv
  <2>3. ASSUME NEW d \in ListCmds, lcmd'[d].pc = "put"
        PROVE  lasting'[lcmd'[d].list] \subseteq lcmd'[d].old
    <3>1. d # c
      BY <2>3, <1>1, <1>3
    <3>2. lcmd[d].list \in Lists
      BY DEF ListTypes, ListCmdSet
    <3> QED BY <3>1, <3>2, <2>3, <1>2, <1>4 DEF LastingInv
  <2> QED BY <2>1, <2>2, <2>3 DEF LastingInv
<1>9. PromiseInv'
  <2> SUFFICES ASSUME NEW d \in ListCmds, Active(d)', lcmd'[d].alone, lcmd'[d].op = "add"
               PROVE  /\ lcmd'[d].list = "filters" /\ lcmd'[d].pc # "live" => Masks(ToSet(lcmd'[d].args)) \subseteq live'
                      /\ lcmd'[d].pc = "save" => ToSet(lcmd'[d].args) \subseteq mem'[lcmd'[d].list]
    BY DEF PromiseInv, Masks, ToSet
  <2>1. d = c
    BY <1>2 DEF Active
  <2> QED BY <2>1, <1>1, <1>3
<1>10. SaveInv'
  BY <1>0, <1>2 DEF SaveInv
<1> QED BY <1>5, <1>6, <1>7, <1>8, <1>9, <1>10

\* A command that goes on is the only one, or nothing is promised to last.
LEMMA AloneOrNone ==
  ASSUME ListInv, NEW c \in ListCmds, Active(c)
  PROVE  \/ lcmd[c].alone /\ \A d \in ListCmds : d # c => lcmd[d].pc = "idle"
         \/ ~lcmd[c].alone /\ \A l \in Lists : lasting[l] = {}
BY DEF ListInv, AloneInv, Active

\* A command goes on to its next step, or ends, and keeps its arguments.
GoesOn(c, r) ==
  /\ r \in ListCmdSet /\ lcmd' = [lcmd EXCEPT ![c] = r]
  /\ r.pc # "idle" =>
       /\ r.list = lcmd[c].list /\ r.op = lcmd[c].op /\ r.args = lcmd[c].args /\ r.alone = lcmd[c].alone
       /\ r.pc # "live"

LEMMA ListGoesOn ==
  ASSUME ListInv, NEW c \in ListCmds, Active(c), NEW r, GoesOn(c, r), UNCHANGED lasting,
         r.pc # "idle" /\ r.list = "filters" /\ r.op # "rmAll" => \A f \in ToSet(r.args) : MaskOf[f] # "bad"
  PROVE  lcmd' \in [ListCmds -> ListCmdSet] /\ AloneInv' /\ ArgsInv'
<1> USE DEF ListInv
<1>1. lcmd' \in [ListCmds -> ListCmdSet] /\ lcmd'[c] = r /\ \A d \in ListCmds : d # c => lcmd'[d] = lcmd[d]
  BY DEF ListTypes, GoesOn
<1>2. AloneInv'
  <2>1. ASSUME NEW d \in ListCmds, Active(d)'
        PROVE  Active(d) /\ lcmd'[d].alone = lcmd[d].alone
    BY <2>1, <1>1 DEF Active, GoesOn
  <2> QED BY <2>1 DEF AloneInv
<1>3. ArgsInv'
  <2> SUFFICES ASSUME NEW d \in ListCmds, Active(d)'
               PROVE  /\ Asked(lcmd[d].list, lcmd[d].op, ToSet(lcmd[d].args))' = {}
                      /\ lcmd'[d].pc = "live" => lcmd'[d].list = "filters"
                      /\ lcmd'[d].list = "filters" /\ lcmd'[d].pc # "live" /\ lcmd'[d].op # "rmAll" =>
                           \A f \in ToSet(lcmd'[d].args) : MaskOf[f] # "bad"
    BY DEF ArgsInv, ToSet
  <2>1. /\ Active(d) /\ lcmd'[d].list = lcmd[d].list /\ lcmd'[d].op = lcmd[d].op /\ lcmd'[d].args = lcmd[d].args
    BY <1>1 DEF Active, GoesOn
  <2>2. Asked(lcmd[d].list, lcmd[d].op, ToSet(lcmd[d].args)) = {}
    BY <2>1 DEF ArgsInv
  <2>3. Asked(lcmd[d].list, lcmd[d].op, ToSet(lcmd[d].args))' = {}
    BY <2>1, <2>2 DEF Asked, ToSet
  <2>4. CASE d = c
    BY <2>3, <2>4, <1>1 DEF GoesOn, Active
  <2>5. CASE d # c
    BY <2>1, <2>3, <2>5, <1>1 DEF ArgsInv
  <2> QED BY <2>4, <2>5
<1> QED BY <1>1, <1>2, <1>3

\* The arguments are applied to the swarm.
LEMMA FiltersLiveStep ==
  ASSUME ListInv, NEW c \in ListCmds, FiltersLive(c)
  PROVE  ListInv'
<1> USE DEF ListInv
<1> DEFINE args == lcmd[c].args
           bad == {i \in DOMAIN args : MaskOf[args[i]] = "bad"}
           done == {args[i] : i \in {j \in DOMAIN args : \A b \in bad : j < b}}
           r == IF bad # {} /\ lcmd[c].op # "rmAll" THEN IdleListCmd ELSE [lcmd[c] EXCEPT !.pc = "take"]
<1>0. /\ lcmd[c].pc = "live" /\ lcmd[c] \in ListCmdSet /\ lcmd[c].list = "filters"
      /\ lcmd' = [lcmd EXCEPT ![c] = r]
      /\ live' = CASE lcmd[c].op = "add" -> live \union Masks(done)
                   [] lcmd[c].op = "rm" -> live \ Masks(done)
                   [] lcmd[c].op = "rmAll" -> {}
      /\ UNCHANGED <<mem, disk, lasting, unsaved>>
  BY DEF FiltersLive, ListTypes, ArgsInv, Active
<1>1. done \subseteq ToSet(args) /\ (bad = {} => done = ToSet(args) /\ \A f \in ToSet(args) : MaskOf[f] # "bad")
  BY DEF ToSet
<1>2. Active(c)
  BY <1>0 DEF Active
<1> DEFINE refused == bad # {}
<1>3. /\ GoesOn(c, r) /\ lcmd'[c] = r /\ r.pc \in {"idle", "take"}
      /\ r.pc = "take" => (~refused \/ r.op = "rmAll")
  <2> HIDE DEF refused
  <2>1. r = IF refused /\ lcmd[c].op # "rmAll" THEN IdleListCmd ELSE [lcmd[c] EXCEPT !.pc = "take"]
    BY DEF refused
  <2> HIDE DEF r
  <2> QED BY <2>1, <1>0, IdleListType DEF GoesOn, ListCmdSet, ListPcs, ListTypes
<1>4. lcmd' \in [ListCmds -> ListCmdSet] /\ AloneInv' /\ ArgsInv'
  <2>1. r.pc # "idle" /\ r.list = "filters" /\ r.op # "rmAll" => \A f \in ToSet(r.args) : MaskOf[f] # "bad"
    BY <1>1, <1>3 DEF GoesOn
  <2> HIDE DEF r
  <2> QED BY <2>1, <1>0, <1>2, <1>3, ListGoesOn
<1> HIDE DEF r, done, bad, args
<1>5. \A d \in ListCmds : lcmd[d].pc \in {"put", "save"} \/ lcmd'[d].pc \in {"put", "save"} => lcmd'[d] = lcmd[d]
  BY <1>0, <1>3 DEF ListTypes
<1>6. LastingInv'
  <2>1. Masks(lasting["filters"]) \subseteq live'
    <3>1. Masks(lasting["filters"]) \subseteq live
      BY DEF LastingInv, AddedLasts, FiltersShown
    <3>2. Asked("filters", lcmd[c].op, ToSet(args)) = {}
      BY <1>0, <1>2 DEF ArgsInv, args
    <3>3. CASE lcmd[c].op = "add"
      BY <3>1, <3>3, <1>0
    <3>4. CASE lcmd[c].op = "rm"
      <4>1. \A e \in lasting["filters"] : MaskOf[e] \notin Masks(ToSet(args))
        BY <3>2, <3>4 DEF Asked
      <4>2. \A e \in lasting["filters"] : MaskOf[e] \notin Masks(done)
        BY <4>1, <1>1, MasksGrow
      <4>3. live' = live \ Masks(done)
        BY <3>4, <1>0
      <4> QED BY <3>1, <4>2, <4>3 DEF Masks
    <3>5. CASE lcmd[c].op = "rmAll"
      <4>1. lasting["filters"] = {}
        BY <3>2, <3>5 DEF Asked
      <4> QED BY <4>1 DEF Masks
    <3> QED BY <3>3, <3>4, <3>5, <1>0 DEF ListCmdSet
  <2>2. AddedLasts'
    BY <2>1, <1>0 DEF LastingInv, AddedLasts, FiltersShown, Masks
  <2>3. ASSUME NEW l \in Lists
        PROVE  lasting'[l] \subseteq mem'[l] \/ \E d \in ListCmds : lcmd'[d].pc = "put" /\ lcmd'[d].list = l
    BY <1>0, <1>5 DEF LastingInv
  <2>4. ASSUME NEW d \in ListCmds, lcmd'[d].pc = "put"
        PROVE  lasting'[lcmd'[d].list] \subseteq lcmd'[d].old
    BY <2>4, <1>0, <1>5 DEF LastingInv
  <2> QED BY <2>2, <2>3, <2>4 DEF LastingInv
<1>7. PromiseInv'
  <2> SUFFICES ASSUME NEW d \in ListCmds, Active(d)', lcmd'[d].alone, lcmd'[d].op = "add"
               PROVE  /\ lcmd'[d].list = "filters" /\ lcmd'[d].pc # "live" => Masks(ToSet(lcmd'[d].args)) \subseteq live'
                      /\ lcmd'[d].pc = "save" => ToSet(lcmd'[d].args) \subseteq mem'[lcmd'[d].list]
    BY DEF PromiseInv, Masks, ToSet
  <2>1. d = c
    <3>1. d # c => lcmd'[d] = lcmd[d]
      BY <1>0
    <3>2. d # c => Active(d) /\ lcmd[d].alone
      BY <3>1 DEF Active
    <3> QED BY <3>2, <1>2 DEF AloneInv
  <2>2. ~refused /\ lcmd[c].op = "add" /\ lcmd'[c].args = args
    BY <2>1, <1>3 DEF GoesOn, Active, args
  <2>3. live' = live \union Masks(ToSet(args))
    BY <2>2, <1>0, <1>1 DEF refused
  <2> QED BY <2>1, <2>2, <2>3, <1>3
<1>8. SaveInv'
  BY <1>0, <1>5 DEF SaveInv
<1>9. ListTypes'
  BY <1>0, <1>4 DEF ListTypes
<1> QED BY <1>4, <1>6, <1>7, <1>8, <1>9

\* While a command runs, no other one is about to promise anything.
LEMMA OthersPromiseNothing ==
  ASSUME ListInv, NEW c \in ListCmds, Active(c), NEW d \in ListCmds, d # c
  PROVE  ~(Active(d) /\ lcmd[d].alone)
BY DEF ListInv, AloneInv

\* The old list is set aside.
LEMMA ListTakeStep ==
  ASSUME ListInv, NEW c \in ListCmds, ListTake(c)
  PROVE  ListInv'
<1> USE DEF ListInv
<1> DEFINE l0 == lcmd[c].list
           r == [lcmd[c] EXCEPT !.old = mem[l0], !.pc = "put"]
<1>0. /\ lcmd[c].pc = "take" /\ lcmd[c] \in ListCmdSet /\ l0 \in Lists /\ mem[l0] \in SUBSET ListEntries
      /\ lcmd' = [lcmd EXCEPT ![c] = r]
      /\ mem' = [mem EXCEPT ![l0] = IF lcmd[c].op = "rm" THEN @ ELSE {}]
      /\ UNCHANGED <<live, disk, lasting, unsaved>>
  <2>1. lcmd' = [lcmd EXCEPT ![c] = r]
    BY DEF ListTake
  <2>2. lcmd[c] \in ListCmdSet
    BY DEF ListTypes
  <2> QED BY <2>1, <2>2 DEF ListTake, ListTypes, ListCmdSet
<1>1. Active(c)
  BY <1>0 DEF Active
<1>2. /\ r \in ListCmdSet /\ r.pc = "put" /\ r.old = mem[l0] /\ r.list = l0 /\ r.op = lcmd[c].op
      /\ r.args = lcmd[c].args /\ r.alone = lcmd[c].alone
  BY <1>0 DEF ListCmdSet, ListPcs
<1>3. lcmd' \in [ListCmds -> ListCmdSet] /\ AloneInv' /\ ArgsInv'
  <2>1. l0 = "filters" /\ lcmd[c].op # "rmAll" => \A f \in ToSet(lcmd[c].args) : MaskOf[f] # "bad"
    BY <1>0, <1>1 DEF ArgsInv
  <2>2. GoesOn(c, r)
    BY <1>0, <1>2 DEF GoesOn
  <2> HIDE DEF r
  <2> QED BY <2>1, <2>2, <1>0, <1>1, <1>2, ListGoesOn
<1>4. lcmd'[c] = r /\ \A d \in ListCmds : d # c => lcmd'[d] = lcmd[d]
  BY <1>0 DEF ListTypes
<1>5. \A l \in Lists : l # l0 => mem'[l] = mem[l]
  BY <1>0 DEF ListTypes
<1>6. ListTypes'
  <2>1. mem' \in [Lists -> SUBSET ListEntries]
    BY <1>0 DEF ListTypes
  <2> QED BY <2>1, <1>0, <1>3 DEF ListTypes
<1> HIDE DEF r
<1>7. LastingInv'
  <2>1. AddedLasts'
    BY <1>0 DEF LastingInv, AddedLasts, FiltersShown, Masks
  <2>2. ASSUME NEW l \in Lists
        PROVE  lasting'[l] \subseteq mem'[l] \/ \E d \in ListCmds : lcmd'[d].pc = "put" /\ lcmd'[d].list = l
    <3>1. CASE l = l0
      BY <3>1, <1>2, <1>4
    <3>2. CASE l # l0
      BY <3>2, <1>0, <1>4, <1>5 DEF LastingInv
    <3> QED BY <3>1, <3>2
  <2>3. ASSUME NEW d \in ListCmds, lcmd'[d].pc = "put"
        PROVE  lasting'[lcmd'[d].list] \subseteq lcmd'[d].old
    <3>1. CASE d = c
      <4>1. lasting[l0] \subseteq mem[l0]
        BY <1>0, <1>1, AloneOrNone DEF LastingInv
      <4> QED BY <4>1, <3>1, <1>0, <1>2, <1>4
    <3>2. CASE d # c
      BY <2>3, <3>2, <1>0, <1>4 DEF LastingInv
    <3> QED BY <3>1, <3>2
  <2> QED BY <2>1, <2>2, <2>3 DEF LastingInv
<1>8. PromiseInv'
  <2> SUFFICES ASSUME NEW d \in ListCmds, Active(d)', lcmd'[d].alone, lcmd'[d].op = "add"
               PROVE  /\ lcmd'[d].list = "filters" /\ lcmd'[d].pc # "live" => Masks(ToSet(lcmd'[d].args)) \subseteq live'
                      /\ lcmd'[d].pc = "save" => ToSet(lcmd'[d].args) \subseteq mem'[lcmd'[d].list]
    BY DEF PromiseInv, Masks, ToSet
  <2>1. d = c
    BY <1>1, <1>4, OthersPromiseNothing DEF Active
  <2>2. l0 = "filters" => Masks(ToSet(lcmd[c].args)) \subseteq live
    BY <2>1, <1>0, <1>1, <1>2, <1>4 DEF PromiseInv
  <2> QED BY <2>1, <2>2, <1>0, <1>2, <1>4
<1>9. SaveInv'
  BY <1>2, <1>4 DEF SaveInv
<1> QED BY <1>3, <1>6, <1>7, <1>8, <1>9

\* The new list is built.
LEMMA ListPutStep ==
  ASSUME ListInv, NEW c \in ListCmds, ListPut(c)
  PROVE  ListInv'
<1> USE DEF ListInv
<1> DEFINE l0 == lcmd[c].list
           old == lcmd[c].old
           args == ToSet(lcmd[c].args)
           r == [lcmd[c] EXCEPT !.pc = "save"]
<1>0. /\ lcmd[c].pc = "put" /\ lcmd[c] \in ListCmdSet /\ l0 \in Lists
      /\ lcmd' = [lcmd EXCEPT ![c] = r]
      /\ old \in SUBSET ListEntries /\ args \in SUBSET ListEntries
      /\ UNCHANGED <<live, disk, lasting, unsaved>>
  <2>1. lcmd' = [lcmd EXCEPT ![c] = r]
    BY DEF ListPut
  <2>2. lcmd[c] \in ListCmdSet
    BY DEF ListTypes
  <2>3. args \in SUBSET ListEntries
    BY <2>2 DEF ListCmdSet, ToSet
  <2> QED BY <2>1, <2>2, <2>3 DEF ListPut, ListCmdSet
<1>1. Active(c)
  BY <1>0 DEF Active
<1>2. /\ r \in ListCmdSet /\ r.pc = "save" /\ r.list = l0 /\ r.op = lcmd[c].op
      /\ r.args = lcmd[c].args /\ r.alone = lcmd[c].alone
  BY <1>0 DEF ListCmdSet, ListPcs
<1>3. lcmd' \in [ListCmds -> ListCmdSet] /\ AloneInv' /\ ArgsInv'
  <2>1. l0 = "filters" /\ lcmd[c].op # "rmAll" => \A f \in ToSet(lcmd[c].args) : MaskOf[f] # "bad"
    BY <1>0, <1>1 DEF ArgsInv
  <2>2. GoesOn(c, r)
    BY <1>0, <1>2 DEF GoesOn
  <2> HIDE DEF r
  <2> QED BY <2>1, <2>2, <1>0, <1>1, <1>2, ListGoesOn
<1>4. lcmd'[c] = r /\ \A d \in ListCmds : d # c => lcmd'[d] = lcmd[d]
  BY <1>0 DEF ListTypes
<1>5. /\ lcmd[c].op = "add" => mem' = [mem EXCEPT ![l0] = @ \union args \union old]
      /\ lcmd[c].op = "rm" /\ l0 = "filters" => mem' = [mem EXCEPT ![l0] = old \ args]
      /\ lcmd[c].op = "rm" /\ l0 # "filters" => mem' = [mem EXCEPT ![l0] = BootstrapRemove(old, args)]
      /\ lcmd[c].op = "rmAll" => mem' = [mem EXCEPT ![l0] = @]
  BY <1>0 DEF ListPut, FiltersAdd, FiltersRemove, BootstrapAdd
<1>6. lcmd[c].op \in {"add", "rm", "rmAll"} /\ BootstrapRemove(old, args) \subseteq old
  BY <1>0 DEF ListCmdSet, BootstrapRemove
<1> HIDE DEF r, args, old, l0
<1>7. mem' \in [Lists -> SUBSET ListEntries] /\ \A l \in Lists : l # l0 => mem'[l] = mem[l]
  BY <1>0, <1>5, <1>6 DEF ListTypes
<1>8. lasting[l0] \subseteq mem'[l0]
  <2>0. lasting[l0] \subseteq old
    BY <1>0 DEF LastingInv, l0, old
  <2>1. Asked(l0, lcmd[c].op, args) = {}
    BY <1>1 DEF ArgsInv, l0, args
  <2>2. CASE lcmd[c].op = "add"
    BY <2>0, <2>2, <1>0, <1>5 DEF ListTypes
  <2>3. CASE lcmd[c].op = "rm" /\ l0 = "filters"
    <3>1. \A f \in args : MaskOf[f] # "bad"
      BY <2>3, <1>0, <1>1 DEF ArgsInv, l0, args
    <3>2. \A e \in lasting[l0] : e \notin args
      BY <2>1, <2>3, <3>1, SparedFilter
    <3> QED BY <2>0, <2>3, <3>2, <1>0, <1>5 DEF ListTypes
  <2>4. CASE lcmd[c].op = "rm" /\ l0 # "filters"
    <3>1. l0 = "bootstrap"
      BY <2>4, <1>0 DEF Lists
    <3>2. \A e \in lasting[l0] : e \in BootstrapRemove(old, args)
      BY <2>0, <2>1, <2>4, <3>1, SparedPeer, RemoveOne
    <3> QED BY <2>4, <3>2, <1>0, <1>5 DEF ListTypes
  <2>5. CASE lcmd[c].op = "rmAll"
    BY <2>1, <2>5 DEF Asked
  <2> QED BY <2>2, <2>3, <2>4, <2>5, <1>6
<1>9. LastingInv'
  <2>1. AddedLasts'
    BY <1>0 DEF LastingInv, AddedLasts, FiltersShown, Masks
  <2>2. ASSUME NEW l \in Lists
        PROVE  lasting'[l] \subseteq mem'[l] \/ \E d \in ListCmds : lcmd'[d].pc = "put" /\ lcmd'[d].list = l
    <3>1. CASE l = l0
      BY <3>1, <1>0, <1>8
    <3>2. CASE l # l0
      BY <3>2, <1>0, <1>4, <1>7 DEF LastingInv, l0
    <3> QED BY <3>1, <3>2
  <2>3. ASSUME NEW d \in ListCmds, lcmd'[d].pc = "put"
        PROVE  lasting'[lcmd'[d].list] \subseteq lcmd'[d].old
    BY <2>3, <1>0, <1>2, <1>4 DEF LastingInv
  <2> QED BY <2>1, <2>2, <2>3 DEF LastingInv
<1>10. PromiseInv'
  <2> SUFFICES ASSUME NEW d \in ListCmds, Active(d)', lcmd'[d].alone, lcmd'[d].op = "add"
               PROVE  /\ lcmd'[d].list = "filters" /\ lcmd'[d].pc # "live" => Masks(ToSet(lcmd'[d].args)) \subseteq live'
                      /\ lcmd'[d].pc = "save" => ToSet(lcmd'[d].args) \subseteq mem'[lcmd'[d].list]
    BY DEF PromiseInv, Masks, ToSet
  <2>1. d = c
    BY <1>1, <1>4, OthersPromiseNothing DEF Active
  <2>2. l0 = "filters" => Masks(args) \subseteq live
    BY <2>1, <1>0, <1>1, <1>2, <1>4 DEF PromiseInv, l0, args
  <2>3. args \subseteq mem'[l0]
    BY <2>1, <1>0, <1>2, <1>4, <1>5 DEF ListTypes
  <2> QED BY <2>1, <2>2, <2>3, <1>0, <1>2, <1>4 DEF args
<1>11. SaveInv'
  BY <1>2, <1>4 DEF SaveInv
<1>12. ListTypes'
  BY <1>0, <1>3, <1>7 DEF ListTypes
<1> QED BY <1>3, <1>9, <1>10, <1>11, <1>12

\* The lists are saved, or not, and the command ends.
LEMMA ListSaveStep ==
  ASSUME ListInv, NEW c \in ListCmds, ListSave(c)
  PROVE  ListInv'
<1> USE DEF ListInv
<1> DEFINE l0 == lcmd[c].list
           args == ToSet(lcmd[c].args)
           added == lcmd[c].op = "add" /\ lcmd[c].alone
<1>0. /\ lcmd[c].pc = "save" /\ lcmd[c] \in ListCmdSet /\ l0 \in Lists /\ args \in SUBSET ListEntries
      /\ lcmd' = [lcmd EXCEPT ![c] = IdleListCmd]
      /\ UNCHANGED <<live, mem>>
      /\ \/ /\ disk' = mem /\ UNCHANGED unsaved
            /\ lasting' = IF added THEN [lasting EXCEPT ![l0] = @ \union args] ELSE lasting
         \/ unsaved' = TRUE /\ UNCHANGED <<disk, lasting>>
  <2>1. lcmd[c] \in ListCmdSet
    BY DEF ListTypes
  <2>2. args \in SUBSET ListEntries
    BY <2>1 DEF ListCmdSet, ToSet
  <2> QED BY <2>1, <2>2 DEF ListSave, ListCmdSet
<1>1. Active(c)
  BY <1>0 DEF Active
<1>2. lcmd'[c] = IdleListCmd /\ ~Active(c)' /\ \A d \in ListCmds : d # c => lcmd'[d] = lcmd[d]
  BY <1>0, IdleListType DEF ListTypes, Active
<1>3. lcmd' \in [ListCmds -> ListCmdSet]
  BY <1>0, IdleListType DEF ListTypes
<1>4. ASSUME NEW l \in Lists
      PROVE  lasting[l] \subseteq mem[l] \/ \E d \in ListCmds : d # c /\ lcmd[d].pc = "put" /\ lcmd[d].list = l
  BY <1>0 DEF LastingInv
<1>5. \/ \A l \in Lists : lasting[l] \subseteq mem[l]
      \/ \A l \in Lists : lasting[l] = {}
  BY <1>1, <1>4, AloneOrNone
<1>6. PromiseInv'
  <2> SUFFICES ASSUME NEW d \in ListCmds, Active(d)', lcmd'[d].alone
               PROVE  FALSE
    BY DEF PromiseInv
  <2> QED BY <1>1, <1>2, OthersPromiseNothing DEF Active
<1>7. SaveInv'
  <2>1. CASE disk' = mem
    BY <2>1, <1>0 DEF SaveInv
  <2>2. CASE unsaved'
    BY <2>2 DEF SaveInv
  <2> QED BY <2>1, <2>2, <1>0
<1> HIDE DEF l0, args
<1>8. CASE added /\ disk' = mem /\ lasting' = [lasting EXCEPT ![l0] = @ \union args]
  <2>1. \A d \in ListCmds : ~Active(d)'
    BY <1>1, <1>2, <1>8 DEF Active, AloneInv
  <2>2. AloneInv' /\ ArgsInv'
    BY <2>1 DEF AloneInv, ArgsInv
  <2>3. \A l \in Lists : lasting[l] \subseteq mem[l]
    BY <1>5
  <2>4. args \subseteq mem[l0] /\ (l0 = "filters" => Masks(args) \subseteq live)
    BY <1>0, <1>1, <1>8 DEF PromiseInv, l0, args
  <2>5. /\ \A l \in Lists : lasting'[l] \subseteq mem[l]
        /\ lasting' \in [Lists -> SUBSET ListEntries]
        /\ lasting'["filters"] = IF l0 = "filters" THEN lasting["filters"] \union args ELSE lasting["filters"]
    BY <2>3, <2>4, <1>0, <1>8 DEF ListTypes, Lists
  <2>6. Masks(lasting'["filters"]) \subseteq live
    <3>1. Masks(lasting["filters"]) \subseteq live
      BY DEF LastingInv, AddedLasts, FiltersShown
    <3>2. Masks(lasting["filters"] \union args) = Masks(lasting["filters"]) \union Masks(args)
      BY DEF Masks
    <3> QED BY <3>1, <3>2, <2>4, <2>5
  <2>7. LastingInv'
    <3>1. AddedLasts'
      BY <2>5, <2>6, <1>0, <1>8 DEF AddedLasts, FiltersShown, Masks
    <3>2. \A d \in ListCmds : lcmd'[d].pc # "put"
      BY <2>1 DEF Active
    <3> QED BY <3>1, <3>2, <2>5, <1>0 DEF LastingInv
  <2>8. ListTypes'
    BY <2>5, <1>0, <1>3, <1>8 DEF ListTypes
  <2> QED BY <2>2, <2>7, <2>8, <1>6, <1>7
<1>9. CASE UNCHANGED lasting /\ (disk' = mem \/ UNCHANGED disk)
  <2>1. AloneInv' /\ ArgsInv'
    <3>1. GoesOn(c, IdleListCmd)
      BY <1>0, IdleListType DEF GoesOn
    <3> QED BY <3>1, <1>1, <1>9, IdleListType, ListGoesOn
  <2>2. \A l \in Lists : lasting'[l] \subseteq disk'[l]
    BY <1>5, <1>9 DEF LastingInv, AddedLasts
  <2>3. LastingInv'
    <3>1. AddedLasts'
      BY <2>2, <1>0, <1>9 DEF LastingInv, AddedLasts, FiltersShown, Masks
    <3>2. ASSUME NEW l \in Lists
          PROVE  lasting'[l] \subseteq mem'[l] \/ \E d \in ListCmds : lcmd'[d].pc = "put" /\ lcmd'[d].list = l
      BY <1>0, <1>2, <1>4, <1>9
    <3>3. ASSUME NEW d \in ListCmds, lcmd'[d].pc = "put"
          PROVE  lasting'[lcmd'[d].list] \subseteq lcmd'[d].old
      BY <3>3, <1>2, <1>9, IdleListType DEF LastingInv
    <3> QED BY <3>1, <3>2, <3>3 DEF LastingInv
  <2>4. ListTypes'
    BY <1>0, <1>3, <1>9 DEF ListTypes
  <2> QED BY <2>1, <2>3, <2>4, <1>6, <1>7
<1> QED BY <1>0, <1>8, <1>9

\* The daemon dies, and starts with the lists of the file.
LEMMA ListRestartStep ==
  ASSUME ListInv, ListRestart
  PROVE  ListInv'
<1> USE DEF ListInv
<1>1. \A c \in ListCmds : lcmd'[c].pc = "idle"
  BY IdleListType DEF ListRestart
<1>2. ListTypes'
  BY IdleListType DEF ListRestart, ListTypes
<1>3. AloneInv' /\ ArgsInv' /\ PromiseInv'
  BY <1>1 DEF AloneInv, ArgsInv, PromiseInv, Active
<1>4. LastingInv'
  <2>1. Masks(lasting["filters"]) \subseteq Masks(disk["filters"])
    BY MasksGrow DEF LastingInv, AddedLasts, Lists
  <2> QED BY <2>1, <1>1 DEF ListRestart, LastingInv, AddedLasts, FiltersShown, Masks
<1>5. SaveInv'
  BY DEF ListRestart, SaveInv
<1> QED BY <1>2, <1>3, <1>4, <1>5

\* The commands that start.
LEMMA ListStartSteps ==
  ASSUME ListInv, NEW c \in ListCmds,
         \/ BootstrapAddDefaultCmd(c) \/ BootstrapRmAllCmd(c)
         \/ \E args \in ListArgs.filtersAdd : FiltersAddCmd(c, args)
         \/ \E args \in ListArgs.filtersRm : FiltersRmCmd(c, args)
         \/ \E args \in ListArgs.bootAdd : BootstrapAddCmd(c, args)
         \/ \E args \in ListArgs.bootRm : BootstrapRmCmd(c, args)
  PROVE  ListInv'
<1>0. /\ BootDefault \in Seq(ListEntries) /\ << >> \in Seq(ListEntries)
      /\ \A args \in ListArgs.filtersAdd \union ListArgs.filtersRm : args \in Seq(ListEntries)
      /\ \A args \in ListArgs.bootAdd \union ListArgs.bootRm : args \in Seq(ListEntries)
  BY ListConstants DEF ListEntries
<1>1. "filters" \in Lists /\ "bootstrap" \in Lists
  BY DEF Lists
<1>2. CASE BootstrapAddDefaultCmd(c)
  BY <1>0, <1>1, <1>2, ListStartStep DEF BootstrapAddDefaultCmd
<1>3. CASE BootstrapRmAllCmd(c)
  BY <1>0, <1>1, <1>3, ListStartStep DEF BootstrapRmAllCmd
<1>4. ASSUME NEW args \in ListArgs.filtersAdd, FiltersAddCmd(c, args)
      PROVE  ListInv'
  BY <1>0, <1>1, <1>4, ListStartStep DEF FiltersAddCmd
<1>5. ASSUME NEW args \in ListArgs.filtersRm, FiltersRmCmd(c, args)
      PROVE  ListInv'
  <2>1. PICK op \in {"rm", "rmAll"} : ListStart(c, "live", "filters", op, args)
    BY <1>5 DEF FiltersRmCmd
  <2> QED BY <2>1, <1>0, <1>1, ListStartStep
<1>6. ASSUME NEW args \in ListArgs.bootAdd, BootstrapAddCmd(c, args)
      PROVE  ListInv'
  BY <1>0, <1>1, <1>6, ListStartStep DEF BootstrapAddCmd
<1>7. ASSUME NEW args \in ListArgs.bootRm, BootstrapRmCmd(c, args)
      PROVE  ListInv'
  BY <1>0, <1>1, <1>7, ListStartStep DEF BootstrapRmCmd
<1> QED BY <1>2, <1>3, <1>4, <1>5, <1>6, <1>7

\* The invariant of the address lists: what lasts is on disk, in the swarm and in
\* memory or in the hand of the one command that edits the list, however additions,
\* removals, failed saves and restarts follow each other.
THEOREM ListInvariant == ListSpec => []ListInv
<1>1. ListInit => ListInv
  <2> SUFFICES ASSUME ListInit PROVE ListInv
    OBVIOUS
  <2>1. \A c \in ListCmds : lcmd[c].pc = "idle"
    BY IdleListType DEF ListInit
  <2>2. ListTypes
    BY IdleListType DEF ListInit, ListTypes
  <2>3. AloneInv /\ ArgsInv /\ PromiseInv /\ SaveInv
    BY <2>1 DEF ListInit, AloneInv, ArgsInv, PromiseInv, SaveInv, Active
  <2>4. LastingInv
    BY <2>1 DEF ListInit, LastingInv, AddedLasts, FiltersShown
  <2> QED BY <2>2, <2>3, <2>4 DEF ListInv
<1>2. ListInv /\ [ListNext]_lVars => ListInv'
  <2> SUFFICES ASSUME ListInv, [ListNext]_lVars PROVE ListInv'
    OBVIOUS
  <2>1. CASE ListRestart
    BY <2>1, ListRestartStep
  <2>2. ASSUME NEW c \in ListCmds, FiltersLive(c) \/ ListTake(c) \/ ListPut(c) \/ ListSave(c)
        PROVE  ListInv'
    BY <2>2, FiltersLiveStep, ListTakeStep, ListPutStep, ListSaveStep
  <2>3. ASSUME NEW c \in ListCmds,
               \/ BootstrapAddDefaultCmd(c) \/ BootstrapRmAllCmd(c)
               \/ \E args \in ListArgs.filtersAdd : FiltersAddCmd(c, args)
               \/ \E args \in ListArgs.filtersRm : FiltersRmCmd(c, args)
               \/ \E args \in ListArgs.bootAdd : BootstrapAddCmd(c, args)
               \/ \E args \in ListArgs.bootRm : BootstrapRmCmd(c, args)
        PROVE  ListInv'
    BY <2>3, ListStartSteps
  <2>4. CASE UNCHANGED lVars
    <3>1. ListTypes' /\ AloneInv' /\ SaveInv'
      BY <2>4 DEF lVars, ListInv, ListTypes, AloneInv, SaveInv, Active
    <3>2. ArgsInv' /\ LastingInv' /\ PromiseInv'
      <4>1. ArgsInv' = ArgsInv
        BY <2>4 DEF lVars, ArgsInv, Active, Asked
      <4>2. LastingInv' = LastingInv
        BY <2>4 DEF lVars, LastingInv, AddedLasts, FiltersShown
      <4>3. PromiseInv' = PromiseInv
        BY <2>4 DEF lVars, PromiseInv, Active
      <4> QED BY <4>1, <4>2, <4>3 DEF ListInv
    <3> QED BY <3>1, <3>2 DEF ListInv
  <2> QED BY <2>1, <2>2, <2>3, <2>4 DEF ListNext
<1> QED BY <1>1, <1>2, PTL DEF ListSpec

\* What a command was told is in the swarm's filters or the bootstrap list stays
\* there, on disk and in the running node, until a command is asked to remove it;
\* and the file and the memory agree when no save has failed.
THEOREM ListEntriesKept == ListSpec => []ListsKept
<1>1. ListInv => ListsKept
  BY DEF ListInv, LastingInv, SaveInv, ListsKept, ListsSaved, BootstrapShown
<1> QED BY <1>1, ListInvariant, PTL

-----------------------------------------------------------------------------
(***************************************************************************)
(* The resource manager.                                                   *)
(*                                                                         *)
(* A running manager has the limits that LimitConfig computes: none of     *)
(* zero, as BuildLimits fills these in, and beside a connection manager    *)
(* none of System on connections at or below its high water mark.  So one  *)
(* of these is reached above that mark.  Of what kubo computes by itself,  *)
(* nothing limits what is dialled without a descriptor, in any scope.      *)
(***************************************************************************)
RmLimit == {v \in Int : v >= BlockAllLimit /\ v # DefaultLimit}
Conn == [at : {"transient", "peer"}, to : Endpoints, mem : BOOLEAN]

LimitTypes ==
  /\ rmCfg \in RmConfigs
  /\ conns \in [ConnIds -> {NoConn} \union Conn]
  /\ refusals \in [OpenScopes -> Nat] /\ counted \in [OpenScopes -> Nat] /\ errLogged \in [OpenScopes -> Nat]

LimitsFit ==
  /\ rmState = "running" => rmLimits = LimitConfig(rmCfg) /\ ~Conflicting(rmLimits, rmCfg)
  /\ rmState = "refused" => Conflicting(LimitConfig(rmCfg), rmCfg)
  /\ rmState # "running" => denials = {}

LimitInv == LimitTypes /\ LimitsFit /\ TrimBeforeRefuse /\ OutboundFree /\ RefusalsLogged

\* The largest of three numbers is one of them, and as large as any.
LEMMA LargestOfThree ==
  ASSUME NEW a \in Int, NEW b \in Int, NEW c \in Int
  PROVE  Largest({a, b, c}) \in {a, b, c} /\ \A y \in {a, b, c} : y <= Largest({a, b, c})
<1>1. \E x \in {a, b, c} : \A y \in {a, b, c} : y <= x
  <2>1. CASE a >= b /\ a >= c
    BY <2>1
  <2>2. CASE b >= a /\ b >= c
    BY <2>2
  <2>3. CASE c >= a /\ c >= b
    BY <2>3
  <2> QED BY <2>1, <2>2, <2>3
<1> DEFINE S == {a, b, c}
<1>2. \E x \in S : \A y \in S : y <= x
  BY <1>1
<1> HIDE DEF S
<1>3. Largest(S) \in S /\ \A y \in S : y <= Largest(S)
  BY <1>2 DEF Largest
<1> QED BY <1>3 DEF S

\* What is computed, with libp2p's defaults filled in.
ComputedBuilt(c) == BuildLimits(ComputedLimits(c), ScaledLimits)
SetLimit == {v \in Int : v = UnlimitedLimit \/ v > 0}

\* It has no limit of zero, a limit on System's inbound connections, and none on streams
\* of System or on what goes out.
LEMMA BuiltLimits ==
  ASSUME NEW c \in RmConfigs
  PROVE  /\ ComputedBuilt(c) \in [Scopes -> [LimitKinds -> SetLimit]]
         /\ ComputedBuilt(c)["system"]["ConnsInbound"] > 0
         /\ \A k \in {"Conns", "Streams", "StreamsInbound"} : ComputedBuilt(c)["system"][k] = UnlimitedLimit
         /\ \A s \in Scopes : \A k \in {"Conns", "ConnsOutbound"} : ComputedBuilt(c)[s][k] = UnlimitedLimit
<1>1. c.mem \in Nat /\ c.fd \in Nat /\ BytesPerMB \in Nat \ {0}
  BY LimitConstants
<1>2. ASSUME NEW share \in {1, 4}
      PROVE  /\ ComputedShare(c, share) \in [LimitKinds -> {v \in Int : v >= UnlimitedLimit}]
             /\ ComputedShare(c, share)["ConnsInbound"] \in Nat
             /\ \A k \in {"Conns", "ConnsOutbound", "Streams", "StreamsInbound"} : ComputedShare(c, share)[k] = UnlimitedLimit
  <2>1. c.mem \div share \in Nat /\ c.fd \div share \in Nat
    BY <1>1
  <2>2. c.mem \div BytesPerMB \in Nat
    BY <1>1
  <2>3. (c.mem \div BytesPerMB) \div share \in Nat
    BY <2>2
  <2> QED BY <2>1, <2>3 DEF ComputedShare, LimitKinds, UnlimitedLimit
<1>3. /\ ComputedLimits(c) = [s \in Scopes |-> ComputedLimits(c)[s]]
      /\ ComputedLimits(c)["system"] = ComputedShare(c, 1)
      /\ ComputedLimits(c)["transient"] = ComputedShare(c, 4)
      /\ ComputedLimits(c)["peer"] =
           [k \in LimitKinds |-> IF k \in {"ConnsInbound", "StreamsInbound"} THEN DefaultLimit ELSE UnlimitedLimit]
  BY DEF ComputedLimits, Scopes
<1>4. ASSUME NEW s \in Scopes
      PROVE  /\ ComputedLimits(c)[s] \in [LimitKinds -> {v \in Int : v >= UnlimitedLimit}]
             /\ \A k \in {"Conns", "ConnsOutbound"} : ComputedLimits(c)[s][k] = UnlimitedLimit
  <2>1. CASE s = "system"
    BY <1>2, <1>3, <2>1
  <2>2. CASE s = "transient"
    BY <1>2, <1>3, <2>2
  <2>3. CASE s = "peer"
    BY <1>3, <2>3 DEF LimitKinds, DefaultLimit, UnlimitedLimit
  <2> QED BY <2>1, <2>2, <2>3 DEF Scopes
<1>5. ASSUME NEW s \in Scopes, NEW k \in LimitKinds
      PROVE  /\ ComputedBuilt(c)[s][k] =
                  IF ComputedLimits(c)[s][k] = DefaultLimit THEN ScaledLimits[s][k] ELSE ComputedLimits(c)[s][k]
             /\ ComputedBuilt(c)[s][k] \in SetLimit
  <2>1. ScaledLimits[s][k] \in Nat \ {0}
    BY LimitConstants
  <2>2. ComputedLimits(c)[s][k] \in Int /\ ComputedLimits(c)[s][k] >= UnlimitedLimit
    BY <1>4
  <2>3. ComputedBuilt(c)[s][k] =
          IF ComputedLimits(c)[s][k] = DefaultLimit THEN ScaledLimits[s][k] ELSE ComputedLimits(c)[s][k]
    BY DEF ComputedBuilt, BuildLimits
  <2> QED BY <2>1, <2>2, <2>3 DEF SetLimit, DefaultLimit, UnlimitedLimit
<1>6. ComputedBuilt(c) \in [Scopes -> [LimitKinds -> SetLimit]]
  <2>1. ComputedBuilt(c) = [s \in Scopes |-> [k \in LimitKinds |-> ComputedBuilt(c)[s][k]]]
    BY DEF ComputedBuilt, BuildLimits
  <2> QED BY <1>5, <2>1
<1>7. "system" \in Scopes /\ {"Conns", "ConnsInbound", "ConnsOutbound", "Streams", "StreamsInbound"} \subseteq LimitKinds
  BY DEF Scopes, LimitKinds
<1>8. ComputedBuilt(c)["system"]["ConnsInbound"] > 0
  <2>1. ComputedLimits(c)["system"]["ConnsInbound"] \in Nat
    BY <1>2, <1>3
  <2>2. ScaledLimits["system"]["ConnsInbound"] \in Nat \ {0}
    BY <1>7, LimitConstants
  <2> QED BY <1>5, <1>7, <2>1, <2>2 DEF DefaultLimit
<1>9. \A k \in {"Conns", "Streams", "StreamsInbound"} : ComputedBuilt(c)["system"][k] = UnlimitedLimit
  BY <1>2, <1>3, <1>5, <1>7 DEF DefaultLimit, UnlimitedLimit
<1>10. \A s \in Scopes : \A k \in {"Conns", "ConnsOutbound"} : ComputedBuilt(c)[s][k] = UnlimitedLimit
  BY <1>4, <1>5, <1>7 DEF DefaultLimit, UnlimitedLimit
<1> QED BY <1>6, <1>8, <1>9, <1>10

\* Raising changes System's inbound connections only, and beside a connection manager to
\* more than its high water mark.
LEMMA RaisedLimits ==
  ASSUME NEW c \in RmConfigs
  PROVE  /\ DefaultLimits(c) \in [Scopes -> [LimitKinds -> SetLimit]]
         /\ \A s \in Scopes, k \in LimitKinds :
              <<s, k>> # <<"system", "ConnsInbound">> => DefaultLimits(c)[s][k] = ComputedBuilt(c)[s][k]
         /\ c.connMgr # "none" => DefaultLimits(c)["system"]["ConnsInbound"] > c.highWater
<1> DEFINE sys == ComputedBuilt(c)["system"]
           v == sys["ConnsInbound"]
           w == 2 * c.highWater
           most == Largest({v, w, MinInbound})
<1>1. "system" \in Scopes /\ "ConnsInbound" \in LimitKinds /\ "StreamsInbound" \in LimitKinds
  BY DEF Scopes, LimitKinds
<1>2. sys \in [LimitKinds -> SetLimit] /\ v \in Int /\ v > 0 /\ sys["StreamsInbound"] = UnlimitedLimit
  BY <1>1, BuiltLimits DEF SetLimit
<1>3. c.highWater \in Nat /\ w \in Int /\ MinInbound \in Int
  BY LimitConstants
<1>4. DefaultLimits(c) = [ComputedBuilt(c) EXCEPT !["system"] = Raised(sys, c)]
  BY DEF DefaultLimits, ComputedBuilt
<1>5. CASE c.connMgr = "none"
  <2>1. Raised(sys, c) = sys
    BY <1>5 DEF Raised
  <2>2. DefaultLimits(c) = ComputedBuilt(c)
    BY <1>4, <2>1, BuiltLimits
  <2> QED BY <1>5, <2>2, BuiltLimits
<1>6. CASE c.connMgr # "none"
  <2>1. Raised(sys, c) = [sys EXCEPT !["StreamsInbound"] = UnlimitedLimit, !["ConnsInbound"] = most]
    BY <1>1, <1>2, <1>6 DEF Raised, DefaultLimit, UnlimitedLimit
  <2> HIDE DEF v, w
  <2>2. most \in {v, w, MinInbound} /\ v <= most /\ w <= most
    BY <1>2, <1>3, LargestOfThree
  <2>3. most \in Int /\ most > 0 /\ most > c.highWater
    <3>1. most \in Int /\ most > 0
      BY <1>2, <1>3, <2>2
    <3>2. w = c.highWater + c.highWater
      BY <1>3 DEF w
    <3> HIDE DEF most
    <3> QED BY <1>3, <2>2, <3>1, <3>2
  <2> HIDE DEF most
  <2>4. Raised(sys, c) = [sys EXCEPT !["ConnsInbound"] = most]
    BY <1>2, <2>1
  <2>5. Raised(sys, c) \in [LimitKinds -> SetLimit]
    BY <1>2, <2>3, <2>4 DEF SetLimit
  <2>6. /\ Raised(sys, c)["ConnsInbound"] = most
        /\ \A k \in LimitKinds : k # "ConnsInbound" => Raised(sys, c)[k] = sys[k]
    BY <1>1, <1>2, <2>4
  <2> HIDE DEF sys
  <2>7. DefaultLimits(c) \in [Scopes -> [LimitKinds -> SetLimit]]
    BY <1>4, <2>5, BuiltLimits
  <2>8. /\ DefaultLimits(c)["system"] = Raised(sys, c)
        /\ \A s \in Scopes : s # "system" => DefaultLimits(c)[s] = ComputedBuilt(c)[s]
    BY <1>1, <1>4, BuiltLimits
  <2> QED BY <2>3, <2>6, <2>7, <2>8 DEF sys
<1> QED BY <1>5, <1>6

\* The limits that the manager is given are numbers, and none is left to a default; an
\* empty file of the user changes none.
LEMMA LimitConfigTypes ==
  ASSUME NEW c \in RmConfigs
  PROVE  /\ LimitConfig(c) \in [Scopes -> [LimitKinds -> RmLimit]]
         /\ NoLimitsOf(c) => \A s \in Scopes, k \in LimitKinds : LimitConfig(c)[s][k] = DefaultLimits(c)[s][k]
<1>1. c.user \in [Scopes -> [LimitKinds -> {v \in Int : v >= BlockAllLimit}]]
  BY LimitConstants DEF PartialLimits
<1>2. DefaultLimits(c) \in [Scopes -> [LimitKinds -> SetLimit]]
  BY RaisedLimits
<1>3. LimitConfig(c) =
        [s \in Scopes |-> [k \in LimitKinds |-> IF c.user[s][k] = DefaultLimit THEN DefaultLimits(c)[s][k] ELSE c.user[s][k]]]
  BY DEF LimitConfig, BuildLimits
<1>4. ASSUME NEW s \in Scopes, NEW k \in LimitKinds
      PROVE  (IF c.user[s][k] = DefaultLimit THEN DefaultLimits(c)[s][k] ELSE c.user[s][k]) \in RmLimit
  <2>1. c.user[s][k] \in Int /\ c.user[s][k] >= BlockAllLimit
    BY <1>1
  <2>2. DefaultLimits(c)[s][k] \in SetLimit
    BY <1>2
  <2> QED BY <2>1, <2>2 DEF RmLimit, SetLimit, DefaultLimit, UnlimitedLimit, BlockAllLimit
<1>5. LimitConfig(c) \in [Scopes -> [LimitKinds -> RmLimit]]
  BY <1>3, <1>4
<1>6. NoLimitsOf(c) => \A s \in Scopes, k \in LimitKinds : LimitConfig(c)[s][k] = DefaultLimits(c)[s][k]
  BY <1>3 DEF NoLimitsOf
<1> QED BY <1>5, <1>6

\* What kubo computes by itself makes sense beside the connection manager, and does not
\* limit what goes out.
LEMMA ComputedMakeSense ==
  ASSUME NEW c \in RmConfigs, NoLimitsOf(c)
  PROVE  /\ ~Conflicting(LimitConfig(c), c)
         /\ \A s \in Scopes : \A k \in {"Conns", "ConnsOutbound"} : LimitConfig(c)[s][k] = UnlimitedLimit
<1>1. {"Conns", "ConnsInbound", "ConnsOutbound", "Streams", "StreamsInbound"} \subseteq LimitKinds /\ "system" \in Scopes
  BY DEF LimitKinds, Scopes
<1>2. \A s \in Scopes, k \in LimitKinds : LimitConfig(c)[s][k] = DefaultLimits(c)[s][k]
  BY LimitConfigTypes
<1>3. \A s \in Scopes : \A k \in {"Conns", "ConnsOutbound"} : LimitConfig(c)[s][k] = UnlimitedLimit
  <2> SUFFICES ASSUME NEW s \in Scopes, NEW k \in {"Conns", "ConnsOutbound"}
               PROVE  LimitConfig(c)[s][k] = UnlimitedLimit
    OBVIOUS
  <2>1. k \in LimitKinds /\ <<s, k>> # <<"system", "ConnsInbound">>
    BY <1>1
  <2> QED BY <1>2, <2>1, RaisedLimits, BuiltLimits
<1>4. \A k \in {"Conns", "Streams", "StreamsInbound"} : LimitConfig(c)["system"][k] = UnlimitedLimit
  <2> SUFFICES ASSUME NEW k \in {"Conns", "Streams", "StreamsInbound"}
               PROVE  LimitConfig(c)["system"][k] = UnlimitedLimit
    OBVIOUS
  <2>1. k \in LimitKinds /\ <<"system", k>> # <<"system", "ConnsInbound">>
    BY <1>1
  <2> QED BY <1>1, <1>2, <2>1, RaisedLimits, BuiltLimits
<1>5. c.connMgr # "none" => LimitConfig(c)["system"]["ConnsInbound"] > c.highWater
  BY <1>1, <1>2, RaisedLimits
<1>6. LimitConfig(c)["system"]["ConnsInbound"] \in Int /\ c.highWater \in Nat
  BY <1>1, LimitConfigTypes, LimitConstants DEF RmLimit
<1>7. ASSUME NEW k \in SenseKinds, c.connMgr # "none"
      PROVE  ~MakesNoSense(LimitConfig(c)["system"][k], c)
  <2>1. CASE k = "ConnsInbound"
    BY <1>5, <1>6, <1>7, <2>1 DEF MakesNoSense
  <2>2. CASE k # "ConnsInbound"
    BY <1>4, <2>2 DEF MakesNoSense, SenseKinds, UnlimitedLimit, DefaultLimit, BlockAllLimit
  <2> QED BY <2>1, <2>2
<1> QED BY <1>3, <1>7 DEF Conflicting

\* A limit of System on connections is reached above the high water mark only.
LEMMA ReachedAbove ==
  ASSUME LimitInv, rmState = "running", rmCfg.connMgr # "none", ~rmCfg.allowlist,
         NEW k \in SenseKinds, <<"system", k>> \in Lacking(OpenScopes \X LimitKinds)
  PROVE  ~(Cardinality(Held("system")) <= rmCfg.highWater)
<1> DEFINE limit == rmLimits["system"][k]
           held == Held("system")
           used == Cardinality({i \in held : Uses(conns[i].to, k)})
<1>1. k \in LimitKinds /\ k # "Memory" /\ "system" \in Scopes /\ "system" \in OpenScopes
  BY DEF SenseKinds, LimitKinds, Scopes, OpenScopes
<1>2. limit \in RmLimit /\ ~MakesNoSense(limit, rmCfg) /\ rmCfg.highWater \in Nat
  BY <1>1, LimitConfigTypes, LimitConstants DEF LimitInv, LimitTypes, LimitsFit, Conflicting
<1>3. LimitOf("system", k) = limit /\ Usage("system", k) = used
  BY <1>1 DEF LimitOf, Usage
<1>4. Exceeded(limit, used + 1)
  <2>1. Exceeded(LimitOf("system", k), Usage("system", k) + 1)
    BY <1>1 DEF Lacking
  <2> QED BY <1>3, <2>1
<1>5. IsFiniteSet(held) /\ {i \in held : Uses(conns[i].to, k)} \subseteq held
  <2>1. held \subseteq ConnIds /\ IsFiniteSet(ConnIds)
    BY LimitConstants DEF Held
  <2> QED BY <2>1, FS_Subset
<1>6. used \in Nat /\ Cardinality(held) \in Nat /\ used <= Cardinality(held)
  BY <1>5, FS_Subset, FS_CardinalityType
<1> HIDE DEF limit, used, held
<1>7. limit > 0 /\ used >= limit
  BY <1>2, <1>4, <1>6 DEF RmLimit, Exceeded, MakesNoSense, DefaultLimit, UnlimitedLimit, BlockAllLimit
<1>8. limit > rmCfg.highWater
  BY <1>2, <1>7 DEF RmLimit, MakesNoSense, DefaultLimit
<1>9. ~(Cardinality(held) <= rmCfg.highWater)
  BY <1>2, <1>6, <1>7, <1>8 DEF RmLimit
<1> QED BY <1>9 DEF held

\* What is denials, by a limit that is reached, leaves the invariant as it is.
LEMMA RefusalAllowed ==
  ASSUME LimitInv, rmState = "running", UNCHANGED <<rmCfg, rmState, rmLimits>>,
         NEW scope, NEW kind, NEW e \in Endpoints, RefusedBy(scope, kind, e),
         scope = "system" /\ kind \in SenseKinds => <<"system", kind>> \in Lacking(OpenScopes \X LimitKinds),
         NoLimitsOf(rmCfg) /\ ~e.inbound /\ ~e.fd => scope = "subnet" \/ kind = "Memory"
  PROVE  TrimBeforeRefuse' /\ OutboundFree'
<1> DEFINE new == [scope |-> scope, kind |-> kind, to |-> e, low |-> Cardinality(Held("system")) <= rmCfg.highWater]
<1>1. denials' = denials \union {new} /\ rmCfg' = rmCfg
  BY DEF RefusedBy
<1>2. rmCfg.connMgr # "none" /\ ~rmCfg.allowlist => (new.low => ~(new.scope = "system" /\ new.kind \in SenseKinds))
  BY ReachedAbove
<1>3. NoLimitsOf(rmCfg) => (~new.to.inbound /\ ~new.to.fd => new.scope = "subnet" \/ new.kind = "Memory")
  OBVIOUS
<1>4. TrimBeforeRefuse /\ OutboundFree
  BY DEF LimitInv
<1> HIDE DEF new
<1>5. NoLimitsOf(rmCfg)' = NoLimitsOf(rmCfg)
  BY <1>1 DEF NoLimitsOf
<1>6. TrimBeforeRefuse'
  BY <1>1, <1>2, <1>4 DEF TrimBeforeRefuse
<1>7. OutboundFree'
  BY <1>1, <1>3, <1>4, <1>5 DEF OutboundFree
<1> QED BY <1>6, <1>7

\* Without limits of the user, System and Transient have room for what is dialled without a
\* descriptor, and so has its peer.
LEMMA OutboundHasRoom ==
  ASSUME LimitInv, rmState = "running", NoLimitsOf(rmCfg),
         NEW e \in Endpoints, ~e.inbound, ~e.fd,
         NEW s \in OpenScopes \union {e.peer}, NEW k \in LimitKinds, Uses(e, k)
  PROVE  ~Exceeded(LimitOf(s, k), Usage(s, k) + 1)
<1>1. k \in {"Conns", "ConnsOutbound"}
  BY DEF Uses
<1>2. \A z \in Scopes : rmLimits[z][k] = UnlimitedLimit
  BY <1>1, ComputedMakeSense DEF LimitInv, LimitTypes, LimitsFit
<1>3. LimitOf(s, k) = UnlimitedLimit
  <2>1. CASE s \in OpenScopes
    BY <1>2, <2>1 DEF LimitOf, OpenScopes, Scopes
  <2>2. CASE s \notin OpenScopes
    <3>1. LimitOf(s, k) = rmLimits["peer"][k]
      BY <1>1, <2>2 DEF LimitOf
    <3> QED BY <1>2, <3>1 DEF Scopes
  <2> QED BY <2>1, <2>2
<1> QED BY <1>3 DEF Exceeded, UnlimitedLimit, BlockAllLimit

\* A step of the manager.
LEMMA LimitsStep ==
  ASSUME LimitInv, [LimitsNext]_rlVars
  PROVE  LimitInv'
<1> USE DEF LimitInv
<1>1. CASE RmStart
  <2>1. /\ rmState = "start" /\ denials = {}
        /\ UNCHANGED <<rmCfg, conns, denials, refusals, counted, errLogged>>
    BY <1>1 DEF RmStart, LimitsFit
  <2>2. LimitTypes' /\ RefusalsLogged'
    BY <2>1 DEF LimitTypes, RefusalsLogged
  <2>3. LimitsFit'
    BY <1>1, <2>1 DEF RmStart, LimitsFit
  <2> QED BY <2>1, <2>2, <2>3 DEF TrimBeforeRefuse, OutboundFree
<1>2. ASSUME NEW e \in Endpoints, OpenConnection(e)
      PROVE  LimitInv'
  <2>1. conns' \in [ConnIds -> {NoConn} \union Conn]
    BY <1>2 DEF OpenConnection, LimitTypes, Conn
  <2>2. UNCHANGED <<rmCfg, rmState, rmLimits, denials, refusals, counted, errLogged>>
    BY <1>2 DEF OpenConnection
  <2> QED BY <2>1, <2>2 DEF LimitTypes, LimitsFit, TrimBeforeRefuse, OutboundFree, NoLimitsOf, RefusalsLogged
<1>3. ASSUME NEW i \in ConnIds, GoOn(i) \/ CloseConnection(i)
      PROVE  LimitInv'
  <2>1. conns' \in [ConnIds -> {NoConn} \union Conn]
    <3>1. conns[i] # NoConn /\ conns[i] \in Conn
      BY <1>3 DEF GoOn, CloseConnection, LimitTypes
    <3>2. CASE GoOn(i)
      <4>1. [conns[i] EXCEPT !.at = "peer"] \in Conn /\ [conns[i] EXCEPT !.mem = TRUE] \in Conn
        BY <3>1 DEF Conn
      <4> QED BY <3>2, <4>1 DEF GoOn, LimitTypes
    <3>3. CASE CloseConnection(i)
      BY <3>3 DEF CloseConnection, LimitTypes
    <3> QED BY <1>3, <3>2, <3>3
  <2>2. UNCHANGED <<rmCfg, rmState, rmLimits, denials, refusals, counted, errLogged>>
    BY <1>3 DEF GoOn, CloseConnection
  <2> QED BY <2>1, <2>2 DEF LimitTypes, LimitsFit, TrimBeforeRefuse, OutboundFree, NoLimitsOf, RefusalsLogged
<1>4. ASSUME NEW e \in Endpoints, RefuseConnection(e)
      PROVE  LimitInv'
  <2>1. PICK w \in Lacking(ToOpen(e)) :
          /\ RefusedBy(w[1], w[2], e) /\ counted' = [counted EXCEPT ![w[1]] = @ + 1]
          /\ refusals' = [refusals EXCEPT ![w[1]] = @ + 1]
    BY <1>4 DEF RefuseConnection, CountErr
  <2>2. rmState = "running" /\ UNCHANGED <<rmCfg, rmState, rmLimits, conns, errLogged>>
    BY <1>4 DEF RefuseConnection
  <2>3. /\ w \in OpenScopes \X LimitKinds /\ w[1] \in OpenScopes /\ w[2] \in LimitKinds /\ Uses(e, w[2])
        /\ w \in Lacking(OpenScopes \X LimitKinds) /\ w = <<w[1], w[2]>>
        /\ Exceeded(LimitOf(w[1], w[2]), Usage(w[1], w[2]) + IF w[2] = "Memory" THEN MuxMemory ELSE 1)
    BY DEF Lacking, ToOpen
  <2>4. LimitTypes' /\ RefusalsLogged'
    BY <2>1, <2>2, <2>3 DEF LimitTypes, RefusalsLogged
  <2>5. NoLimitsOf(rmCfg) /\ ~e.inbound /\ ~e.fd => w[1] = "subnet" \/ w[2] = "Memory"
    BY <2>2, <2>3, OutboundHasRoom
  <2>6. w[1] = "system" /\ w[2] \in SenseKinds => <<"system", w[2]>> \in Lacking(OpenScopes \X LimitKinds)
    BY <2>3
  <2>7. TrimBeforeRefuse' /\ OutboundFree'
    BY <2>1, <2>2, <2>5, <2>6, RefusalAllowed
  <2> QED BY <2>2, <2>4, <2>7 DEF LimitsFit
<1>5. ASSUME NEW e \in Endpoints, RefuseSubnet(e)
      PROVE  LimitInv'
  <2>1. rmState = "running" /\ RefusedBy("subnet", "Conns", e) /\ UNCHANGED <<rmCfg, rmState, rmLimits, conns, refusals, counted, errLogged>>
    BY <1>5 DEF RefuseSubnet
  <2>2. TrimBeforeRefuse' /\ OutboundFree'
    BY <2>1, RefusalAllowed
  <2> QED BY <2>1, <2>2 DEF LimitTypes, LimitsFit, RefusalsLogged
<1>6. ASSUME NEW i \in ConnIds, RefuseLater(i)
      PROVE  LimitInv'
  <2> DEFINE e == conns[i].to
  <2>1. PICK w \in Lacking(ToGoOn(i)) : RefusedBy(w[1], w[2], e)
    BY <1>6 DEF RefuseLater
  <2>2. /\ rmState = "running" /\ conns[i] # NoConn /\ conns' = [conns EXCEPT ![i] = NoConn]
        /\ UNCHANGED <<rmCfg, rmState, rmLimits, refusals, counted, errLogged>>
    BY <1>6 DEF RefuseLater
  <2>3. e \in Endpoints /\ e.peer \in LimitPeers /\ conns[i].at \in {"transient", "peer"}
    BY <2>2, LimitConstants DEF LimitTypes, Conn
  <2>4. e.peer \notin {"system", "transient", "subnet"}
    BY <2>3, LimitConstants
  <2>5. \/ w[1] = e.peer /\ w[2] \in LimitKinds /\ Uses(e, w[2]) /\ w[2] # "Memory"
        \/ w[1] \in {"system", e.peer} /\ w[2] = "Memory"
    BY DEF Lacking, ToGoOn, Uses
  <2>6. Exceeded(LimitOf(w[1], w[2]), Usage(w[1], w[2]) + IF w[2] = "Memory" THEN MuxMemory ELSE 1)
    BY DEF Lacking
  <2> HIDE DEF e
  <2>7. NoLimitsOf(rmCfg) /\ ~e.inbound /\ ~e.fd => w[1] = "subnet" \/ w[2] = "Memory"
    BY <2>2, <2>3, <2>5, <2>6, OutboundHasRoom
  <2>8. ~(w[1] = "system" /\ w[2] \in SenseKinds)
    BY <2>4, <2>5 DEF SenseKinds
  <2>9. TrimBeforeRefuse' /\ OutboundFree'
    BY <2>1, <2>2, <2>3, <2>7, <2>8, RefusalAllowed
  <2>10. LimitTypes' /\ RefusalsLogged'
    BY <2>2 DEF LimitTypes, RefusalsLogged
  <2> QED BY <2>2, <2>9, <2>10 DEF LimitsFit
<1>7. CASE LogTick
  <2>1. LimitTypes'
    BY <1>7 DEF LogTick, LimitTypes, NoErrs
  <2>2. RefusalsLogged'
    BY <1>7 DEF LogTick, LimitTypes, RefusalsLogged, NoErrs
  <2> QED BY <2>1, <2>2, <1>7 DEF LogTick, LimitsFit, TrimBeforeRefuse, OutboundFree, NoLimitsOf
<1>8. CASE UNCHANGED rlVars
  BY <1>8 DEF rlVars, LimitTypes, LimitsFit, TrimBeforeRefuse, OutboundFree, NoLimitsOf, RefusalsLogged
<1> QED BY <1>1, <1>2, <1>3, <1>4, <1>5, <1>6, <1>7, <1>8 DEF LimitsNext

\* The invariant of the resource manager: it runs with the limits that were computed,
\* overridden and checked, what they refused they may refuse, and it is all accounted for.
THEOREM LimitsInvariant == LimitsSpec => []LimitInv
<1>1. LimitsInit => LimitInv
  <2> SUFFICES ASSUME LimitsInit PROVE LimitInv
    OBVIOUS
  <2>1. rmState = "start" /\ denials = {}
    BY DEF LimitsInit
  <2>2. LimitTypes /\ RefusalsLogged
    BY DEF LimitsInit, LimitTypes, RefusalsLogged, NoErrs
  <2> QED BY <2>1, <2>2 DEF LimitInv, LimitsFit, TrimBeforeRefuse, OutboundFree
<1> QED BY <1>1, LimitsStep, PTL DEF LimitsSpec

\* The limits of System that are checked refuse no connection at or below the high water
\* mark, those computed without the user pass the check and do not limit what is dialled, no
\* refusal to open is lost to a tick of the log, and every limit of a peer is listed.
THEOREM LimitsAreSound == LimitsSpec => []LimitsSound
<1>1. LimitInv => LimitsListed
  <2> SUFFICES ASSUME LimitInv, NEW p \in DOMAIN rmCfg.peers, LimitOf(p, "ConnsInbound") \notin {UnlimitedLimit, DefaultLimit}
               PROVE  <<p, PeerRow(p)>> \in ResourceInfos
    BY DEF LimitsListed
  <2>1. p \in LimitPeers /\ p \in DOMAIN MergedPeers
    BY LimitConstants DEF LimitInv, LimitTypes, MergedPeers
  <2>2. MergedPeers[p] = PeerRow(p)
    <3>1. CASE p \in StatPeers
      BY <2>1, <3>1 DEF MergedPeers
    <3>2. CASE p \notin StatPeers
      <4>1. Held(p) = {}
        BY <2>1, <3>2 DEF StatPeers
      <4>2. {i \in Held(p) : Uses(conns[i].to, "ConnsInbound")} = {}
        BY <4>1
      <4>3. Usage(p, "ConnsInbound") = 0
        BY <4>2, FS_EmptySet DEF Usage
      <4> QED BY <2>1, <3>2, <4>3 DEF MergedPeers, PeerRow
    <3> QED BY <3>1, <3>2
  <2>3. Shown(MergedPeers[p])
    BY <2>2 DEF Shown, PeerRow, LimitRow
  <2>4. <<p, MergedPeers[p]>> \in Resources
    BY <2>1 DEF Resources
  <2> QED BY <2>2, <2>3, <2>4 DEF ResourceInfos
<1>2. LimitInv => DefaultsStart
  BY ComputedMakeSense DEF LimitInv, LimitTypes, LimitsFit, DefaultsStart
<1>3. LimitInv => LimitsSound
  BY <1>1, <1>2 DEF LimitInv, LimitsSound
<1> QED BY <1>3, LimitsInvariant, PTL

-----------------------------------------------------------------------------
(***************************************************************************)
(* The mounted file systems.                                               *)
(*                                                                         *)
(* In /mfs a rename gives the file its new name before it takes the old    *)
(* one, at a different place, and a file that has not gone astray is at    *)
(* the same place in memory and in the flushed root, also in the middle of *)
(* a request.  Only a file that a command has moved in memory and not yet  *)
(* flushed at its new place is in the root at the old one.                 *)
(***************************************************************************)
RenameReqs == {"mfsTarget", "mfsAdd", "mfsOld"}
FDirReqs == {"idle", "ipnsAdd", "cmdPut", "cmdFlush", "mvDst", "mvSrc", "mvRoot"} \union RenameReqs

DirTypes ==
  /\ tree \in [FDirs -> [FNames -> Nat]] /\ root \in [FDirs -> [FNames -> Nat]]
  /\ kept \subseteq FileIds
  /\ fop \in [req : FDirReqs, dir : {fop.dir}, name : {fop.name}, to : {fop.to}, new : {fop.new}, file : Nat]
  /\ fop.req # "idle" =>
       /\ fop.dir \in FDirs /\ fop.name \in FNames /\ fop.to \in FDirs /\ fop.new \in FNames
       /\ fop.req = "ipnsAdd" <=> fsKind # "mfs"

\* The rename in progress: where its file is.
RenameInv ==
  /\ fop.req \in RenameReqs =>
       /\ fop.dir # fop.to \/ fop.name # fop.new
       /\ tree[fop.dir][fop.name] = fop.file
       /\ fop.req = "mfsOld" => tree[fop.to][fop.new] = fop.file
  /\ fop.req = "cmdFlush" => tree[fop.dir][fop.name] = fop.file
  /\ fop.req = "mvDst" => tree[fop.to][fop.new] = fop.file

\* A file that is flushed is at the same place in memory and in the root.
Placed(f) == \E d \in FDirs, n \in FNames : tree[d][n] = f /\ root[d][n] = f
Moving(f) == fop.req = "mvDst" /\ f = fop.file /\ root[fop.dir][fop.name] = f
FlushedInv == \A f \in kept \ astray : Placed(f) \/ Moving(f)

DirInv == DirTypes /\ (fsKind = "mfs" => RenameInv /\ FilesNamed /\ FlushedInv)

\* The file that is open: what is acknowledged was flushed, and reads keep to themselves.
FReaderSet == [pc : {"idle", "sought", "done"}, off : Offsets \union {0}, got : Offsets \union {0}]
FileInv ==
  /\ fhandle \in [open : BOOLEAN, pos : Offsets \union {0}, written : Nat, durable : Nat, acked : Nat, asked : Nat]
  /\ freader \in [Readers -> FReaderSet]
  /\ fhandle.acked <= fhandle.durable /\ fhandle.durable <= fhandle.written /\ fhandle.asked <= fhandle.written
  /\ fsync = "flushed" => fhandle.asked <= fhandle.durable
  /\ fsKind = "mfs" => \A r \in Readers : freader[r].pc # "sought"
  /\ ReadsOwnOffset

\* A symlink that was looked at has its target at hand.
RoInv ==
  /\ ro \in [nd : RoTypes \union {"missing", "none"}, cached : BOOLEAN,
             out : {"none", "looked", "enoent", "panic", "attr", "entries", "error", "target", "einval", "data"}]
  /\ ro.nd = "symlink" /\ ro.out \notin {"looked", "panic"} => ro.cached
  /\ SymlinkReadable

FuseInv == DirInv /\ FileInv /\ RoInv

-----------------------------------------------------------------------------
\* No request in progress.
LEMMA NoOpType ==
  /\ NoOp.req = "idle"
  /\ NoOp \in [req : FDirReqs, dir : {NoOp.dir}, name : {NoOp.name}, to : {NoOp.to}, new : {NoOp.new}, file : Nat]
BY DEF NoOp, FDirReqs, RenameReqs, NoFile

\* A file is made at a free place: the files that were there before stay at theirs.
LEMMA FileMade ==
  ASSUME DirInv, fsKind = "mfs", NEW d \in FDirs, NEW n \in FNames, NEW f \in FileIds,
         FreeFile(f), AddChild(d, n, f), kept' = kept \union {f}, UNCHANGED fsKind, fop.req # "mvDst",
         \/ FlushDir(d) /\ astray' = astray \ {f}
         \/ UNCHANGED root /\ astray' = astray \union {f}
  PROVE  /\ tree' \in [FDirs -> [FNames -> Nat]] /\ root' \in [FDirs -> [FNames -> Nat]] /\ kept' \subseteq FileIds
         /\ tree'[d][n] = f /\ FilesNamed' /\ FlushedInv'
<1> USE DEF DirInv
<1>0. f \in Nat /\ f # NoFile /\ \A g \in kept : g # f /\ g # NoFile
  BY FuseFSConstants DEF FileIds, FreeFile, NoFile, DirTypes
<1>1. /\ tree[d][n] = NoFile /\ tree' \in [FDirs -> [FNames -> Nat]] /\ tree'[d][n] = f
      /\ \A x \in FDirs, y \in FNames : tree[x][y] # NoFile => tree'[x][y] = tree[x][y]
  BY <1>0 DEF AddChild, DirTypes
<1>2. root' \in [FDirs -> [FNames -> Nat]] /\ \A x \in FDirs : root'[x] = root[x] \/ root'[x] = tree'[x]
  BY SMTT(20), <1>1 DEF FlushDir, DirTypes
<1>3. kept' \subseteq FileIds
  BY DEF DirTypes
<1>5. FilesNamed'
  <2> SUFFICES ASSUME NEW g \in kept' PROVE \E x \in FDirs, y \in FNames : tree'[x][y] = g
    BY DEF FilesNamed, Holds
  <2>1. CASE g = f
    BY <2>1, <1>1
  <2>2. CASE g \in kept
    <3>1. PICK x \in FDirs, y \in FNames : tree[x][y] = g
      BY <2>2 DEF FilesNamed, Holds
    <3> QED BY <3>1, <2>2, <1>0, <1>1
  <2> QED BY <2>1, <2>2
<1>6. FlushedInv'
  <2> SUFFICES ASSUME NEW g \in kept', g \notin astray'
               PROVE  \E x \in FDirs, y \in FNames : tree'[x][y] = g /\ root'[x][y] = g
    BY DEF FlushedInv, Placed, Moving
  <2>1. CASE g = f
    <3>1. root'[d] = tree'[d]
      BY <2>1 DEF FlushDir, DirTypes
    <3> QED BY <2>1, <3>1, <1>1
  <2>2. CASE g \in kept
    <3>1. PICK x \in FDirs, y \in FNames : tree[x][y] = g /\ root[x][y] = g
      BY <2>2, <1>0 DEF FlushedInv, Placed, Moving
    <3> QED BY <3>1, <2>2, <1>0, <1>1, <1>2
  <2> QED BY <2>1, <2>2
<1> QED BY <1>1, <1>2, <1>3, <1>5, <1>6

\* A place is emptied, and the file of that name is given up, or is at another place.
LEMMA PlaceEmptied ==
  ASSUME DirInv, fsKind = "mfs", UNCHANGED fsKind, NEW d \in FDirs, NEW n \in FNames,
         tree' = [tree EXCEPT ![d][n] = NoFile], kept' \subseteq kept, kept \ {tree[d][n]} \subseteq kept',
         astray \subseteq astray', FlushDir(d) \/ UNCHANGED root, fop.req # "mvDst",
         tree[d][n] \in kept' =>
           \E x \in FDirs, y \in FNames :
             /\ x # d \/ y # n
             /\ tree[x][y] = tree[d][n] /\ (tree[d][n] \in astray' \/ (x = d /\ FlushDir(d)))
  PROVE  /\ tree' \in [FDirs -> [FNames -> Nat]] /\ root' \in [FDirs -> [FNames -> Nat]] /\ kept' \subseteq FileIds
         /\ FilesNamed' /\ FlushedInv'
<1> USE DEF DirInv
<1>1. /\ tree' \in [FDirs -> [FNames -> Nat]]
      /\ \A x \in FDirs, y \in FNames : x # d \/ y # n => tree'[x][y] = tree[x][y]
  BY DEF DirTypes, NoFile
<1>2. /\ root' \in [FDirs -> [FNames -> Nat]] /\ \A x \in FDirs : root'[x] = root[x] \/ root'[x] = tree'[x]
      /\ FlushDir(d) => root'[d] = tree'[d]
  BY <1>1 DEF FlushDir, DirTypes
<1>3. FilesNamed'
  <2> SUFFICES ASSUME NEW g \in kept' PROVE \E x \in FDirs, y \in FNames : tree'[x][y] = g
    BY DEF FilesNamed, Holds
  <2>1. CASE g = tree[d][n]
    BY <2>1, <1>1
  <2>2. CASE g # tree[d][n]
    <3>1. PICK x \in FDirs, y \in FNames : tree[x][y] = g
      BY DEF FilesNamed, Holds
    <3> QED BY <3>1, <2>2, <1>1
  <2> QED BY <2>1, <2>2
<1>4. FlushedInv'
  <2> SUFFICES ASSUME NEW g \in kept', g \notin astray'
               PROVE  \E x \in FDirs, y \in FNames : tree'[x][y] = g /\ root'[x][y] = g
    BY DEF FlushedInv, Placed, Moving
  <2>1. CASE g = tree[d][n]
    <3>1. PICK x \in FDirs, y \in FNames : (x # d \/ y # n) /\ tree[x][y] = g /\ x = d /\ FlushDir(d)
      BY <2>1
    <3> QED BY <3>1, <1>1, <1>2
  <2>2. CASE g # tree[d][n]
    <3>1. PICK x \in FDirs, y \in FNames : tree[x][y] = g /\ root[x][y] = g
      BY DEF FlushedInv, Placed, Moving
    <3> QED BY <3>1, <2>2, <1>1, <1>2
  <2> QED BY <2>1, <2>2
<1>5. kept' \subseteq FileIds
  BY DEF DirTypes
<1> QED BY <1>1, <1>2, <1>3, <1>4, <1>5

\* The requests of /mfs that make or remove a file.
LEMMA MfsFileSteps ==
  ASSUME DirInv, NEW d \in FDirs, NEW n \in FNames,
         (\E f \in FileIds : MfsCreate(d, n, f) \/ MfsMkdir(d, n, f)) \/ MfsRemove(d, n)
  PROVE  DirInv'
<1>1. ASSUME NEW f \in FileIds, MfsCreate(d, n, f)
      PROVE  DirInv'
  <2>1. /\ fsKind = "mfs" /\ UNCHANGED <<fsKind, fop>> /\ fop.req = "idle"
        /\ FreeFile(f) /\ AddChild(d, n, f) /\ kept' = kept \union {f}
        /\ (FlushDir(d) /\ astray' = astray \ {f}) \/ (UNCHANGED root /\ astray' = astray \union {f})
    BY <1>1 DEF MfsCreate, DirAt
  <2> QED BY <2>1, FileMade DEF DirInv, DirTypes, RenameInv, RenameReqs
<1>2. ASSUME NEW f \in FileIds, MfsMkdir(d, n, f)
      PROVE  DirInv'
  <2>1. /\ fsKind = "mfs" /\ UNCHANGED <<fsKind, fop, root>> /\ fop.req = "idle"
        /\ FreeFile(f) /\ AddChild(d, n, f) /\ kept' = kept \union {f} /\ astray' = astray \union {f}
    BY <1>2 DEF MfsMkdir, Mkdir, DirAt
  <2> QED BY <2>1, FileMade DEF DirInv, DirTypes, RenameInv, RenameReqs
<1>3. CASE MfsRemove(d, n)
  <2>1. /\ fsKind = "mfs" /\ UNCHANGED <<fsKind, fop, astray>> /\ DirAt("idle")
        /\ tree' = [tree EXCEPT ![d][n] = NoFile] /\ (FlushDir(d) \/ UNCHANGED root) /\ kept' = kept \ {tree[d][n]}
    BY <1>3 DEF MfsRemove, Unlink
  <2>2. /\ tree' \in [FDirs -> [FNames -> Nat]] /\ root' \in [FDirs -> [FNames -> Nat]] /\ kept' \subseteq FileIds
        /\ FilesNamed' /\ FlushedInv'
    BY <2>1, PlaceEmptied DEF DirAt
  <2>3. DirTypes' /\ RenameInv'
    BY <2>1, <2>2 DEF DirInv, DirTypes, RenameInv, RenameReqs, DirAt
  <2> QED BY <2>2, <2>3 DEF DirInv
<1> QED BY <1>1, <1>2, <1>3

\* The renames of /mfs: the request, what has the new name, the new name, the old one.
LEMMA MfsRenameStep ==
  ASSUME DirInv, NEW d \in FDirs, NEW n \in FNames, NEW to \in FDirs, NEW new \in FNames, MfsRename(d, n, to, new)
  PROVE  DirInv'
<1> USE DEF DirInv
<1>1. /\ fsKind = "mfs" /\ UNCHANGED <<fsKind, tree, root, kept, astray>> /\ (d # to \/ n # new)
      /\ fop' = [req |-> "mfsTarget", dir |-> d, name |-> n, to |-> to, new |-> new, file |-> tree[d][n]]
  BY DEF MfsRename
<1>0. fop.req = "idle"
  BY DEF MfsRename, DirAt
<1>2. tree[d][n] \in Nat
  BY DEF DirTypes
<1>3. DirTypes' /\ RenameInv'
  BY <1>1, <1>2 DEF DirTypes, RenameInv, FDirReqs, RenameReqs
<1> QED BY <1>0, <1>1, <1>3 DEF FilesNamed, Holds, FlushedInv, Placed, Moving

LEMMA MfsRenameTargetStep ==
  ASSUME DirInv, MfsRenameTarget
  PROVE  DirInv'
<1> USE DEF DirInv
<1>0. /\ fop.req = "mfsTarget" /\ fsKind = "mfs" /\ UNCHANGED <<fsKind, root, astray>>
      /\ fop.dir \in FDirs /\ fop.name \in FNames /\ fop.to \in FDirs /\ fop.new \in FNames
      /\ fop.dir # fop.to \/ fop.name # fop.new
      /\ tree[fop.dir][fop.name] = fop.file
  BY DEF MfsRenameTarget, DirAt, DirTypes, RenameInv, RenameReqs
<1>1. CASE /\ tree' = [tree EXCEPT ![fop.to][fop.new] = NoFile]
           /\ kept' = kept \ {tree[fop.to][fop.new]}
           /\ DirGoes("mfsAdd")
  <2>1. /\ tree' \in [FDirs -> [FNames -> Nat]] /\ root' \in [FDirs -> [FNames -> Nat]] /\ kept' \subseteq FileIds
        /\ FilesNamed' /\ FlushedInv'
    BY <1>0, <1>1, PlaceEmptied
  <2>2. tree'[fop.dir][fop.name] = fop.file
    BY <1>0, <1>1 DEF DirTypes
  <2>3. /\ fop'.req = "mfsAdd" /\ fop'.dir = fop.dir /\ fop'.name = fop.name /\ fop'.to = fop.to
        /\ fop'.new = fop.new /\ fop'.file = fop.file
        /\ fop' \in [req : FDirReqs, dir : {fop.dir}, name : {fop.name}, to : {fop.to}, new : {fop.new}, file : Nat]
    BY <1>1 DEF DirGoes, DirTypes, FDirReqs, RenameReqs
  <2>4. DirTypes' /\ RenameInv'
    BY <2>1, <2>2, <2>3, <1>0 DEF DirTypes, RenameInv, RenameReqs
  <2> QED BY <2>1, <2>4
<1>2. CASE UNCHANGED <<tree, kept>> /\ DirEnds
  <2>1. DirTypes' /\ RenameInv'
    BY <1>0, <1>2, NoOpType DEF DirEnds, DirTypes, RenameInv, RenameReqs
  <2> QED BY <2>1, <1>0, <1>2 DEF FilesNamed, Holds, FlushedInv, Placed, Moving
<1> QED BY <1>1, <1>2 DEF MfsRenameTarget

LEMMA MfsRenameAddStep ==
  ASSUME DirInv, MfsRenameAdd
  PROVE  DirInv'
<1> USE DEF DirInv
<1>0. /\ fop.req = "mfsAdd" /\ fsKind = "mfs" /\ UNCHANGED <<fsKind, root, kept, astray>>
      /\ fop.dir \in FDirs /\ fop.name \in FNames /\ fop.to \in FDirs /\ fop.new \in FNames
      /\ fop.dir # fop.to \/ fop.name # fop.new
      /\ tree[fop.dir][fop.name] = fop.file
  BY DEF MfsRenameAdd, DirAt, DirTypes, RenameInv, RenameReqs
<1>1. CASE AddChild(fop.to, fop.new, fop.file) /\ DirGoes("mfsOld")
  <2>1. /\ tree' \in [FDirs -> [FNames -> Nat]] /\ tree'[fop.to][fop.new] = fop.file
        /\ tree'[fop.dir][fop.name] = fop.file
        /\ \A x \in FDirs, y \in FNames : tree[x][y] # NoFile => tree'[x][y] = tree[x][y]
    BY <1>0, <1>1 DEF AddChild, DirTypes
  <2>2. /\ fop'.req = "mfsOld" /\ fop'.dir = fop.dir /\ fop'.name = fop.name /\ fop'.to = fop.to
        /\ fop'.new = fop.new /\ fop'.file = fop.file
        /\ fop' \in [req : FDirReqs, dir : {fop.dir}, name : {fop.name}, to : {fop.to}, new : {fop.new}, file : Nat]
    BY <1>1 DEF DirGoes, DirTypes, FDirReqs, RenameReqs
  <2>3. DirTypes' /\ RenameInv'
    BY <2>1, <2>2, <1>0 DEF DirTypes, RenameInv, RenameReqs
  <2>4. \A g \in kept : g # NoFile
    BY FuseFSConstants DEF DirTypes, FileIds, NoFile
  <2>5. FilesNamed'
    BY <2>1, <2>4, <1>0 DEF FilesNamed, Holds
  <2>6. FlushedInv'
    BY <2>1, <2>4, <1>0 DEF FlushedInv, Placed, Moving
  <2> QED BY <2>3, <2>5, <2>6
<1>2. CASE UNCHANGED tree /\ DirEnds
  <2>1. DirTypes' /\ RenameInv'
    BY <1>0, <1>2, NoOpType DEF DirEnds, DirTypes, RenameInv, RenameReqs
  <2> QED BY <2>1, <1>0, <1>2 DEF FilesNamed, Holds, FlushedInv, Placed, Moving
<1> QED BY <1>1, <1>2 DEF MfsRenameAdd

LEMMA MfsRenameOldStep ==
  ASSUME DirInv, MfsRenameOld
  PROVE  DirInv'
<1> USE DEF DirInv
<1>0. /\ fop.req = "mfsOld" /\ fsKind = "mfs" /\ UNCHANGED <<fsKind, kept>> /\ DirEnds
      /\ fop.dir \in FDirs /\ fop.name \in FNames /\ fop.to \in FDirs /\ fop.new \in FNames
      /\ fop.dir # fop.to \/ fop.name # fop.new
      /\ tree[fop.dir][fop.name] = fop.file /\ tree[fop.to][fop.new] = fop.file
  BY DEF MfsRenameOld, DirAt, DirTypes, RenameInv, RenameReqs
<1>1. CASE /\ Unlink(fop.dir, fop.name) /\ FlushDir(fop.dir)
           /\ astray' = IF fop.dir = fop.to THEN astray ELSE astray \union {fop.file}
  <2>1. tree' = [tree EXCEPT ![fop.dir][fop.name] = NoFile]
    BY <1>1 DEF Unlink
  <2>2. /\ tree' \in [FDirs -> [FNames -> Nat]] /\ root' \in [FDirs -> [FNames -> Nat]] /\ kept' \subseteq FileIds
        /\ FilesNamed' /\ FlushedInv'
    BY <2>1, <1>0, <1>1, PlaceEmptied
  <2>3. DirTypes' /\ RenameInv'
    BY <2>2, <1>0, NoOpType DEF DirEnds, DirTypes, RenameInv, RenameReqs
  <2> QED BY <2>2, <2>3
<1>2. CASE UNCHANGED <<tree, root>> /\ astray' = astray \union {fop.file}
  <2>1. DirTypes' /\ RenameInv'
    BY <1>0, <1>2, NoOpType DEF DirEnds, DirTypes, RenameInv, RenameReqs
  <2> QED BY <2>1, <1>0, <1>2 DEF FilesNamed, Holds, FlushedInv, Placed, Moving
<1> QED BY <1>1, <1>2 DEF MfsRenameOld

\* The requests of /ipns promise no name: their states stay well-formed.
LEMMA IpnsSteps ==
  ASSUME DirInv, NEW d \in FDirs, NEW n \in FNames, NEW to \in FDirs, NEW new \in FNames,
         \/ \E f \in FileIds : IpnsCreate(d, n, f) \/ IpnsMkdir(d, n, f)
         \/ IpnsRemove(d, n) \/ IpnsRename(d, n, to, new)
  PROVE  DirInv'
<1> USE DEF DirInv
<1>1. ASSUME NEW f \in FileIds, IpnsCreate(d, n, f) \/ IpnsMkdir(d, n, f)
      PROVE  DirInv'
  <2>1. /\ tree' = [tree EXCEPT ![d][n] = f] /\ kept' = kept \union {f} /\ UNCHANGED <<root, fop, fsKind>>
        /\ fsKind # "mfs"
    BY <1>1 DEF IpnsCreate, IpnsMkdir, Mkdir, AddChild
  <2>2. f \in Nat
    BY DEF FileIds
  <2>3. tree' \in [FDirs -> [FNames -> Nat]]
    BY <2>1, <2>2 DEF DirTypes
  <2> QED BY <2>1, <2>3 DEF DirTypes
<1>2. CASE IpnsRemove(d, n)
  <2>1. /\ tree' = [tree EXCEPT ![d][n] = NoFile] /\ kept' \subseteq kept /\ UNCHANGED <<root, fop, fsKind>>
        /\ fsKind # "mfs"
    BY <1>2 DEF IpnsRemove, Unlink
  <2>2. tree' \in [FDirs -> [FNames -> Nat]]
    BY <2>1 DEF DirTypes, NoFile
  <2> QED BY <2>1, <2>2 DEF DirTypes
<1>3. CASE IpnsRename(d, n, to, new)
  <2>1. /\ tree' = [tree EXCEPT ![d][n] = NoFile] /\ UNCHANGED <<root, kept, fsKind>> /\ fsKind # "mfs"
        /\ fop' = [req |-> "ipnsAdd", dir |-> d, name |-> n, to |-> to, new |-> new, file |-> tree[d][n]]
    BY <1>3 DEF IpnsRename, Unlink
  <2>2. tree' \in [FDirs -> [FNames -> Nat]] /\ tree[d][n] \in Nat
    BY <2>1 DEF DirTypes, NoFile
  <2> QED BY <2>1, <2>2 DEF DirTypes, FDirReqs, RenameReqs
<1> QED BY <1>1, <1>2, <1>3

LEMMA IpnsRenameAddStep ==
  ASSUME DirInv, IpnsRenameAdd
  PROVE  DirInv'
<1> USE DEF DirInv
<1>1. /\ fsKind # "mfs" /\ UNCHANGED <<fsKind, root>> /\ kept' \subseteq kept /\ DirEnds
      /\ fop.to \in FDirs /\ fop.new \in FNames /\ fop.file \in Nat
      /\ UNCHANGED tree \/ tree' = [tree EXCEPT ![fop.to][fop.new] = fop.file]
  BY DEF IpnsRenameAdd, DirAt, DirTypes, AddChild
<1>2. tree' \in [FDirs -> [FNames -> Nat]]
  BY SMTT(20), <1>1 DEF DirTypes
<1> QED BY <1>1, <1>2, NoOpType DEF DirTypes, DirEnds

\* The commands.  A step that flushes some directories, and changes nothing in memory,
\* leaves what is placed at its place.
LEMMA StillPlaced ==
  ASSUME DirTypes, UNCHANGED tree,
         root' \in {root, tree} \/ \E d \in FDirs : root' = [root EXCEPT ![d] = tree[d]]
  PROVE  root' \in [FDirs -> [FNames -> Nat]] /\ \A f \in Nat : Placed(f) => Placed(f)'
<1>1. CASE root' \in {root, tree}
  BY <1>1 DEF DirTypes, Placed
<1>2. ASSUME NEW d \in FDirs, root' = [root EXCEPT ![d] = tree[d]]
      PROVE  root' \in [FDirs -> [FNames -> Nat]] /\ \A f \in Nat : Placed(f) => Placed(f)'
  <2>1. root' \in [FDirs -> [FNames -> Nat]] /\ \A x \in FDirs : root'[x] = root[x] \/ root'[x] = tree[x]
    BY <1>2 DEF DirTypes
  <2> QED BY <2>1 DEF Placed
<1> QED BY <1>1, <1>2

\* A new file, and what follows.
LEMMA FilesMadeStep ==
  ASSUME DirInv, fsKind = "mfs", NEW d \in FDirs, NEW n \in FNames, NEW f \in FileIds,
         fop.req \in {"idle", "cmdPut"}, FilesMade(d, n, f)
  PROVE  DirInv'
<1> USE DEF DirInv
<1>1. /\ FreeFile(f) /\ AddChild(d, n, f) /\ UNCHANGED <<fsKind, root>>
      /\ kept' = kept \union {f} /\ astray' = astray \union {f}
  BY DEF FilesMade
<1>2. /\ tree' \in [FDirs -> [FNames -> Nat]] /\ root' \in [FDirs -> [FNames -> Nat]] /\ kept' \subseteq FileIds
      /\ tree'[d][n] = f /\ FilesNamed' /\ FlushedInv'
  BY <1>1, FileMade
<1>3. f \in Nat
  BY DEF FileIds
<1>4. CASE CmdGoes("cmdFlush", d, n, d, n, f)
  BY <1>1, <1>2, <1>3, <1>4 DEF CmdGoes, DirTypes, RenameInv, FDirReqs, RenameReqs
<1>5. CASE DirEnds
  BY <1>1, <1>2, <1>5, NoOpType DEF DirEnds, DirTypes, RenameInv, RenameReqs
<1> QED BY <1>4, <1>5 DEF FilesMade

LEMMA FilesMakeSteps ==
  ASSUME DirInv, NEW d \in FDirs, NEW n \in FNames,
         \/ \E f \in FileIds : FilesWriteNew(d, n, f) \/ FilesMkdirCmd(d, n, f)
         \/ FilesCpCmd(d, n) \/ FilesWriteCmd(d, n) \/ FilesRmCmd(d, n)
  PROVE  DirInv'
<1>1. ASSUME NEW f \in FileIds, FilesWriteNew(d, n, f) \/ FilesMkdirCmd(d, n, f)
      PROVE  DirInv'
  BY <1>1, FilesMadeStep DEF FilesWriteNew, FilesMkdirCmd, DirAt
<1>2. CASE FilesCpCmd(d, n)
  <2>1. /\ fsKind = "mfs" /\ fop.req = "idle" /\ UNCHANGED <<fsKind, root, astray>>
        /\ fop' = [req |-> "cmdPut", dir |-> d, name |-> n, to |-> d, new |-> n, file |-> NoFile]
    BY <1>2 DEF FilesCpCmd, DirAt, CmdGoes
  <2>2. DirTypes /\ FilesNamed /\ FlushedInv
    BY <2>1 DEF DirInv
  <2>3. /\ tree' \in [FDirs -> [FNames -> Nat]] /\ kept' \subseteq FileIds /\ FilesNamed' /\ FlushedInv'
    <3>1. CASE UNCHANGED <<tree, kept>>
      BY <2>1, <2>2, <3>1 DEF DirTypes, FilesNamed, Holds, FlushedInv, Placed, Moving
    <3>2. CASE UnlinkNodeIfExists(d, n)
      BY <2>1, <3>2, PlaceEmptied DEF UnlinkNodeIfExists
    <3> QED BY <3>1, <3>2, <1>2 DEF FilesCpCmd
  <2> QED BY <2>1, <2>2, <2>3 DEF DirInv, DirTypes, RenameInv, FDirReqs, RenameReqs, NoFile
<1>3. CASE FilesWriteCmd(d, n)
  <2>1. /\ fsKind = "mfs" /\ fop.req = "idle" /\ UNCHANGED <<fsKind, tree, root, kept, astray>>
        /\ fop' = [req |-> "cmdFlush", dir |-> d, name |-> n, to |-> d, new |-> n, file |-> tree[d][n]]
    BY <1>3 DEF FilesWriteCmd, DirAt, CmdGoes
  <2>2. tree[d][n] \in Nat
    BY DEF DirInv, DirTypes
  <2>3. FilesNamed' /\ FlushedInv'
    BY <2>1 DEF DirInv, FilesNamed, Holds, FlushedInv, Placed, Moving
  <2> QED BY <2>1, <2>2, <2>3 DEF DirInv, DirTypes, RenameInv, FDirReqs, RenameReqs
<1>4. CASE FilesRmCmd(d, n)
  BY <1>4, MfsFileSteps DEF FilesRmCmd, MfsRemove
<1> QED BY <1>1, <1>2, <1>3, <1>4

LEMMA FilesCpPutStep ==
  ASSUME DirInv, FilesCpPut
  PROVE  DirInv'
<1>1. fop.req = "cmdPut" /\ fsKind = "mfs" /\ fop.dir \in FDirs /\ fop.name \in FNames
  BY DEF FilesCpPut, DirAt, DirInv, DirTypes
<1>2. ASSUME NEW f \in FileIds, FilesMade(fop.dir, fop.name, f)
      PROVE  DirInv'
  BY <1>1, <1>2, FilesMadeStep
<1>3. CASE DirEnds /\ UNCHANGED <<tree, root, kept, astray>> /\ UNCHANGED fsKind
  <2>1. DirTypes' /\ RenameInv'
    BY <1>1, <1>3, NoOpType DEF DirEnds, DirInv, DirTypes, RenameInv, RenameReqs
  <2> QED BY <1>1, <1>3, <2>1 DEF DirInv, FilesNamed, Holds, FlushedInv, Placed, Moving
<1> QED BY <1>2, <1>3 DEF FilesCpPut

\* The flushes.
LEMMA FilesFlushSteps ==
  ASSUME DirInv,
         \/ FilesFlushed \/ FilesMvDst \/ FilesMvSrc \/ FilesMvRoot \/ FilesFlushCmd
         \/ \E d \in FDirs : FilesChcidCmd(d)
  PROVE  DirInv'
<1> USE DEF DirInv
<1>1. fsKind = "mfs" /\ UNCHANGED <<fsKind, tree, kept>> /\ kept \subseteq Nat
  BY DEF FilesFlushed, FilesMvDst, FilesMvSrc, FilesMvRoot, FilesFlushCmd, FilesChcidCmd, DirAt, DirTypes, FileIds
<1>2. FilesNamed'
  BY <1>1 DEF FilesNamed, Holds
<1>3. ASSUME root' \in {root, tree} \/ \E d \in FDirs : root' = [root EXCEPT ![d] = tree[d]],
             fop.req \notin RenameReqs \union {"ipnsAdd"},
             \/ fop' = NoOp \/ UNCHANGED fop
             \/ (\E r \in {"mvSrc", "mvRoot"} : fop' = [fop EXCEPT !.req = r]) /\ fop.req \in {"mvDst", "mvSrc"}
      PROVE  DirTypes' /\ RenameInv' /\ \A f \in kept : Placed(f) => Placed(f)'
  <2>1. root' \in [FDirs -> [FNames -> Nat]] /\ \A f \in kept : Placed(f) => Placed(f)'
    BY <1>1, <1>3, StillPlaced
  <2>2. CASE fop' = NoOp \/ UNCHANGED fop
    BY <1>1, <2>1, <2>2, NoOpType DEF DirTypes, RenameInv, RenameReqs
  <2>3. ASSUME NEW r \in {"mvSrc", "mvRoot"}, fop' = [fop EXCEPT !.req = r], fop.req \in {"mvDst", "mvSrc"}
        PROVE  DirTypes' /\ RenameInv'
    <3>1. /\ fop'.req = r /\ fop'.dir = fop.dir /\ fop'.name = fop.name /\ fop'.to = fop.to
          /\ fop'.new = fop.new /\ fop'.file = fop.file
          /\ fop' \in [req : FDirReqs, dir : {fop.dir}, name : {fop.name}, to : {fop.to}, new : {fop.new}, file : Nat]
      BY <2>3 DEF DirTypes, FDirReqs
    <3> QED BY <1>1, <2>1, <2>3, <3>1 DEF DirTypes, RenameInv, RenameReqs
  <2> QED BY <1>3, <2>1, <2>2, <2>3
<1>4. CASE FilesFlushed
  <2>1. fop.req = "cmdFlush" /\ fop.dir \in FDirs /\ fop.name \in FNames /\ tree[fop.dir][fop.name] = fop.file /\ fop' = NoOp
    BY <1>4 DEF FilesFlushed, DirAt, DirEnds, DirTypes, RenameInv
  <2>2. \/ root' = [root EXCEPT ![fop.dir] = tree[fop.dir]] /\ astray' = astray \ {fop.file}
        \/ UNCHANGED <<root, astray>>
    BY <1>1, <1>4 DEF FilesFlushed, FlushDir
  <2>3. DirTypes' /\ RenameInv' /\ \A f \in kept : Placed(f) => Placed(f)'
    BY <1>3, <2>1, <2>2 DEF RenameReqs
  <2>4. ASSUME NEW f \in kept, f = fop.file, f \notin astray', f \in astray PROVE Placed(f)'
    BY <1>1, <2>1, <2>2, <2>4 DEF Placed, DirTypes
  <2>5. FlushedInv'
    <3> SUFFICES ASSUME NEW f \in kept', f \notin astray' PROVE Placed(f)'
      BY DEF FlushedInv
    <3> QED BY <1>1, <2>1, <2>2, <2>3, <2>4 DEF FlushedInv, Moving
  <2> QED BY <1>2, <2>3, <2>5
<1>5. CASE FilesMvDst
  <2>1. fop.req = "mvDst" /\ fop.to \in FDirs /\ fop.new \in FNames /\ tree[fop.to][fop.new] = fop.file
    BY <1>5 DEF FilesMvDst, DirAt, DirTypes, RenameInv
  <2>2. \/ /\ root' = [root EXCEPT ![fop.to] = tree[fop.to]] /\ fop' = [fop EXCEPT !.req = "mvSrc"] /\ UNCHANGED astray
        \/ UNCHANGED root /\ fop' = NoOp /\ astray' = astray \union {fop.file}
    BY <1>1, <1>5 DEF FilesMvDst, FlushDir, DirGoes, DirEnds
  <2>3. DirTypes' /\ RenameInv' /\ \A f \in kept : Placed(f) => Placed(f)'
    BY <1>3, <2>1, <2>2 DEF RenameReqs
  <2>4. ASSUME NEW f \in kept, f = fop.file, f \notin astray' PROVE Placed(f)'
    BY <1>1, <2>1, <2>2, <2>4 DEF Placed, DirTypes
  <2>5. FlushedInv'
    <3> SUFFICES ASSUME NEW f \in kept', f \notin astray' PROVE Placed(f)'
      BY DEF FlushedInv
    <3> QED BY <1>1, <2>1, <2>2, <2>3, <2>4 DEF FlushedInv, Moving
  <2> QED BY <1>2, <2>3, <2>5
<1>6. CASE FilesMvSrc
  <2>1. fop.req = "mvSrc" /\ fop.dir \in FDirs /\ UNCHANGED astray
    BY <1>6 DEF FilesMvSrc, DirAt, DirTypes
  <2>2. /\ root' \in {root, [root EXCEPT ![fop.dir] = tree[fop.dir]]}
        /\ fop' = NoOp \/ fop' = [fop EXCEPT !.req = "mvRoot"]
    BY <1>1, <1>6 DEF FilesMvSrc, FlushDir, DirGoes, DirEnds
  <2>3. DirTypes' /\ RenameInv' /\ \A f \in kept : Placed(f) => Placed(f)'
    BY <1>3, <2>1, <2>2 DEF RenameReqs
  <2>4. FlushedInv'
    <3> SUFFICES ASSUME NEW f \in kept', f \notin astray' PROVE Placed(f)'
      BY DEF FlushedInv
    <3> QED BY <1>1, <2>1, <2>3 DEF FlushedInv, Moving
  <2> QED BY <1>2, <2>3, <2>4
<1>7. CASE FilesMvRoot \/ FilesFlushCmd
  <2>1. fop.req \in {"mvRoot", "idle"} /\ (fop' = NoOp \/ UNCHANGED fop)
    BY <1>7 DEF FilesMvRoot, FilesFlushCmd, DirAt, DirEnds
  <2>2. (root' = tree /\ astray' = {}) \/ UNCHANGED <<root, astray>>
    BY <1>1, <1>7 DEF FilesMvRoot, FilesFlushCmd, FlushRoot
  <2>3. DirTypes' /\ RenameInv' /\ \A f \in kept : Placed(f) => Placed(f)'
    BY <1>3, <2>1, <2>2 DEF RenameReqs
  <2>4. FlushedInv'
    <3> SUFFICES ASSUME NEW f \in kept', f \notin astray' PROVE Placed(f)'
      BY DEF FlushedInv
    <3>1. CASE root' = tree
      BY <1>1, <3>1 DEF Placed, FilesNamed, Holds
    <3>2. CASE UNCHANGED <<root, astray>>
      BY <1>1, <2>1, <2>3, <3>2 DEF FlushedInv, Moving
    <3> QED BY <2>2, <3>1, <3>2
  <2> QED BY <1>2, <2>3, <2>4
<1>8. ASSUME NEW d \in FDirs, FilesChcidCmd(d)
      PROVE  DirInv'
  <2>1. /\ fop.req = "idle" /\ UNCHANGED fop /\ root' = [root EXCEPT ![d] = tree[d]]
        /\ astray' = astray \ {tree[d][n] : n \in FNames}
    BY <1>1, <1>8 DEF FilesChcidCmd, DirAt, FlushDir
  <2>2. DirTypes' /\ RenameInv' /\ \A f \in kept : Placed(f) => Placed(f)'
    BY <1>3, <2>1 DEF RenameReqs
  <2>3. ASSUME NEW f \in kept, NEW n \in FNames, f = tree[d][n] PROVE Placed(f)'
    BY <1>1, <2>1, <2>3 DEF Placed, DirTypes
  <2>4. FlushedInv'
    <3> SUFFICES ASSUME NEW f \in kept', f \notin astray' PROVE Placed(f)'
      BY DEF FlushedInv
    <3>1. CASE f \in astray
      BY <1>1, <2>1, <2>3, <3>1
    <3>2. CASE f \notin astray
      BY <1>1, <2>1, <2>2, <3>2 DEF FlushedInv, Moving
    <3> QED BY <3>1, <3>2
  <2> QED BY <1>2, <2>2, <2>4
<1> QED BY <1>4, <1>5, <1>6, <1>7, <1>8

\* The move itself: the target goes, the file gets the new name, and loses the old one.
LEMMA FilesMvStep ==
  ASSUME DirInv, NEW d \in FDirs, NEW n \in FNames, NEW to \in FDirs, NEW new \in FNames, FilesMvCmd(d, n, to, new)
  PROVE  DirInv'
<1> USE DEF DirInv
<1> DEFINE f == tree[d][n]
<1>1. /\ fsKind = "mfs" /\ fop.req = "idle" /\ UNCHANGED <<fsKind, root>> /\ (d # to \/ n # new)
      /\ kept' = kept \ {tree[to][new]} /\ astray \subseteq astray'
  BY DEF FilesMvCmd, DirAt
<1>2. f \in Nat
  BY DEF DirTypes
<1>3. CASE tree' = [tree EXCEPT ![to][new] = NoFile] /\ DirEnds
  <2>1. /\ tree' \in [FDirs -> [FNames -> Nat]] /\ root' \in [FDirs -> [FNames -> Nat]] /\ kept' \subseteq FileIds
        /\ FilesNamed' /\ FlushedInv'
    BY <1>1, <1>3, PlaceEmptied
  <2>2. DirTypes' /\ RenameInv'
    BY <1>1, <1>3, <2>1, NoOpType DEF DirEnds, DirTypes, RenameInv, RenameReqs
  <2> QED BY <2>1, <2>2
<1>4. CASE \/ tree' = [tree EXCEPT ![to][new] = tree[d][n]] /\ DirEnds
           \/ /\ tree' = [[tree EXCEPT ![to][new] = tree[d][n]] EXCEPT ![d][n] = NoFile]
              /\ \/ CmdGoes("mvDst", d, n, to, new, tree[d][n])
                 \/ DirEnds /\ astray' = astray \union {tree[d][n]}
  <2>1. /\ tree' \in [FDirs -> [FNames -> Nat]] /\ tree'[to][new] = f
        /\ \A x \in FDirs, y \in FNames : (x # to \/ y # new) /\ (x # d \/ y # n) => tree'[x][y] = tree[x][y]
        /\ \/ tree'[d][n] = f /\ DirEnds
           \/ CmdGoes("mvDst", d, n, to, new, f)
           \/ DirEnds /\ f \in astray'
    <3>1. CASE tree' = [tree EXCEPT ![to][new] = tree[d][n]] /\ DirEnds
      BY <1>1, <1>2, <3>1 DEF DirTypes
    <3>2. CASE tree' = [[tree EXCEPT ![to][new] = tree[d][n]] EXCEPT ![d][n] = NoFile]
      <4> DEFINE t == [tree EXCEPT ![to][new] = tree[d][n]]
      <4>1. /\ t \in [FDirs -> [FNames -> Nat]] /\ t[to][new] = f
            /\ \A x \in FDirs, y \in FNames : (x # to \/ y # new) => t[x][y] = tree[x][y]
        BY <1>2 DEF DirTypes
      <4>2. tree' = [t EXCEPT ![d][n] = NoFile]
        BY <3>2
      <4> HIDE DEF t
      <4>3. /\ tree' \in [FDirs -> [FNames -> Nat]]
            /\ \A x \in FDirs, y \in FNames : (x # d \/ y # n) => tree'[x][y] = t[x][y]
        BY <4>1, <4>2 DEF NoFile
      <4>4. tree' # [tree EXCEPT ![to][new] = tree[d][n]] \/ tree'[d][n] = f
        BY <1>1, <1>2 DEF DirTypes
      <4> QED BY <1>1, <1>4, <4>1, <4>3, <4>4
    <3> QED BY <1>4, <3>1, <3>2
  <2>2. DirTypes' /\ RenameInv'
    <3>1. CASE DirEnds
      BY <1>1, <2>1, <3>1, NoOpType DEF DirEnds, DirTypes, RenameInv, RenameReqs
    <3>2. CASE CmdGoes("mvDst", d, n, to, new, f)
      BY <1>1, <1>2, <2>1, <3>2 DEF CmdGoes, DirTypes, RenameInv, FDirReqs, RenameReqs
    <3> QED BY <2>1, <3>1, <3>2
  <2>3. FilesNamed'
    <3> SUFFICES ASSUME NEW g \in kept' PROVE \E x \in FDirs, y \in FNames : tree'[x][y] = g
      BY DEF FilesNamed, Holds
    <3>1. CASE g = f
      BY <2>1, <3>1
    <3>2. CASE g # f
      <4>1. PICK x \in FDirs, y \in FNames : tree[x][y] = g
        BY <1>1 DEF FilesNamed, Holds
      <4> QED BY <1>1, <2>1, <3>2, <4>1
    <3> QED BY <3>1, <3>2
  <2>4. FlushedInv'
    <3> SUFFICES ASSUME NEW g \in kept', g \notin astray' PROVE Placed(g)' \/ Moving(g)'
      BY DEF FlushedInv
    <3>1. PICK x \in FDirs, y \in FNames : tree[x][y] = g /\ root[x][y] = g
      BY <1>1 DEF FlushedInv, Placed, Moving
    <3>2. x # to \/ y # new
      BY <1>1, <3>1
    <3>3. CASE x # d \/ y # n
      BY <1>1, <2>1, <3>1, <3>2, <3>3 DEF Placed
    <3>4. CASE x = d /\ y = n
      <4>1. CASE tree'[d][n] = f
        BY <1>1, <3>1, <3>4, <4>1 DEF Placed
      <4>2. CASE CmdGoes("mvDst", d, n, to, new, f)
        BY <1>1, <3>1, <3>4, <4>2 DEF Moving, CmdGoes
      <4> QED BY <2>1, <3>1, <3>4, <4>1, <4>2
    <3> QED BY <3>3, <3>4
  <2> QED BY <2>2, <2>3, <2>4
<1> QED BY <1>3, <1>4 DEF FilesMvCmd

LEMMA FilesCmdSteps ==
  ASSUME DirInv, FilesCmdNext
  PROVE  DirInv'
BY FilesMakeSteps, FilesMvStep, FilesFlushSteps, FilesCpPutStep DEF FilesCmdNext

LEMMA FilesCmdKind == FilesCmdNext => UNCHANGED fsKind
<1>1. ASSUME NEW d \in FDirs, NEW n \in FNames,
             \/ FilesCpCmd(d, n) \/ FilesWriteCmd(d, n) \/ FilesRmCmd(d, n)
             \/ \E f \in FileIds : FilesWriteNew(d, n, f) \/ FilesMkdirCmd(d, n, f)
             \/ \E to \in FDirs, new \in FNames : FilesMvCmd(d, n, to, new)
      PROVE  UNCHANGED fsKind
  BY <1>1 DEF FilesCpCmd, FilesWriteCmd, FilesRmCmd, FilesWriteNew, FilesMkdirCmd, FilesMvCmd, FilesMade
<1>2. CASE FilesCpPut \/ FilesFlushed \/ FilesMvDst \/ FilesMvSrc \/ FilesMvRoot \/ FilesFlushCmd
  BY <1>2 DEF FilesCpPut, FilesMade, FilesFlushed, FilesMvDst, FilesMvSrc, FilesMvRoot, FilesFlushCmd
<1>3. CASE \E d \in FDirs : FilesChcidCmd(d)
  BY <1>3 DEF FilesChcidCmd
<1> QED BY <1>1, <1>2, <1>3 DEF FilesCmdNext

\* Requests on directories.
LEMMA DirStep ==
  ASSUME DirInv, FuseDirNext
  PROVE  DirInv'
<1>1. ASSUME NEW d \in FDirs, NEW n \in FNames,
             \/ \E f \in FileIds : IpnsCreate(d, n, f) \/ MfsCreate(d, n, f) \/ IpnsMkdir(d, n, f) \/ MfsMkdir(d, n, f)
             \/ IpnsRemove(d, n) \/ MfsRemove(d, n)
      PROVE  DirInv'
  <2>1. CASE (\E f \in FileIds : MfsCreate(d, n, f) \/ MfsMkdir(d, n, f)) \/ MfsRemove(d, n)
    BY <2>1, MfsFileSteps
  <2>2. CASE (\E f \in FileIds : IpnsCreate(d, n, f) \/ IpnsMkdir(d, n, f)) \/ IpnsRemove(d, n)
    BY <2>2, IpnsSteps
  <2> QED BY <1>1, <2>1, <2>2
<1>2. ASSUME NEW d \in FDirs, NEW n \in FNames, NEW to \in FDirs, NEW new \in FNames,
             IpnsRename(d, n, to, new) \/ MfsRename(d, n, to, new)
      PROVE  DirInv'
  BY <1>2, IpnsSteps, MfsRenameStep
<1>3. CASE IpnsRenameAdd \/ MfsRenameTarget \/ MfsRenameAdd \/ MfsRenameOld
  BY <1>3, IpnsRenameAddStep, MfsRenameTargetStep, MfsRenameAddStep, MfsRenameOldStep
<1>4. CASE FilesCmdNext
  BY <1>4, FilesCmdSteps
<1> QED BY <1>1, <1>2, <1>3, <1>4 DEF FuseDirNext

\* Requests on the open file.
FHandleSet == [open : BOOLEAN, pos : Offsets \union {0}, written : Nat, durable : Nat, acked : Nat, asked : Nat]

LEMMA FileStep ==
  ASSUME FileInv, FuseFileNext
  PROVE  FileInv'
<1> DEFINE H == fhandle \in FHandleSet
           R == freader \in [Readers -> FReaderSet]
           L == /\ fhandle.acked <= fhandle.durable /\ fhandle.durable <= fhandle.written
                /\ fhandle.asked <= fhandle.written
                /\ fsync = "flushed" => fhandle.asked <= fhandle.durable
           Q == /\ fsKind = "mfs" => \A r \in Readers : freader[r].pc # "sought"
                /\ ReadsOwnOffset
<1>0. H /\ R /\ L /\ Q
  BY DEF FileInv, FHandleSet
<1>p. fhandle.pos \in Offsets \union {0}
  BY <1>0 DEF FHandleSet
<1>1. CASE OpenFile
  <2>1. UNCHANGED <<freader, fsKind>> /\ UNCHANGED fsync /\ fhandle' = [fhandle EXCEPT !.open = TRUE, !.pos = 0]
    BY <1>1 DEF OpenFile
  <2>2. H'
    BY <1>0, <2>1 DEF FHandleSet
  <2>3. L'
    BY <1>0, <2>1 DEF FHandleSet
  <2> QED BY <1>0, <2>1, <2>2, <2>3 DEF FileInv, FHandleSet, ReadsOwnOffset
<1>2. CASE WriteFile
  <2>1. UNCHANGED <<freader, fsKind>> /\ UNCHANGED fsync /\ fhandle' = [fhandle EXCEPT !.written = @ + 1]
    BY <1>2 DEF WriteFile
  <2>2. H'
    BY <1>0, <2>1 DEF FHandleSet
  <2>3. L'
    BY <1>0, <2>1 DEF FHandleSet
  <2> QED BY <1>0, <2>1, <2>2, <2>3 DEF FileInv, FHandleSet, ReadsOwnOffset
<1>3. CASE ReleaseFile
  <2>1. /\ UNCHANGED <<fsync, fsKind>> /\ fhandle' = [fhandle EXCEPT !.open = FALSE, !.durable = fhandle.written]
        /\ freader' = [r \in Readers |-> [pc |-> "idle", off |-> 0, got |-> 0]]
    BY <1>3 DEF ReleaseFile
  <2>2. H'
    BY <1>0, <2>1 DEF FHandleSet
  <2>3. L'
    BY <1>0, <2>1 DEF FHandleSet
  <2>4. R' /\ Q'
    BY <2>1 DEF FReaderSet, ReadsOwnOffset
  <2> QED BY <2>2, <2>3, <2>4 DEF FileInv, FHandleSet
<1>4. CASE MfsFlush
  <2>1. /\ UNCHANGED <<freader, fsKind>>
        /\ \/ UNCHANGED <<fsync, fhandle>>
           \/ UNCHANGED fsync /\ fhandle' = [fhandle EXCEPT !.durable = fhandle.written, !.acked = fhandle.written]
    BY <1>4 DEF MfsFlush
  <2>2. CASE UNCHANGED <<fsync, fhandle>>
    <3>1. H'
      BY <1>0, <2>2 DEF FHandleSet
    <3>2. L'
      BY <1>0, <2>2 DEF FHandleSet
    <3> QED BY <1>0, <2>1, <3>1, <3>2 DEF FileInv, FHandleSet, ReadsOwnOffset
  <2>3. CASE UNCHANGED fsync /\ fhandle' = [fhandle EXCEPT !.durable = fhandle.written, !.acked = fhandle.written]
    <3>1. H'
      BY <1>0, <2>3 DEF FHandleSet
    <3>2. L'
      BY <1>0, <2>3 DEF FHandleSet
    <3> QED BY <1>0, <2>1, <3>1, <3>2 DEF FileInv, FHandleSet, ReadsOwnOffset
  <2> QED BY <2>1, <2>2, <2>3
<1>5. CASE IpnsFlush
  <2>1. UNCHANGED <<freader, fsKind>> /\ fsync' = "running" /\ fhandle' = [fhandle EXCEPT !.asked = fhandle.written]
    BY <1>5 DEF IpnsFlush
  <2>2. H'
    BY <1>0, <2>1 DEF FHandleSet
  <2>3. L'
    BY <1>0, <2>1 DEF FHandleSet
  <2> QED BY <1>0, <2>1, <2>2, <2>3 DEF FileInv, FHandleSet, ReadsOwnOffset
<1>6. CASE IpnsFlushWork
  <2>1. /\ UNCHANGED <<freader, fsKind>>
        /\ \/ UNCHANGED fhandle /\ fsync' = "idle"
           \/ fhandle' = [fhandle EXCEPT !.durable = fhandle.written]
    BY <1>6 DEF IpnsFlushWork
  <2>2. CASE UNCHANGED fhandle /\ fsync' = "idle"
    <3>1. H'
      BY <1>0, <2>2 DEF FHandleSet
    <3>2. L'
      BY <1>0, <2>2 DEF FHandleSet
    <3> QED BY <1>0, <2>1, <3>1, <3>2 DEF FileInv, FHandleSet, ReadsOwnOffset
  <2>3. CASE fhandle' = [fhandle EXCEPT !.durable = fhandle.written]
    <3>1. H'
      BY <1>0, <2>3 DEF FHandleSet
    <3>2. L'
      BY <1>0, <2>3 DEF FHandleSet
    <3> QED BY <1>0, <2>1, <3>1, <3>2 DEF FileInv, FHandleSet, ReadsOwnOffset
  <2> QED BY <2>1, <2>2, <2>3
<1>7. CASE IpnsFlushReturn
  <2>1. /\ UNCHANGED <<freader, fsKind>>
        /\ \/ UNCHANGED fhandle /\ fsync' = "idle"
           \/ fhandle' = [fhandle EXCEPT !.acked = fhandle.asked] /\ fsync = "flushed" /\ fsync' = "idle"
    BY <1>7 DEF IpnsFlushReturn
  <2>2. CASE UNCHANGED fhandle /\ fsync' = "idle"
    <3>1. H'
      BY <1>0, <2>2 DEF FHandleSet
    <3>2. L'
      BY <1>0, <2>2 DEF FHandleSet
    <3> QED BY <1>0, <2>1, <3>1, <3>2 DEF FileInv, FHandleSet, ReadsOwnOffset
  <2>3. CASE fhandle' = [fhandle EXCEPT !.acked = fhandle.asked] /\ fsync = "flushed" /\ fsync' = "idle"
    <3>1. H'
      BY <1>0, <2>3 DEF FHandleSet
    <3>2. L'
      BY <1>0, <2>3 DEF FHandleSet
    <3> QED BY <1>0, <2>1, <3>1, <3>2 DEF FileInv, FHandleSet, ReadsOwnOffset
  <2> QED BY <2>1, <2>2, <2>3
<1>8. CASE IpnsFlushInterrupted
  <2>1. UNCHANGED <<freader, fsKind>> /\ fsync' = "left" /\ UNCHANGED fhandle
    BY <1>8 DEF IpnsFlushInterrupted
  <2>2. H'
    BY <1>0, <2>1 DEF FHandleSet
  <2>3. L'
    BY <1>0, <2>1 DEF FHandleSet
  <2> QED BY <1>0, <2>1, <2>2, <2>3 DEF FileInv, FHandleSet, ReadsOwnOffset
<1>9. ASSUME NEW r \in Readers, IpnsReadFull(r)
      PROVE  FileInv'
  <2>1. /\ fsKind # "mfs" /\ UNCHANGED <<fhandle, fsync, fsKind>>
        /\ freader' = [freader EXCEPT ![r].pc = "done", ![r].got = fhandle.pos]
    BY <1>0, <1>9 DEF IpnsReadFull
  <2>2. R'
    BY <1>0, <1>p, <2>1 DEF FReaderSet
  <2> QED BY <1>0, <2>1, <2>2 DEF FileInv, FHandleSet, ReadsOwnOffset
<1>10. ASSUME NEW r \in Readers, NEW off \in Offsets, MfsRead(r, off) \/ IpnsReadSeek(r, off)
      PROVE  FileInv'
  <2>1. /\ fhandle' = [fhandle EXCEPT !.pos = off] /\ UNCHANGED <<fsync, fsKind>>
        /\ \/ fsKind = "mfs" /\ freader' = [freader EXCEPT ![r] = [pc |-> "done", off |-> off, got |-> off]]
           \/ fsKind # "mfs" /\ freader' = [freader EXCEPT ![r] = [pc |-> "sought", off |-> off, got |-> 0]]
    BY <1>10 DEF MfsRead, IpnsReadSeek
  <2>2. H' /\ L'
    BY <1>0, <2>1 DEF FHandleSet
  <2>3. R' /\ Q'
    BY <1>0, <2>1 DEF FReaderSet, ReadsOwnOffset
  <2> QED BY <2>2, <2>3 DEF FileInv, FHandleSet
<1> QED BY <1>1, <1>2, <1>3, <1>4, <1>5, <1>6, <1>7, <1>8, <1>9, <1>10 DEF FuseFileNext

\* Requests on nodes of the read-only file system.
LEMMA RoStep ==
  ASSUME RoInv, RoNext
  PROVE  RoInv'
<1>1. CASE RoRootLookup \/ RoNodeLookup
  <2>1. \/ \E t \in RoTypes \union {"missing"} : ro' = [nd |-> t, cached |-> FALSE, out |-> "looked"]
        \/ ro' = [nd |-> "none", cached |-> FALSE, out |-> "enoent"]
        \/ ro.nd = "dir" /\ ro' = [ro EXCEPT !.out = "enoent"]
    BY <1>1 DEF RoRootLookup, RoNodeLookup
  <2>2. ASSUME NEW t \in RoTypes \union {"missing"}, ro' = [nd |-> t, cached |-> FALSE, out |-> "looked"]
        PROVE  RoInv'
    BY <2>2 DEF RoInv, SymlinkReadable
  <2>3. CASE ro' = [nd |-> "none", cached |-> FALSE, out |-> "enoent"]
    BY <2>3 DEF RoInv, SymlinkReadable
  <2>4. CASE ro.nd = "dir" /\ ro' = [ro EXCEPT !.out = "enoent"]
    BY <2>4 DEF RoInv, SymlinkReadable
  <2> QED BY <2>1, <2>2, <2>3, <2>4
<1>2. CASE RoAttr
  <2> DEFINE loaded2 == ro.nd \in RoTypes \ {"raw"}
             out2 == IF ro.nd = "missing" THEN "panic" ELSE "attr"
  <2>1. ro' = [ro EXCEPT !.cached = loaded2, !.out = out2]
    BY <1>2 DEF RoAttr
  <2>2. /\ loaded2 \in BOOLEAN /\ out2 \in {"panic", "attr"} /\ (ro.nd = "symlink" => loaded2)
    BY DEF RoTypes
  <2> HIDE DEF loaded2, out2
  <2> QED BY <2>1, <2>2 DEF RoInv, SymlinkReadable
<1>3. CASE RoReadDirAll \/ RoRead
  BY <1>3 DEF RoInv, RoReadDirAll, RoRead, SymlinkReadable
<1>4. CASE RoReadlink
  <2>1. ro.cached /\ ro' = [ro EXCEPT !.out = "target"]
    BY <1>4 DEF RoInv, RoReadlink
  <2> QED BY <2>1 DEF RoInv, SymlinkReadable
<1> QED BY <1>1, <1>2, <1>3, <1>4 DEF RoNext

\* The invariant of the mounted file systems.
THEOREM FuseInvariant == FuseFSSpec => []FuseInv
<1>1. FuseFSInit => FuseInv
  <2> SUFFICES ASSUME FuseFSInit PROVE FuseInv
    OBVIOUS
  <2>1. DirInv
    BY NoOpType DEF FuseFSInit, FuseDirInit, DirInv, DirTypes, RenameInv, RenameReqs, FilesNamed, FlushedInv, NoFile
  <2>2. FileInv
    BY DEF FuseFSInit, FuseFileInit, FileInv, FReaderSet, ReadsOwnOffset, Closed
  <2>3. RoInv
    BY DEF FuseFSInit, RoInit, RoInv, RoTypes, SymlinkReadable
  <2> QED BY <2>1, <2>2, <2>3 DEF FuseInv
<1>2. FuseInv /\ [FuseFSNext]_fsVars => FuseInv'
  <2> SUFFICES ASSUME FuseInv, [FuseFSNext]_fsVars PROVE FuseInv'
    OBVIOUS
  <2> USE DEF FuseInv
  <2>d. UNCHANGED <<fsKind, fdVars>> => DirInv'
    BY DEF fdVars, DirInv, DirTypes, RenameInv, FilesNamed, FlushedInv, Holds, Placed, Moving
  <2>f. UNCHANGED <<fsKind, ffVars>> => FileInv'
    BY DEF ffVars, FileInv, ReadsOwnOffset
  <2>r. UNCHANGED ro => RoInv'
    BY DEF RoInv, SymlinkReadable
  <2>1. CASE FuseDirNext /\ UNCHANGED <<ffVars, ro>>
    <3>1. UNCHANGED fsKind
      BY <2>1, FilesCmdKind DEF FuseDirNext, IpnsCreate, MfsCreate, IpnsMkdir, MfsMkdir, IpnsRemove, MfsRemove, IpnsRename,
                  MfsRename, IpnsRenameAdd, MfsRenameTarget, MfsRenameAdd, MfsRenameOld
    <3> QED BY <2>1, <3>1, <2>f, <2>r, DirStep
  <2>2. CASE FuseFileNext /\ UNCHANGED <<fdVars, ro>>
    <3>1. UNCHANGED fsKind
      BY <2>2 DEF FuseFileNext, OpenFile, WriteFile, ReleaseFile, MfsFlush, IpnsFlush, IpnsFlushWork,
                  IpnsFlushReturn, IpnsFlushInterrupted, IpnsReadFull, MfsRead, IpnsReadSeek
    <3> QED BY <2>2, <3>1, <2>d, <2>r, FileStep
  <2>3. CASE RoNext /\ UNCHANGED <<fsKind, fdVars, ffVars>>
    BY <2>3, <2>d, <2>f, RoStep
  <2>4. CASE UNCHANGED fsVars
    BY <2>4, <2>d, <2>f, <2>r DEF fsVars
  <2> QED BY <2>1, <2>2, <2>3, <2>4 DEF FuseFSNext
<1> QED BY <1>1, <1>2, PTL DEF FuseFSSpec

\* A mounted file system tells the kernel the truth: files have a name whatever
\* fails in a rename, flushed ones are in the root, acknowledged writes are flushed,
\* reads are at their own offset, and a symlink can be read.
THEOREM FuseTrue == FuseFSSpec => []FuseTellsTruth
<1>1. FuseInv => FuseTellsTruth
  BY DEF FuseInv, DirInv, DirTypes, FlushedInv, Placed, Moving, Holds, FileInv, RoInv, FuseTellsTruth, FilesNamed,
         FlushedSurvives, SyncedIsFlushed
<1> QED BY <1>1, FuseInvariant, PTL

-----------------------------------------------------------------------------
(***************************************************************************)
(* A file and a directory of the RPC client.                               *)
(*                                                                         *)
(* A stream stands where the file's position is, or at the end of the file *)
(* when the position is beyond it, and it is of the version the size was   *)
(* read of.                                                                *)
(***************************************************************************)
FileVersions == 1 .. Len(VersionSize)
CatStreamSet == [v : FileVersions, pos : Nat, end : Nat, cut : BOOLEAN]
PlainAnswer == [kind : {"ok", "error", "eof"}, n : Int]
ReadAtAnswer == [kind : {"readat", "error", "short"}, n : Nat, off : Nat, len : Nat]

\* Where a stream stands when the file is at the position at.
StreamSound(s, at) ==
  /\ s.pos <= s.end /\ s.end <= VersionSize[s.v] /\ (s.cut <=> s.end < VersionSize[s.v])
  /\ at >= 0 /\ (s.pos = at \/ (at > VersionSize[s.v] /\ s.pos = VersionSize[s.v]))

FileRecord == [pc : {"get", "stat", "open", "ready", "panic", "failed"}, path : Nat, statted : Nat, at : Int]

AfTypes ==
  /\ named \in FileVersions
  /\ file \in FileRecord
  /\ catStream \in CatStreamSet \union {NoStream}
  /\ answer \in PlainAnswer \union ReadAtAnswer
  /\ errorTold \in BOOLEAN

AfInv ==
  /\ AfTypes
  /\ file.pc \in {"stat", "open", "ready", "panic"} => file.path \in FileVersions
  /\ file.pc \in {"open", "ready", "panic"} => file.statted = file.path
  /\ file.pc \in {"get", "stat", "open", "failed"} => catStream = NoStream /\ answer.kind \in {"ok", "error"}
  /\ file.pc \in {"get", "stat", "open"} => file.at = 0
  /\ catStream # NoStream => StreamSound(catStream, file.at) /\ catStream.v = file.statted
  /\ answer.kind = "eof" => answer \in PlainAnswer /\ file.at >= VersionSize[file.statted]
  /\ answer.kind = "short" =>
       answer \in ReadAtAnswer /\ answer.off + answer.n >= VersionSize[file.statted]

LEMMA SizesOfVersions == \A v \in FileVersions : VersionSize[v] \in Nat
BY ApiFileConstants, ElementOfSeq DEF FileVersions

\* A failing request of Get gives no file.
LEMMA GetsFail ==
  ASSUME AfInv, file.pc \in {"get", "stat"}, UNCHANGED <<named, catStream>>,
         file' = [file EXCEPT !.pc = "failed"], answer' = Answer("error", 0), errorTold' = TRUE
  PROVE  AfInv'
<1>1. file' \in FileRecord /\ file'.pc = "failed"
  BY DEF AfInv, AfTypes, FileRecord
<1>2. answer' \in PlainAnswer /\ answer'.kind = "error"
  BY DEF Answer, PlainAnswer
<1>3. catStream = NoStream /\ errorTold' \in BOOLEAN
  BY DEF AfInv
<1> QED BY <1>1, <1>2, <1>3 DEF AfInv, AfTypes

LEMMA FileGetSteps ==
  ASSUME AfInv, NameMoves \/ GetResolve \/ GetStat
  PROVE  AfInv'
<1> USE DEF AfInv, AfTypes
<1>1. CASE NameMoves
  BY <1>1, ApiFileConstants DEF NameMoves, FileVersions
<1>2. CASE GetResolve
  <2>0. /\ file.pc = "get" /\ UNCHANGED <<named, catStream>>
        /\ \/ file' = [file EXCEPT !.pc = "stat", !.path = named] /\ UNCHANGED <<answer, errorTold>>
           \/ file' = [file EXCEPT !.pc = "failed"] /\ answer' = Answer("error", 0) /\ errorTold' = TRUE
    BY <1>2 DEF GetResolve
  <2>1. catStream = NoStream /\ answer.kind \in {"ok", "error"}
    BY <2>0
  <2>2. CASE file' = [file EXCEPT !.pc = "stat", !.path = named] /\ UNCHANGED <<answer, errorTold>>
    <3>1. /\ file' \in FileRecord /\ file'.pc = "stat" /\ file'.path = named /\ file'.at = file.at /\ named \in FileVersions
      <4>1. named \in Nat /\ named \in FileVersions
        BY DEF FileVersions
      <4>2. PICK f \in FileRecord : f = file
        OBVIOUS
      <4>3. file' = [pc |-> "stat", path |-> named, statted |-> f.statted, at |-> f.at]
        BY <2>2, <4>2 DEF FileRecord
      <4> QED BY <4>1, <4>2, <4>3 DEF FileRecord
    <3> QED BY <2>0, <2>1, <2>2, <3>1
  <2>3. CASE file' = [file EXCEPT !.pc = "failed"] /\ answer' = Answer("error", 0) /\ errorTold' = TRUE
    BY <2>0, <2>1, <2>3, GetsFail
  <2> QED BY <2>0, <2>2, <2>3
<1>3. CASE GetStat
  <2>1. PathVersion(file.path) = file.path /\ file.path \in FileVersions
    BY <1>3 DEF GetStat, PathVersion, FileVersions
  <2>0. /\ file.pc = "stat" /\ UNCHANGED <<named, catStream>>
        /\ \/ file' = [file EXCEPT !.pc = "open", !.statted = file.path] /\ UNCHANGED <<answer, errorTold>>
           \/ file' = [file EXCEPT !.pc = "failed"] /\ answer' = Answer("error", 0) /\ errorTold' = TRUE
    BY <1>3, <2>1 DEF GetStat
  <2>2. CASE file' = [file EXCEPT !.pc = "open", !.statted = file.path] /\ UNCHANGED <<answer, errorTold>>
    <3>1. /\ file' \in FileRecord /\ file'.pc = "open" /\ file'.path = file.path /\ file'.statted = file.path /\ file'.at = file.at
      BY <2>1, <2>2 DEF FileVersions, FileRecord
    <3> QED BY <2>0, <2>1, <2>2, <3>1
  <2>3. CASE file' = [file EXCEPT !.pc = "failed"] /\ answer' = Answer("error", 0) /\ errorTold' = TRUE
    BY <2>0, <2>3, GetsFail
  <2> QED BY <2>0, <2>2, <2>3
<1> QED BY <1>1, <1>2, <1>3

\* A fresh stream stands at the position it was asked for.
LEMMA FreshStream ==
  ASSUME NEW v \in FileVersions, NEW at \in Nat, NEW s \in CatStreams(v, at)
  PROVE  s \in CatStreamSet /\ s.v = v /\ StreamSound(s, at)
<1>1. PICK m \in Nat : m = VersionSize[v]
  BY SizesOfVersions
<1> DEFINE from == IF at > m THEN m ELSE at
<1>2. PICK e \in from .. m : s = [v |-> v, pos |-> from, end |-> e, cut |-> e < m]
  BY <1>1 DEF CatStreams
<1>3. from \in Nat /\ e \in Nat /\ from <= e /\ e <= m /\ (e < m) \in BOOLEAN
  BY <1>1
<1> HIDE DEF from
<1>4. s \in CatStreamSet
  BY <1>2, <1>3 DEF CatStreamSet
<1>5. s.v = v /\ s.pos = from /\ s.end = e /\ (s.cut <=> e < m)
  BY <1>2
<1>6. from = at \/ (at > m /\ from = m)
  BY DEF from
<1> QED BY <1>1, <1>3, <1>4, <1>5, <1>6 DEF StreamSound

LEMMA NoStreamIsNone == \A s \in CatStreamSet : s # NoStream
BY DEF CatStreamSet, NoStream, FileVersions

\* What a call of reset leaves.
LEMMA ResetStep ==
  ASSUME AfInv, file.pc \in {"open", "ready"}, NEW at \in Int, file' \in FileRecord, file'.pc = "ready",
         file'.path = file.path, file'.statted = file.statted, file'.at = at,
         Reset(at, Ok(at)), UNCHANGED named
  PROVE  AfInv'
<1> USE DEF AfInv, AfTypes
<1>1. file.path \in FileVersions /\ file.statted = file.path /\ PathVersion(file.path) = file.path
  BY DEF FileVersions, PathVersion
<1>2. CASE at >= 0 /\ catStream' \in CatStreams(PathVersion(file.path), at) /\ answer' = Ok(at) /\ UNCHANGED errorTold
  <2>1. catStream' \in CatStreamSet /\ catStream'.v = file.path /\ StreamSound(catStream', at)
    BY <1>1, <1>2, FreshStream
  <2>2. answer' \in PlainAnswer /\ answer'.kind = "ok"
    BY <1>2 DEF Ok, Answer, PlainAnswer
  <2> HIDE DEF StreamSound
  <2> QED BY <1>1, <1>2, <2>1, <2>2 DEF StreamSound
<1>3. CASE catStream' = NoStream /\ answer' = Answer("error", Ok(at).n) /\ errorTold' = TRUE
  <2>1. answer' \in PlainAnswer /\ answer'.kind = "error"
    BY <1>3 DEF Ok, Answer, PlainAnswer
  <2> QED BY <1>1, <1>3, <2>1
<1> QED BY <1>2, <1>3 DEF Reset

LEMMA FileOpenStep ==
  ASSUME AfInv, GetFile
  PROVE  AfInv'
<1>1. file.pc = "open" /\ file.at = 0 /\ file \in FileRecord /\ file' = [file EXCEPT !.pc = "ready"]
  BY DEF GetFile, AfInv, AfTypes
<1>2. file' \in FileRecord /\ file'.pc = "ready" /\ file'.path = file.path /\ file'.statted = file.statted /\ file'.at = 0
  BY <1>1 DEF FileRecord
<1>3. Reset(0, Ok(0)) /\ UNCHANGED named
  BY DEF GetFile
<1>4. 0 \in Int
  OBVIOUS
<1> QED BY <1>1, <1>2, <1>3, <1>4, ResetStep

LEMMA FileNilStep ==
  ASSUME AfInv, file.pc = "ready", NilResponse
  PROVE  AfInv'
<1>1. file' \in FileRecord /\ file'.pc = "panic" /\ file'.path = file.path /\ file'.statted = file.statted
        /\ file'.at = file.at
  BY DEF NilResponse, AfInv, AfTypes, FileRecord
<1>2. UNCHANGED <<named, catStream, answer, errorTold>>
  BY DEF NilResponse
<1> QED BY <1>1, <1>2 DEF AfInv, AfTypes

\* The position and the stream move on together, by bytes that are there.
LEMMA StreamMovesOn ==
  ASSUME NEW s \in CatStreamSet, s.v \in FileVersions, NEW at \in Int, StreamSound(s, at),
         NEW n \in 0 .. s.end - s.pos, NEW t, t = [s EXCEPT !.pos = @ + n]
  PROVE  t \in CatStreamSet /\ t.v = s.v /\ t.end = s.end /\ t.cut = s.cut /\ t.pos = s.pos + n /\ StreamSound(t, at + n)
<1>1. PICK m \in Nat : m = VersionSize[s.v]
  BY SizesOfVersions
<1>2. s.pos \in Nat /\ s.end \in Nat /\ s.cut \in BOOLEAN /\ n \in Nat /\ s.pos + n <= s.end
  BY DEF CatStreamSet
<1>3. t \in CatStreamSet /\ t.v = s.v /\ t.end = s.end /\ t.cut = s.cut /\ t.pos = s.pos + n
  BY <1>2 DEF CatStreamSet
<1>4. s.end <= m /\ (s.cut <=> s.end < m) /\ at >= 0 /\ (s.pos = at \/ (at > m /\ s.pos = m))
  BY <1>1 DEF StreamSound
<1>5. at + n >= 0 /\ (s.pos + n = at + n \/ (at + n > m /\ s.pos + n = m))
  BY <1>2, <1>4
<1> QED BY <1>1, <1>2, <1>3, <1>4, <1>5 DEF StreamSound

\* A step that moves both, with a plain answer that is true there.
LEMMA FileMovesOn ==
  ASSUME AfInv, file.pc = "ready", catStream # NoStream, NEW n \in 0 .. catStream.end - catStream.pos,
         catStream' = [catStream EXCEPT !.pos = @ + n], file' = [file EXCEPT !.at = @ + n],
         answer' \in PlainAnswer, answer'.kind = "eof" => file.at + n >= VersionSize[file.statted],
         errorTold' \in BOOLEAN, UNCHANGED named
  PROVE  AfInv'
<1>1. /\ catStream \in CatStreamSet /\ StreamSound(catStream, file.at) /\ catStream.v = file.statted /\ file.at \in Int
      /\ file \in FileRecord /\ file.statted = file.path /\ file.path \in FileVersions
  BY DEF AfInv, AfTypes, FileRecord
<1>2. n \in Int
  BY <1>1 DEF CatStreamSet
<1>3. file' \in FileRecord /\ file'.pc = "ready" /\ file'.path = file.path /\ file'.statted = file.statted /\ file'.at = file.at + n
  BY <1>1, <1>2 DEF FileRecord
<1>4. catStream' \in CatStreamSet /\ catStream'.v = catStream.v /\ StreamSound(catStream', file.at + n)
  BY <1>1, StreamMovesOn
<1>5. answer'.kind # "short"
  BY DEF PlainAnswer
<1>6. AfTypes'
  BY <1>3, <1>4 DEF AfTypes, AfInv
<1> QED BY <1>1, <1>3, <1>4, <1>5, <1>6 DEF AfInv

\* At the end of a stream that was not cut the file ends.
LEMMA EndOfStream ==
  ASSUME NEW s \in CatStreamSet, NEW at \in Int, StreamSound(s, at), s.pos = s.end
  PROVE  /\ ReadEnd(s) \in PlainAnswer /\ ReadEnd(s).kind \in {"error", "eof"}
         /\ ReadEnd(s).kind = "eof" => at >= VersionSize[s.v]
<1>1. PICK m \in Nat : m = VersionSize[s.v]
  BY SizesOfVersions DEF CatStreamSet
<1>2. s.pos \in Nat /\ s.end \in Nat /\ s.cut \in BOOLEAN
  BY DEF CatStreamSet
<1>3. CASE s.cut
  BY <1>3 DEF ReadEnd, Answer, PlainAnswer
<1>4. CASE ~s.cut
  <2>1. s.end = m /\ at >= m
    BY <1>1, <1>2, <1>4 DEF StreamSound
  <2>2. ReadEnd(s) = [kind |-> "eof", n |-> 0]
    BY <1>4 DEF ReadEnd, Answer
  <2> QED BY <1>1, <2>1, <2>2 DEF PlainAnswer
<1> QED BY <1>3, <1>4

LEMMA FileReadStep ==
  ASSUME AfInv, Read
  PROVE  AfInv'
<1>0. file.pc = "ready"
  BY DEF Read
<1>1. CASE catStream = NoStream /\ NilResponse
  BY <1>0, <1>1, FileNilStep
<1>2. CASE catStream # NoStream /\ \E n \in 1 .. catStream.end - catStream.pos :
                /\ catStream' = [catStream EXCEPT !.pos = @ + n]
                /\ file' = [file EXCEPT !.at = @ + n] /\ answer' = Ok(n) /\ UNCHANGED <<errorTold, named>>
  <2>1. PICK n \in 1 .. catStream.end - catStream.pos :
                /\ catStream' = [catStream EXCEPT !.pos = @ + n]
                /\ file' = [file EXCEPT !.at = @ + n] /\ answer' = Ok(n) /\ UNCHANGED <<errorTold, named>>
    BY <1>2
  <2>2. catStream \in CatStreamSet
    BY <1>2 DEF AfInv, AfTypes
  <2>3. n \in 0 .. catStream.end - catStream.pos /\ n \in Int
    BY <2>2 DEF CatStreamSet
  <2>4. answer' \in PlainAnswer /\ answer'.kind = "ok"
    BY <2>1, <2>3 DEF Ok, Answer, PlainAnswer
  <2>5. errorTold' \in BOOLEAN
    BY <2>1 DEF AfInv, AfTypes
  <2> QED BY <1>0, <1>2, <2>1, <2>3, <2>4, <2>5, FileMovesOn
<1>3. CASE /\ catStream # NoStream /\ catStream.pos = catStream.end /\ answer' = ReadEnd(catStream)
           /\ errorTold' = (errorTold \/ answer'.kind = "error") /\ UNCHANGED <<file, catStream, named>>
  <2>1. catStream \in CatStreamSet /\ StreamSound(catStream, file.at) /\ catStream.v = file.statted /\ file.at \in Int
    BY <1>3 DEF AfInv, AfTypes, FileRecord
  <2>2. /\ answer' \in PlainAnswer /\ answer'.kind \in {"error", "eof"}
        /\ answer'.kind = "eof" => file.at >= VersionSize[file.statted]
    BY <1>3, <2>1, EndOfStream
  <2>3. errorTold' \in BOOLEAN
    BY <1>3
  <2> QED BY <1>0, <1>3, <2>2, <2>3 DEF AfInv, AfTypes
<1> QED BY <1>1, <1>2, <1>3 DEF Read

LEMMA FileReadAtStep ==
  ASSUME AfInv, NEW off \in Int, NEW n \in 0 .. 2, ReadAt(off, n)
  PROVE  AfInv'
<1>1. file.pc = "ready" /\ UNCHANGED <<named, file, catStream>>
  BY DEF ReadAt
<1>2. file.path \in FileVersions /\ file.statted = file.path /\ PathVersion(file.path) = file.path
  BY <1>1 DEF AfInv, FileVersions, PathVersion
<1>3. /\ answer' \in PlainAnswer \union ReadAtAnswer /\ errorTold' \in BOOLEAN /\ answer'.kind # "eof"
      /\ answer'.kind = "short" => answer' \in ReadAtAnswer /\ answer'.off + answer'.n >= VersionSize[file.statted]
  <2>1. CASE answer' = Answer("error", 0) /\ errorTold' = TRUE
    BY <2>1 DEF Answer, PlainAnswer
  <2>2. CASE /\ off >= 0
             /\ \E s \in CatStreams(PathVersion(file.path), off) :
                  LET got == IF s.end - s.pos < n THEN s.end - s.pos ELSE n IN
                  /\ answer' = [kind |-> IF got = n THEN "readat" ELSE IF s.cut THEN "error" ELSE "short",
                                n |-> got, off |-> off, len |-> n]
                  /\ errorTold' = (errorTold \/ answer'.kind = "error")
    <3>1. PICK s \in CatStreams(file.path, off) :
                  LET got == IF s.end - s.pos < n THEN s.end - s.pos ELSE n IN
                  /\ answer' = [kind |-> IF got = n THEN "readat" ELSE IF s.cut THEN "error" ELSE "short",
                                n |-> got, off |-> off, len |-> n]
                  /\ errorTold' = (errorTold \/ answer'.kind = "error")
      BY <1>2, <2>2
    <3>2. s \in CatStreamSet /\ s.v = file.path /\ StreamSound(s, off)
      BY <1>2, <2>2, <3>1, FreshStream
    <3>3. PICK m \in Nat : m = VersionSize[file.path]
      BY <1>2, SizesOfVersions
    <3>4. s.pos \in Nat /\ s.end \in Nat /\ s.cut \in BOOLEAN /\ s.pos <= s.end /\ s.end <= m /\ (s.cut <=> s.end < m)
          /\ (s.pos = off \/ (off > m /\ s.pos = m))
      BY <3>2, <3>3 DEF StreamSound, CatStreamSet
    <3> DEFINE got == IF s.end - s.pos < n THEN s.end - s.pos ELSE n
               kind == IF got = n THEN "readat" ELSE IF s.cut THEN "error" ELSE "short"
    <3>5. answer' = [kind |-> kind, n |-> got, off |-> off, len |-> n] /\ errorTold' = (errorTold \/ answer'.kind = "error")
      BY <3>1
    <3>6. got \in Nat /\ off \in Nat /\ n \in Nat
      BY <2>2, <3>4
    <3>7. kind \in {"readat", "error", "short"}
      OBVIOUS
    <3>8. kind = "short" => off + got >= m
      BY <3>4, <3>6
    <3> HIDE DEF got, kind
    <3>9. answer' \in ReadAtAnswer /\ answer'.kind = kind /\ answer'.off = off /\ answer'.n = got
      BY <3>5, <3>6, <3>7 DEF ReadAtAnswer
    <3>10. errorTold' \in BOOLEAN
      BY <3>5
    <3> QED BY <1>2, <3>3, <3>7, <3>8, <3>9, <3>10
  <2> QED BY <2>1, <2>2 DEF ReadAt
<1> HIDE DEF ReadAt
<1> QED BY <1>1, <1>3 DEF AfInv, AfTypes

LEMMA FileSkipStep ==
  ASSUME AfInv, file.pc = "ready", catStream # NoStream, NEW target \in Int, file.at < target, SkipForward(target), UNCHANGED named
  PROVE  AfInv'
<1> DEFINE left == catStream.end - catStream.pos
           r == IF left < target - file.at THEN left ELSE target - file.at
<1>1. /\ catStream \in CatStreamSet /\ StreamSound(catStream, file.at) /\ catStream.v = file.statted /\ file.at \in Int
      /\ file.statted \in FileVersions
  BY DEF AfInv, AfTypes, FileRecord
<1>2. left \in Nat
  BY <1>1 DEF CatStreamSet, StreamSound
<1>3. r \in 0 .. left /\ r \in Nat /\ (r = target - file.at \/ r = left)
  BY <1>1, <1>2
<1>4. /\ catStream' = [catStream EXCEPT !.pos = @ + r] /\ file' = [file EXCEPT !.at = @ + r]
      /\ answer' = Answer(IF r = target - file.at THEN "ok" ELSE ReadEnd(catStream).kind, file.at + r)
      /\ errorTold' = (errorTold \/ r < target - file.at)
  BY DEF SkipForward
<1>5. ASSUME r = left
      PROVE  /\ ReadEnd(catStream).kind \in {"error", "eof"}
             /\ ReadEnd(catStream).kind = "eof" => file.at + r >= VersionSize[file.statted]
  <2> HIDE DEF r
  <2>1. /\ catStream' \in CatStreamSet /\ catStream'.v = catStream.v /\ catStream'.end = catStream.end
        /\ catStream'.cut = catStream.cut /\ catStream'.pos = catStream.pos + r /\ StreamSound(catStream', file.at + r)
    BY <1>1, <1>3, <1>4, StreamMovesOn
  <2>2. catStream'.pos = catStream'.end
    BY <1>1, <1>5, <2>1 DEF CatStreamSet
  <2>3. file.at + r \in Int
    BY <1>1, <1>3
  <2>4. ReadEnd(catStream').kind \in {"error", "eof"} /\ (ReadEnd(catStream').kind = "eof" => file.at + r >= VersionSize[file.statted])
    BY <1>1, <2>1, <2>2, <2>3, EndOfStream
  <2>5. ReadEnd(catStream') = ReadEnd(catStream)
    BY <2>1 DEF ReadEnd
  <2> QED BY <2>4, <2>5
<1> HIDE DEF r, left
<1>6. /\ answer' \in PlainAnswer
      /\ answer'.kind = "eof" => file.at + r >= VersionSize[file.statted]
  <2>1. file.at + r \in Int
    BY <1>1, <1>3
  <2>2. CASE r = target - file.at
    BY <1>4, <2>1, <2>2 DEF Answer, PlainAnswer
  <2>3. CASE r # target - file.at
    <3>1. answer' = [kind |-> ReadEnd(catStream).kind, n |-> file.at + r] /\ ReadEnd(catStream).kind \in {"error", "eof"}
      BY <1>3, <1>4, <1>5, <2>3 DEF Answer
    <3> QED BY <1>3, <1>5, <2>1, <2>3, <3>1 DEF PlainAnswer
  <2> QED BY <2>2, <2>3
<1>7. errorTold' \in BOOLEAN
  BY <1>4 DEF AfInv, AfTypes
<1> QED BY <1>3, <1>4, <1>6, <1>7, FileMovesOn DEF left

LEMMA FileSeekStep ==
  ASSUME AfInv, NEW off \in Int, NEW w \in {"start", "current", "end"}, Seek(off, w)
  PROVE  AfInv'
<1>1. file.pc = "ready" /\ UNCHANGED named
  BY DEF Seek
<1>2. file \in FileRecord /\ file.at \in Int /\ file.statted \in FileVersions
  BY <1>1 DEF AfInv, AfTypes, FileRecord
<1>3. PICK target \in Int : target = SeekTarget(off, w)
  <2>1. VersionSize[file.statted] \in Int
    BY <1>2, SizesOfVersions
  <2> QED BY <1>2, <2>1 DEF SeekTarget
<1>4. CASE target = file.at /\ answer' = Ok(target) /\ UNCHANGED <<file, catStream, errorTold>>
  <2>1. answer' \in PlainAnswer /\ answer'.kind = "ok"
    BY <1>4 DEF Ok, Answer, PlainAnswer
  <2> QED BY <1>1, <1>4, <2>1 DEF AfInv, AfTypes
<1>5. CASE file.at < target /\ IF catStream = NoStream THEN NilResponse ELSE SkipForward(target)
  BY <1>1, <1>5, FileNilStep, FileSkipStep
<1>6. CASE file' = [file EXCEPT !.at = target] /\ Reset(target, Ok(target))
  <2>1. file' \in FileRecord /\ file'.pc = "ready" /\ file'.path = file.path /\ file'.statted = file.statted /\ file'.at = target
    BY <1>1, <1>2, <1>6 DEF FileRecord
  <2> QED BY <1>1, <1>6, <2>1, ResetStep
<1> QED BY <1>3, <1>4, <1>5, <1>6 DEF Seek

THEOREM FileInvariant == AfSpec => []AfInv
<1>1. AfInit => AfInv
  <2> SUFFICES ASSUME AfInit PROVE AfInv
    OBVIOUS
  <2>1. 1 \in FileVersions
    BY ApiFileConstants DEF FileVersions
  <2>2. answer \in PlainAnswer /\ answer.kind = "ok"
    BY DEF AfInit, Ok, Answer, PlainAnswer
  <2>3. file = [pc |-> "get", path |-> 0, statted |-> 0, at |-> 0] /\ file \in FileRecord
    BY DEF AfInit, FileRecord
  <2>4. AfTypes
    BY <2>1, <2>2, <2>3 DEF AfInit, AfTypes
  <2> QED BY <2>2, <2>3, <2>4 DEF AfInit, AfInv
<1>2. AfInv /\ [AfNext]_afVars => AfInv'
  <2> SUFFICES ASSUME AfInv, [AfNext]_afVars PROVE AfInv'
    OBVIOUS
  <2>1. CASE UNCHANGED afVars
    BY <2>1 DEF afVars, AfInv, AfTypes
  <2>2. CASE NameMoves \/ GetResolve \/ GetStat
    BY <2>2, FileGetSteps
  <2>3. CASE GetFile \/ Read
    BY <2>3, FileOpenStep, FileReadStep
  <2>4. CASE \E off \in SeekOffsets, n \in 0 .. 2 : ReadAt(off, n)
    BY <2>4, ApiFileConstants, FileReadAtStep
  <2>5. CASE \E off \in SeekOffsets, w \in {"start", "current", "end"} : Seek(off, w)
    BY <2>5, ApiFileConstants, FileSeekStep
  <2> QED BY <2>1, <2>2, <2>3, <2>4, <2>5 DEF AfNext
<1> QED BY <1>1, <1>2, PTL DEF AfSpec

DirSet == [entries : DirEntries, cut : BOOLEAN, buf : Nat, given : Nat, iter : {"none", "ready", "on", "end", "error"}, got : Nat]

\* What the decoder has, and what was given, is the directory.
DirListInv ==
  /\ dir \in DirSet
  /\ ~dir.cut /\ dir.iter \in {"ready", "on", "end"} => dir.buf + dir.given = dir.entries
  /\ dir.iter = "end" => dir.buf = 0
  /\ dir.iter = "none" => dir.given = 0

THEOREM DirInvariant == DirSpec => []DirListInv
<1>1. DirInit => DirListInv
  BY DEF DirInit, DirListInv, DirSet, DirEntries
<1>2. DirListInv /\ [DirNext]_dir => DirListInv'
  <2> SUFFICES ASSUME DirListInv, [DirNext]_dir PROVE DirListInv'
    OBVIOUS
  <2>0. PICK d \in DirSet : d = dir
    BY DEF DirListInv
  <2>1. CASE UNCHANGED dir
    BY <2>1 DEF DirListInv
  <2>2. CASE dir.iter = "none" /\ dir' = [dir EXCEPT !.iter = "error"]
    <3>1. dir' = [entries |-> d.entries, cut |-> d.cut, buf |-> d.buf, given |-> d.given, iter |-> "error", got |-> d.got]
      BY <2>0, <2>2 DEF DirSet
    <3>2. dir' \in DirSet /\ dir'.iter = "error"
      BY <3>1 DEF DirSet
    <3> QED BY <3>2 DEF DirListInv
  <2>3. CASE \E k \in 0 .. dir.entries :
                dir.iter = "none" /\ dir' = [dir EXCEPT !.iter = "ready", !.buf = k, !.cut = k < dir.entries]
    <3>1. PICK k \in 0 .. dir.entries :
                dir.iter = "none" /\ dir' = [dir EXCEPT !.iter = "ready", !.buf = k, !.cut = k < dir.entries]
      BY <2>3
    <3>2. d.entries \in Nat /\ k \in Nat /\ k <= d.entries /\ (k < d.entries) \in BOOLEAN /\ d.given \in Nat
      BY <2>0, <3>1 DEF DirSet, DirEntries
    <3>3. dir' = [entries |-> d.entries, cut |-> k < d.entries, buf |-> k, given |-> d.given, iter |-> "ready", got |-> d.got]
      BY <2>0, <3>1 DEF DirSet
    <3>4. dir' \in DirSet
      BY <3>2, <3>3 DEF DirSet
    <3>5. d.given = 0
      BY <2>0, <3>1 DEF DirListInv
    <3>6. dir'.cut = (k < d.entries) /\ dir'.buf = k /\ dir'.given = 0 /\ dir'.entries = d.entries /\ dir'.iter = "ready"
      BY <3>3, <3>5
    <3>7. ~dir'.cut => k = d.entries
      <4>1. CASE k < d.entries
        BY <3>6, <4>1
      <4>2. CASE ~(k < d.entries)
        BY <3>2, <4>2
      <4> QED BY <4>1, <4>2
    <3>8. ~dir'.cut => dir'.buf + dir'.given = dir'.entries
      BY <3>2, <3>6, <3>7
    <3> QED BY <3>4, <3>6, <3>8 DEF DirListInv
  <2>4. CASE Entries
    <3>1. dir.iter \in {"ready", "end"} /\ dir' = [d EXCEPT !.iter = "on", !.got = 0]
      BY <2>0, <2>4 DEF Entries
    <3>2. dir' = [entries |-> d.entries, cut |-> d.cut, buf |-> d.buf, given |-> d.given, iter |-> "on", got |-> 0]
      BY <3>1 DEF DirSet
    <3> QED BY <2>0, <3>1, <3>2 DEF DirListInv, DirSet
  <2>5. CASE dir.iter = "on" /\ dir.buf = 0 /\ dir' = [dir EXCEPT !.iter = "end"]
    BY <2>5 DEF DirListInv, DirSet
  <2>6. CASE dir.iter = "on" /\ dir.buf > 0 /\ dir' = [dir EXCEPT !.buf = @ - 1, !.iter = "error"]
    <3>1. dir' = [entries |-> d.entries, cut |-> d.cut, buf |-> d.buf - 1, given |-> d.given, iter |-> "error", got |-> d.got]
      BY <2>0, <2>6 DEF DirSet
    <3>2. d.buf - 1 \in Nat
      BY <2>0, <2>6 DEF DirSet
    <3> QED BY <3>1, <3>2 DEF DirListInv, DirSet
  <2>7. CASE dir.iter = "on" /\ dir.buf > 0 /\ dir' = [dir EXCEPT !.buf = @ - 1, !.given = @ + 1, !.got = @ + 1]
    <3>1. dir' = [entries |-> d.entries, cut |-> d.cut, buf |-> d.buf - 1, given |-> d.given + 1, iter |-> "on", got |-> d.got + 1]
      BY <2>0, <2>7 DEF DirSet
    <3>2. d.buf - 1 \in Nat /\ d.given + 1 \in Nat /\ d.got + 1 \in Nat /\ d.buf \in Nat /\ d.given \in Nat
      BY <2>0, <2>7 DEF DirSet
    <3>3. dir' \in DirSet
      BY <3>1, <3>2 DEF DirSet
    <3>4. ~d.cut => d.buf + d.given = d.entries
      BY <2>0, <2>7 DEF DirListInv
    <3> QED BY <3>1, <3>2, <3>3, <3>4 DEF DirListInv
  <2> QED BY <2>1, <2>2, <2>3, <2>4, <2>5, <2>6, <2>7 DEF DirNext, GetDir, IterNext
<1> QED BY <1>1, <1>2, PTL DEF DirSpec

-----------------------------------------------------------------------------
(***************************************************************************)
(* ipfs cat.                                                               *)
(*                                                                         *)
(* Of the files passed so far, what is given is what lies behind the       *)
(* offset; the offset that is left is what they fall short of it.          *)
(***************************************************************************)
CatByte == Nat \X Nat
CatReader == [file : Nat, from : Nat, len : Nat]

\* The bytes of the first k files, and those a list of readers gives.
BytesOf(sizes, k) == FlattenSeq([i \in 1 .. k |-> FileBytes(i, 0, sizes[i])])
GivenBy(readers) == FlattenSeq([i \in 1 .. Len(readers) |-> FileBytes(readers[i].file, readers[i].from, readers[i].len)])

\* How far a is beyond b.
Beyond(a, b) == IF a > b THEN a - b ELSE 0

LEMMA FileBytesAre ==
  ASSUME NEW f \in Nat, NEW from \in Nat, NEW l \in Nat
  PROVE  /\ FileBytes(f, from, l) \in Seq(CatByte) /\ Len(FileBytes(f, from, l)) = l
         /\ \A b \in 1 .. l : FileBytes(f, from, l)[b] = <<f, from + b>>
<1>1. \A b \in 1 .. l : <<f, from + b>> \in CatByte
  BY DEF CatByte
<1> QED BY <1>1 DEF FileBytes

\* A part of a file is that part of its bytes.
IsPart(f, from, l, size) ==
  from + l <= size => FileBytes(f, from, l) = SubSeq(FileBytes(f, 0, size), from + 1, from + l)

LEMMA FilePart ==
  ASSUME NEW f \in Nat, NEW from \in Nat, NEW l \in Nat, NEW size \in Nat
  PROVE  IsPart(f, from, l, size)
<1> SUFFICES ASSUME from + l <= size
             PROVE  FileBytes(f, from, l) = SubSeq(FileBytes(f, 0, size), from + 1, from + l)
  BY DEF IsPart
<1>0. 0 \in Nat
  OBVIOUS
<1>1. PICK w \in Seq(CatByte) : w = FileBytes(f, 0, size) /\ Len(w) = size /\ \A b \in 1 .. size : w[b] = <<f, 0 + b>>
  BY <1>0, FileBytesAre, ZenonT(60)
<1>2. PICK p \in Seq(CatByte) : p = FileBytes(f, from, l) /\ Len(p) = l /\ \A b \in 1 .. l : p[b] = <<f, from + b>>
  BY FileBytesAre
<1>3. PICK q : q = SubSeq(w, from + 1, from + l)
  OBVIOUS
<1>4. /\ q \in Seq(CatByte) /\ Len(q) = l
      /\ \A b \in 1 .. l : q[b] = w[from + b]
  <2>1. /\ q \in Seq(CatByte)
        /\ Len(q) = IF from + 1 <= from + l THEN (from + l) - (from + 1) + 1 ELSE 0
        /\ \A b \in 1 .. (from + l) - (from + 1) + 1 : q[b] = w[(from + 1) + b - 1]
    <3>1. \A b \in (from + 1) .. (from + l) : b \in 1 .. Len(w)
      BY <1>1
    <3> QED BY <1>3, <3>1, SubSeqProperties
  <2>2. \A b \in 1 .. l : (from + 1) + b - 1 = from + b
    OBVIOUS
  <2>3. (from + l) - (from + 1) + 1 = l
    OBVIOUS
  <2> QED BY <2>1, <2>2, <2>3
<1>5. \A b \in 1 .. l : q[b] = p[b]
  <2> TAKE b \in 1 .. l
  <2>1. from + b \in 1 .. size /\ 0 + (from + b) = from + b
    OBVIOUS
  <2>2. w[from + b] = <<f, 0 + (from + b)>>
    BY <1>1, <2>1
  <2> QED BY <1>2, <1>4, <2>1, <2>2
<1>6. q = p
  BY <1>2, <1>4, <1>5, SeqEqual
<1> QED BY <1>1, <1>2, <1>3, <1>6

\* One more file.
LEMMA BytesOfNext ==
  ASSUME NEW sizes \in Seq(Nat), NEW k \in Nat, k < Len(sizes)
  PROVE  BytesOf(sizes, k + 1) = BytesOf(sizes, k) \o FileBytes(k + 1, 0, sizes[k + 1])
<1> DEFINE parts(n) == [i \in 1 .. n |-> FileBytes(i, 0, sizes[i])]
<1>1. \A i \in 1 .. Len(sizes) : FileBytes(i, 0, sizes[i]) \in Seq(CatByte)
  <2> TAKE i \in 1 .. Len(sizes)
  <2>1. i \in Nat /\ sizes[i] \in Nat /\ 0 \in Nat
    BY ElementOfSeq
  <2> QED BY <2>1, FileBytesAre
<1>2. PICK l \in Nat : l = Len(sizes)
  OBVIOUS
<1>3. \A n \in 0 .. l : parts(n) \in Seq(Seq(CatByte)) /\ Len(parts(n)) = n
  <2> TAKE n \in 0 .. l
  <2>1. \A i \in 1 .. n : FileBytes(i, 0, sizes[i]) \in Seq(CatByte)
    BY <1>1, <1>2
  <2> QED BY <2>1
<1>4. PICK e \in Seq(CatByte) : e = FileBytes(k + 1, 0, sizes[k + 1])
  BY <1>1, <1>2
<1>5. parts(k + 1) = Append(parts(k), e)
  <2>1. k \in 0 .. l /\ k + 1 \in 0 .. l
    BY <1>2
  <2>2. PICK s \in Seq(Seq(CatByte)) : s = parts(k) /\ Len(s) = k /\ \A i \in 1 .. k : s[i] = FileBytes(i, 0, sizes[i])
    BY <1>3, <2>1
  <2>3. PICK t \in Seq(Seq(CatByte)) : t = parts(k + 1) /\ Len(t) = k + 1 /\ \A i \in 1 .. k + 1 : t[i] = FileBytes(i, 0, sizes[i])
    BY <1>3, <2>1
  <2>4. PICK u : u = Append(s, e)
    OBVIOUS
  <2>5. u \in Seq(Seq(CatByte)) /\ Len(u) = k + 1 /\ u[k + 1] = e /\ \A i \in 1 .. k : u[i] = s[i]
    BY <1>4, <2>2, <2>4, AppendProperties
  <2>6. \A i \in 1 .. k + 1 : i = k + 1 \/ i \in 1 .. k
    OBVIOUS
  <2>7. \A i \in 1 .. k + 1 : u[i] = t[i]
    BY <1>4, <2>2, <2>3, <2>5, <2>6
  <2>8. u = t
    BY <2>3, <2>5, <2>7, SeqEqual
  <2> QED BY <2>2, <2>3, <2>4, <2>8
<1>6. k \in 0 .. l
  BY <1>2
<1>7. FlattenSeq(parts(k + 1)) = FlattenSeq(parts(k)) \o e
  <2> HIDE DEF parts
  <2> QED BY <1>3, <1>4, <1>5, <1>6, FlattenAppend
<1> QED BY <1>4, <1>7 DEF BytesOf

LEMMA BytesOfType ==
  ASSUME NEW sizes \in Seq(Nat), NEW k \in 0 .. Len(sizes)
  PROVE  BytesOf(sizes, k) \in Seq(CatByte) /\ BytesOf(sizes, 0) = <<>>
<1>1. [i \in 1 .. k |-> FileBytes(i, 0, sizes[i])] \in Seq(Seq(CatByte))
  <2>1. \A i \in 1 .. k : FileBytes(i, 0, sizes[i]) \in Seq(CatByte)
    <3> TAKE i \in 1 .. k
    <3>1. i \in 1 .. Len(sizes) /\ i \in Nat /\ 0 \in Nat
      OBVIOUS
    <3>2. sizes[i] \in Nat
      BY <3>1, ElementOfSeq
    <3> QED BY <3>1, <3>2, FileBytesAre
  <2> QED BY <2>1
<1>2. FlattenSeq([i \in 1 .. 0 |-> FileBytes(i, 0, sizes[i])]) = <<>>
  <2>1. [i \in 1 .. 0 |-> FileBytes(i, 0, sizes[i])] = <<>>
    OBVIOUS
  <2> QED BY <2>1 DEF FlattenSeq
<1> QED BY <1>1, <1>2, FlattenAppend DEF BytesOf

\* One more reader.
LEMMA GivenByNext ==
  ASSUME NEW readers \in Seq(CatReader), NEW r \in CatReader
  PROVE  /\ GivenBy(readers) \in Seq(CatByte)
         /\ Append(readers, r) \in Seq(CatReader)
         /\ GivenBy(Append(readers, r)) = GivenBy(readers) \o FileBytes(r.file, r.from, r.len)
<1> DEFINE bytes(x) == FileBytes(x.file, x.from, x.len)
           parts(rs) == [i \in 1 .. Len(rs) |-> bytes(rs[i])]
<1>1. \A x \in CatReader : bytes(x) \in Seq(CatByte)
  BY FileBytesAre DEF CatReader
<1>2. PICK l \in Nat : l = Len(readers)
  OBVIOUS
<1>3. PICK rs : rs = Append(readers, r)
  OBVIOUS
<1>4. rs \in Seq(CatReader) /\ Len(rs) = l + 1 /\ rs[l + 1] = r /\ \A i \in 1 .. l : rs[i] = readers[i]
  BY <1>2, <1>3, AppendProperties
<1>5. PICK s \in Seq(Seq(CatByte)) : s = parts(readers) /\ Len(s) = l /\ \A i \in 1 .. l : s[i] = bytes(readers[i])
  <2>1. \A i \in 1 .. l : bytes(readers[i]) \in Seq(CatByte)
    <3> TAKE i \in 1 .. l
    <3>1. readers[i] \in CatReader
      BY <1>2, ElementOfSeq
    <3> HIDE DEF bytes
    <3> QED BY <1>1, <3>1
  <2>2. PICK q : q = parts(readers)
    OBVIOUS
  <2>3. q = [i \in 1 .. l |-> bytes(readers[i])]
    BY <1>2, <2>2, Zenon
  <2> HIDE DEF bytes, parts
  <2>4. q \in Seq(Seq(CatByte)) /\ Len(q) = l /\ \A i \in 1 .. l : q[i] = bytes(readers[i])
    BY <2>1, <2>3
  <2> QED BY <2>2, <2>4
<1>6. PICK t \in Seq(Seq(CatByte)) : t = parts(rs) /\ Len(t) = l + 1 /\ \A i \in 1 .. l + 1 : t[i] = bytes(rs[i])
  <2>1. \A i \in 1 .. l + 1 : bytes(rs[i]) \in Seq(CatByte)
    <3> TAKE i \in 1 .. l + 1
    <3>1. rs[i] \in CatReader
      BY <1>4, ElementOfSeq
    <3> HIDE DEF bytes
    <3> QED BY <1>1, <3>1
  <2>2. PICK q : q = parts(rs)
    OBVIOUS
  <2>3. q = [i \in 1 .. l + 1 |-> bytes(rs[i])]
    BY <1>4, <2>2, Zenon
  <2> HIDE DEF bytes, parts
  <2>4. q \in Seq(Seq(CatByte)) /\ Len(q) = l + 1 /\ \A i \in 1 .. l + 1 : q[i] = bytes(rs[i])
    BY <2>1, <2>3
  <2> QED BY <2>2, <2>4
<1>7. PICK u : u = Append(s, bytes(r))
  OBVIOUS
<1>8. u \in Seq(Seq(CatByte)) /\ Len(u) = l + 1 /\ u[l + 1] = bytes(r) /\ \A i \in 1 .. l : u[i] = s[i]
  <2>1. PICK e \in Seq(CatByte) : e = bytes(r)
    BY <1>1
  <2>2. u = Append(s, e)
    BY <1>7, <2>1
  <2> HIDE DEF bytes, parts
  <2>3. u \in Seq(Seq(CatByte)) /\ Len(u) = l + 1 /\ u[l + 1] = e /\ \A i \in 1 .. l : u[i] = s[i]
    BY <1>5, <2>2, AppendProperties
  <2> QED BY <2>1, <2>3
<1>9. u = t
  <2>1. \A i \in 1 .. l + 1 : i = l + 1 \/ i \in 1 .. l
    OBVIOUS
  <2> HIDE DEF bytes, parts
  <2>2. \A i \in 1 .. l + 1 : u[i] = t[i]
    BY <1>4, <1>5, <1>6, <1>8, <2>1
  <2> QED BY <1>6, <1>8, <2>2, SeqEqual
<1>10. FlattenSeq(t) = FlattenSeq(s) \o bytes(r) /\ FlattenSeq(s) \in Seq(CatByte)
  <2>1. bytes(r) \in Seq(CatByte)
    BY <1>1
  <2> HIDE DEF bytes, parts
  <2> QED BY <1>5, <1>7, <1>9, <2>1, FlattenAppend
<1>11. GivenBy(rs) = FlattenSeq(t) /\ GivenBy(readers) = FlattenSeq(s)
  BY <1>5, <1>6, Zenon DEF GivenBy
<1> QED BY <1>3, <1>4, <1>10, <1>11

LEMMA PartBehind ==
  ASSUME NEW S, NEW A \in Seq(S), NEW F \in Seq(S), NEW m, NEW r, m \in Len(A) + 1 .. Len(A) + Len(F),
         r \in Len(A) + 1 .. Len(A) + Len(F), NEW p, p = m - Len(A), NEW q, q = r - Len(A)
  PROVE  SubSeq(A \o F, m, r) = SubSeq(F, p, q)
<1>1. SubSeq(A \o F, m, r) = SubSeq(F, m - Len(A), r - Len(A))
  BY SubSeqOfConcat2
<1> QED BY <1>1, Zenon

\* What is given of more bytes: of those before, and a part of those that come on.
IsCut(A, F, o, n, d, l) ==
  n = Len(A) /\ d = Beyond(o, n) /\ d + l <= Len(F)
    => SubSeq(A, o + 1, n) \o SubSeq(F, d + 1, d + l) = SubSeq(A \o F, o + 1, n + d + l)

LEMMA CutMore ==
  ASSUME NEW S, NEW A \in Seq(S), NEW F \in Seq(S), NEW n \in Nat, NEW o \in Nat, NEW l \in Nat, NEW d \in Nat
  PROVE  IsCut(A, F, o, n, d, l)
<1> SUFFICES ASSUME n = Len(A), d = Beyond(o, n), d + l <= Len(F)
             PROVE  SubSeq(A, o + 1, n) \o SubSeq(F, d + 1, d + l) = SubSeq(A \o F, o + 1, n + d + l)
  BY DEF IsCut
<1>0. PICK k \in Nat : k = Len(F)
  OBVIOUS
<1>1. A \o F \in Seq(S) /\ Len(A \o F) = n + k
  BY <1>0, ConcatProperties
<1>2. \A i \in 1 .. k : F[i] \in S
  BY <1>0, ElementOfSeq
<1>3. SubSeq(F, d + 1, d + l) \in Seq(S)
  <2>1. \A i \in (d + 1) .. (d + l) : F[i] \in S
    BY <1>0, <1>2
  <2> QED BY <2>1, SubSeqProperties
<1>4. CASE o >= n
  <2>1. d = o - n
    BY <1>4 DEF Beyond
  <2>2. SubSeq(A, o + 1, n) = <<>>
    BY <1>4, SubSeqEmpty
  <2>3. SubSeq(F, d + 1, d + l) = SubSeq(A \o F, o + 1, n + d + l)
    <3>1. CASE l = 0
      <4>1. SubSeq(F, d + 1, d + l) = <<>>
        <5>1. d + l < d + 1 /\ d + l \in Int /\ d + 1 \in Int
          BY <3>1
        <5> QED BY <5>1, SubSeqEmpty
      <4>2. SubSeq(A \o F, o + 1, n + d + l) = <<>>
        <5>1. n + d + l < o + 1 /\ n + d + l \in Int /\ o + 1 \in Int
          BY <2>1, <3>1
        <5> QED BY <5>1, SubSeqEmpty
      <4> QED BY <4>1, <4>2
    <3>2. CASE l > 0
      <4>1. PICK m, r, p, q : m = o + 1 /\ r = n + d + l /\ p = d + 1 /\ q = d + l
        OBVIOUS
      <4>2. m \in Len(A) + 1 .. Len(A) + Len(F) /\ r \in Len(A) + 1 .. Len(A) + Len(F)
        BY <4>1, <1>0, <1>4, <2>1, <3>2
      <4>3. p = m - Len(A) /\ q = r - Len(A)
        BY <4>1, <2>1
      <4>4. SubSeq(A \o F, m, r) = SubSeq(F, p, q)
        BY <4>2, <4>3, PartBehind, SMTT(30)
      <4> QED BY <4>1, <4>4, Zenon
    <3>3. l = 0 \/ l > 0
      OBVIOUS
    <3> QED BY <3>1, <3>2, <3>3, Zenon
  <2>4. <<>> \o SubSeq(F, d + 1, d + l) = SubSeq(F, d + 1, d + l)
    BY <1>3, ConcatEmptySeq
  <2> QED BY <2>2, <2>3, <2>4, Zenon
<1>5. CASE o < n
  <2>1. d = 0
    BY <1>5 DEF Beyond
  <2>2. SubSeq(A \o F, o + 1, n) \o SubSeq(A \o F, n + 1, n + l) = SubSeq(A \o F, o + 1, n + l)
    <3>1. PICK w \in Seq(S) : w = A \o F /\ Len(w) = n + k
      BY <1>1
    <3>2. o + 1 \in 1 .. Len(w) + 1 /\ n \in (o + 1) - 1 .. Len(w) /\ n + l \in n .. Len(w)
      BY <1>0, <1>5, <2>1, <3>1
    <3>3. SubSeq(w, o + 1, n) \o SubSeq(w, n + 1, n + l) = SubSeq(w, o + 1, n + l)
      BY <3>2, ConcatAdjacentSubSeq
    <3> QED BY <3>1, <3>3
  <2>3. SubSeq(A \o F, o + 1, n) = SubSeq(A, o + 1, n)
    <3>1. o + 1 \in 1 .. n /\ n \in 1 .. n
      BY <1>5
    <3> QED BY <3>1, SubSeqOfConcat1
  <2>4. SubSeq(A \o F, n + 1, n + l) = SubSeq(F, d + 1, d + l)
    <3>1. CASE l = 0
      <4>1. SubSeq(F, d + 1, d + l) = <<>>
        <5>1. d + l < d + 1 /\ d + l \in Int /\ d + 1 \in Int
          BY <3>1
        <5> QED BY <5>1, SubSeqEmpty
      <4>2. SubSeq(A \o F, n + 1, n + l) = <<>>
        <5>1. n + l < n + 1 /\ n + l \in Int /\ n + 1 \in Int
          BY <3>1
        <5> QED BY <5>1, SubSeqEmpty
      <4> QED BY <4>1, <4>2
    <3>2. CASE l > 0
      <4>1. PICK m, r, p, q : m = n + 1 /\ r = n + l /\ p = d + 1 /\ q = d + l
        OBVIOUS
      <4>2. m \in Len(A) + 1 .. Len(A) + Len(F) /\ r \in Len(A) + 1 .. Len(A) + Len(F)
        BY <4>1, <1>0, <2>1, <3>2
      <4>3. p = m - Len(A) /\ q = r - Len(A)
        BY <4>1, <2>1
      <4>4. SubSeq(A \o F, m, r) = SubSeq(F, p, q)
        BY <4>2, <4>3, PartBehind, SMTT(30)
      <4> QED BY <4>1, <4>4, Zenon
    <3>3. l = 0 \/ l > 0
      OBVIOUS
    <3> QED BY <3>1, <3>2, <3>3, Zenon
  <2>5. PICK t : t = n + l /\ t = n + d + l
    BY <2>1
  <2>6. SubSeq(A, o + 1, n) \o SubSeq(F, d + 1, d + l) = SubSeq(A \o F, o + 1, t)
    BY <2>2, <2>3, <2>4, <2>5, Zenon
  <2> QED BY <2>5, <2>6, Zenon
<1>6. o >= n \/ o < n
  OBVIOUS
<1> QED BY <1>4, <1>5, <1>6, Zenon

\* Further files change nothing of what lies in the first ones.
Unchanged(sizes, k, o, e) ==
  o < e /\ e <= Len(BytesOf(sizes, k))
    => /\ SubSeq(BytesOf(sizes, Len(sizes)), o + 1, e) = SubSeq(BytesOf(sizes, k), o + 1, e)
       /\ e <= Len(BytesOf(sizes, Len(sizes)))

LEMMA BytesOfPrefix ==
  ASSUME NEW sizes \in Seq(Nat), NEW k \in 0 .. Len(sizes), NEW o \in Nat, NEW e \in Nat
  PROVE  Unchanged(sizes, k, o, e)
<1> SUFFICES ASSUME o < e, e <= Len(BytesOf(sizes, k))
             PROVE  /\ SubSeq(BytesOf(sizes, Len(sizes)), o + 1, e) = SubSeq(BytesOf(sizes, k), o + 1, e)
                    /\ e <= Len(BytesOf(sizes, Len(sizes)))
  BY DEF Unchanged
<1>0. PICK l \in Nat : l = Len(sizes)
  OBVIOUS
<1> DEFINE Same(m) == /\ SubSeq(BytesOf(sizes, m), o + 1, e) = SubSeq(BytesOf(sizes, k), o + 1, e)
                      /\ e <= Len(BytesOf(sizes, m))
           P == {j \in Nat : k + j <= l => Same(k + j)}
<1>1. 0 \in P
  BY <1>0
<1>2. ASSUME NEW j \in Nat, j \in P PROVE j + 1 \in P
  <2> SUFFICES ASSUME k + (j + 1) <= l PROVE Same(k + (j + 1))
    OBVIOUS
  <2> DEFINE m == k + j
  <2>1. m \in Nat /\ m < l /\ m \in 0 .. Len(sizes) /\ m + 1 \in 0 .. Len(sizes) /\ k + (j + 1) = m + 1
    BY <1>0
  <2>2. Same(m)
    BY <1>2, <2>1
  <2> HIDE DEF m, P
  <2>3. PICK F \in Seq(CatByte) : F = FileBytes(m + 1, 0, sizes[m + 1])
    <3>1. sizes[m + 1] \in Nat
      <4>1. m + 1 \in 1 .. Len(sizes)
        BY <1>0, <2>1
      <4> QED BY <4>1, ElementOfSeq
    <3>2. m + 1 \in Nat /\ 0 \in Nat
      BY <2>1
    <3> QED BY <3>1, <3>2, FileBytesAre
  <2>4. PICK A \in Seq(CatByte) : A = BytesOf(sizes, m)
    BY <2>1, BytesOfType
  <2>5. BytesOf(sizes, m + 1) = A \o F
    BY <1>0, <2>1, <2>3, <2>4, BytesOfNext
  <2>6. e <= Len(A) /\ Len(A) \in Nat /\ Len(F) \in Nat /\ Len(A \o F) = Len(A) + Len(F)
    BY <2>2, <2>4, ConcatProperties
  <2>7. SubSeq(A \o F, o + 1, e) = SubSeq(A, o + 1, e)
    <3>1. o + 1 \in 1 .. Len(A) /\ e \in 1 .. Len(A)
      BY <2>6
    <3> QED BY <3>1, SubSeqOfConcat1
  <2>8. e <= Len(A \o F)
    BY <2>6
  <2>9. Same(m + 1)
    <3>1. SubSeq(BytesOf(sizes, m + 1), o + 1, e) = SubSeq(BytesOf(sizes, k), o + 1, e)
      BY <2>2, <2>4, <2>5, <2>7, Zenon
    <3> QED BY <2>5, <2>8, <3>1
  <2> HIDE DEF Same
  <2> QED BY <2>1, <2>9
<1>3. Nat \subseteq P
  <2> HIDE DEF P
  <2> QED BY <1>1, <1>2, NatSetInduction
<1>4. l - k \in Nat /\ k + (l - k) = l
  BY <1>0
<1>5. Same(l)
  <2>1. l - k \in P
    BY <1>3, <1>4
  <2>2. Same(k + (l - k))
    BY <1>4, <2>1
  <2> HIDE DEF Same
  <2> QED BY <1>4, <2>2
<1> QED BY <1>0, <1>5

\* The first k files of z were passed for the offset o and the maximum x: d of the
\* offset is left, l bytes are given, by the readers rs.
Passed(z, k) == Len(BytesOf(z, k))
CatReading(z, k, o, x, d, l, rs) ==
  /\ d = Beyond(o, Passed(z, k)) /\ l = Beyond(Passed(z, k), o) /\ (x > 0 => l < x)
  /\ rs \in Seq(CatReader) /\ GivenBy(rs) = SubSeq(BytesOf(z, k), o + 1, Passed(z, k))

\* The maximum was reached.
CatFull(z, o, x, l, rs) ==
  /\ x > 0 /\ l = x /\ o + x <= Passed(z, Len(z))
  /\ rs \in Seq(CatReader) /\ GivenBy(rs) = SubSeq(BytesOf(z, Len(z)), o + 1, o + x)

\* What was given is what was asked for.
CatRight(z, o, x, l, rs) ==
  LET size == Passed(z, Len(z))
      end  == IF x >= 0 /\ o + x < size THEN o + x ELSE size
  IN GivenBy(rs) = SubSeq(BytesOf(z, Len(z)), o + 1, end) /\ l = Len(GivenBy(rs))

\* A file more is that many bytes more.
LEMMA PassedNext ==
  ASSUME NEW z \in Seq(Nat), NEW k \in Nat, k < Len(z)
  PROVE  /\ z[k + 1] \in Nat /\ Passed(z, k) \in Nat /\ Passed(z, k + 1) = Passed(z, k) + z[k + 1]
         /\ BytesOf(z, k) \in Seq(CatByte) /\ FileBytes(k + 1, 0, z[k + 1]) \in Seq(CatByte)
         /\ Len(FileBytes(k + 1, 0, z[k + 1])) = z[k + 1]
         /\ BytesOf(z, k + 1) = BytesOf(z, k) \o FileBytes(k + 1, 0, z[k + 1])
<1>1. k + 1 \in 1 .. Len(z) /\ k \in 0 .. Len(z) /\ k + 1 \in Nat /\ 0 \in Nat
  OBVIOUS
<1>2. z[k + 1] \in Nat
  BY <1>1, ElementOfSeq
<1>3. PICK A \in Seq(CatByte) : A = BytesOf(z, k)
  BY <1>1, BytesOfType
<1>4. PICK F \in Seq(CatByte) : F = FileBytes(k + 1, 0, z[k + 1]) /\ Len(F) = z[k + 1]
  <2>1. PICK f \in Nat, s \in Nat : f = k + 1 /\ s = z[k + 1]
    BY <1>1, <1>2
  <2>2. FileBytes(f, 0, s) \in Seq(CatByte) /\ Len(FileBytes(f, 0, s)) = s
    BY <1>1, FileBytesAre
  <2> QED BY <2>1, <2>2
<1>5. BytesOf(z, k + 1) = A \o F
  BY <1>3, <1>4, BytesOfNext
<1>6. Len(A \o F) = Len(A) + Len(F) /\ Len(A) \in Nat
  BY ConcatProperties
<1> QED BY <1>2, <1>3, <1>4, <1>5, <1>6 DEF Passed

\* A reader of the file at hand, from where the offset ends in it.
PartOf(f, from, c) == [file |-> f, from |-> from, len |-> c]

LEMMA PartOfType ==
  ASSUME NEW f \in Nat, NEW d \in Nat, NEW c \in Nat
  PROVE  PartOf(f, d, c) \in CatReader /\ PartOf(f, d, c).file = f /\ PartOf(f, d, c).from = d /\ PartOf(f, d, c).len = c
BY DEF CatReader, PartOf

LEMMA CatSkips ==
  ASSUME NEW z \in Seq(Nat), NEW k \in Nat, NEW o \in Nat, NEW x \in Int, NEW d \in Nat, NEW l \in Nat,
         NEW rs \in Seq(CatReader), NEW s \in Nat
  PROVE  k < Len(z) /\ s = z[k + 1] /\ CatReading(z, k, o, x, d, l, rs) /\ d > s
           => CatReading(z, k + 1, o, x, d - s, l, rs)
<1>1. SUFFICES ASSUME k < Len(z), s = z[k + 1], CatReading(z, k, o, x, d, l, rs), d > s
               PROVE  CatReading(z, k + 1, o, x, d - s, l, rs)
  OBVIOUS
<1>2. PICK n \in Nat : n = Passed(z, k)
  BY <1>1, PassedNext
<1>3. n + s \in Nat
  OBVIOUS
<1>4. PICK m \in Nat : m = n + s
  BY <1>3
<1>5. Passed(z, k + 1) = m
  BY <1>1, <1>2, <1>4, PassedNext
<1>6. d = Beyond(o, n) /\ l = Beyond(n, o) /\ (x > 0 => l < x)
  BY <1>1, <1>2 DEF CatReading
<1>7. d > s
  BY <1>1
<1>8. d - s = Beyond(o, m) /\ l = Beyond(m, o) /\ n < o + 1 /\ m < o + 1 /\ n \in Int /\ m \in Int /\ o + 1 \in Int
  BY <1>4, <1>6, <1>7 DEF Beyond
<1>9. SubSeq(BytesOf(z, k), o + 1, n) = <<>>
  BY <1>8, SubSeqEmpty, Zenon
<1>10. SubSeq(BytesOf(z, k + 1), o + 1, m) = <<>>
  BY <1>8, SubSeqEmpty, Zenon
<1>11. GivenBy(rs) = SubSeq(BytesOf(z, k), o + 1, n)
  BY <1>1, <1>2, Zenon DEF CatReading
<1> QED BY <1>5, <1>6, <1>8, <1>9, <1>10, <1>11, Zenon DEF CatReading

\* What is given after a reader of c bytes of the file at hand reaches to e.
Takes(z, k, o, x, d, l, rs, s, c, n, e) ==
  /\ k < Len(z) /\ s = z[k + 1] /\ CatReading(z, k, o, x, d, l, rs)
  /\ d + c <= s /\ n = Passed(z, k) /\ e = n + d + c
  => /\ Append(rs, PartOf(k + 1, d, c)) \in Seq(CatReader)
     /\ GivenBy(Append(rs, PartOf(k + 1, d, c))) = SubSeq(BytesOf(z, k + 1), o + 1, e)

LEMMA CatTakes ==
  ASSUME NEW z \in Seq(Nat), NEW k \in Nat, NEW o \in Nat, NEW x \in Int, NEW d \in Nat, NEW l \in Nat,
         NEW rs \in Seq(CatReader), NEW s \in Nat, NEW c \in Nat, NEW n \in Nat, NEW e \in Nat
  PROVE  Takes(z, k, o, x, d, l, rs, s, c, n, e)
<1>1. SUFFICES ASSUME k < Len(z), s = z[k + 1], CatReading(z, k, o, x, d, l, rs),
                      d + c <= s, n = Passed(z, k), e = n + d + c
               PROVE  /\ Append(rs, PartOf(k + 1, d, c)) \in Seq(CatReader)
                      /\ GivenBy(Append(rs, PartOf(k + 1, d, c))) = SubSeq(BytesOf(z, k + 1), o + 1, e)
  BY DEF Takes
<1>2. PICK f \in Nat : f = k + 1
  OBVIOUS
<1>3. PICK r \in CatReader : r = PartOf(f, d, c) /\ r.file = f /\ r.from = d /\ r.len = c
  <2>1. PartOf(f, d, c) \in CatReader /\ PartOf(f, d, c).file = f /\ PartOf(f, d, c).from = d /\ PartOf(f, d, c).len = c
    BY PartOfType
  <2> QED BY <2>1, Zenon
<1>4. d = Beyond(o, n) /\ GivenBy(rs) = SubSeq(BytesOf(z, k), o + 1, n)
  BY <1>1, Zenon DEF CatReading
<1>5. Append(rs, r) \in Seq(CatReader) /\ GivenBy(Append(rs, r)) = GivenBy(rs) \o FileBytes(f, d, c)
  BY <1>3, GivenByNext
<1>6. PICK A \in Seq(CatByte) : A = BytesOf(z, k) /\ Len(A) = n
  BY <1>1, PassedNext DEF Passed
<1>7. PICK F \in Seq(CatByte) : F = FileBytes(f, 0, s) /\ Len(F) = s
  BY <1>1, <1>2, PassedNext
<1>8. d + c <= s
  BY <1>1
<1>9. FileBytes(f, d, c) = SubSeq(F, d + 1, d + c)
  <2>0. IsPart(f, d, c, s)
    BY FilePart
  <2>1. FileBytes(f, d, c) = SubSeq(FileBytes(f, 0, s), d + 1, d + c)
    BY <1>8, <2>0, Zenon DEF IsPart
  <2> QED BY <1>7, <2>1, Zenon
<1>10. SubSeq(A, o + 1, n) \o SubSeq(F, d + 1, d + c) = SubSeq(A \o F, o + 1, n + d + c)
  <2>1. d = Beyond(o, n) /\ n = Len(A) /\ d + c <= Len(F)
    BY <1>4, <1>6, <1>7, <1>8, Zenon
  <2>2. IsCut(A, F, o, n, d, c)
    BY CutMore
  <2> QED BY <2>1, <2>2, Zenon DEF IsCut
<1>11. BytesOf(z, f) = A \o F
  BY <1>1, <1>2, <1>6, <1>7, PassedNext
<1>12. GivenBy(Append(rs, r)) = SubSeq(BytesOf(z, f), o + 1, e)
  BY <1>1, <1>4, <1>5, <1>6, <1>9, <1>10, <1>11, Zenon
<1> QED BY <1>2, <1>3, <1>5, <1>12, Zenon

LEMMA CatTakesAll ==
  ASSUME NEW z \in Seq(Nat), NEW k \in Nat, NEW o \in Nat, NEW x \in Int, NEW d \in Nat, NEW l \in Nat,
         NEW rs \in Seq(CatReader), NEW s \in Nat, NEW c \in Int
  PROVE  k < Len(z) /\ s = z[k + 1] /\ CatReading(z, k, o, x, d, l, rs) /\ d <= s /\ c = s - d /\ ~(x > 0 /\ l + c >= x)
           => CatReading(z, k + 1, o, x, 0, l + c, Append(rs, PartOf(k + 1, d, c)))
<1>1. SUFFICES ASSUME k < Len(z), s = z[k + 1], CatReading(z, k, o, x, d, l, rs), d <= s, c = s - d, ~(x > 0 /\ l + c >= x)
               PROVE  CatReading(z, k + 1, o, x, 0, l + c, Append(rs, PartOf(k + 1, d, c)))
  OBVIOUS
<1>2. PICK n \in Nat : n = Passed(z, k)
  BY <1>1, PassedNext
<1>3. n + s \in Nat
  OBVIOUS
<1>4. PICK m \in Nat : m = n + s
  BY <1>3
<1>5. Passed(z, k + 1) = m
  BY <1>1, <1>2, <1>4, PassedNext
<1>6. d = Beyond(o, n) /\ l = Beyond(n, o)
  BY <1>1, <1>2 DEF CatReading
<1>7. d <= s /\ c = s - d /\ ~(x > 0 /\ l + c >= x)
  BY <1>1
<1>8. c \in Nat /\ d + c <= s /\ m = n + d + c /\ 0 = Beyond(o, m) /\ l + c = Beyond(m, o) /\ (x > 0 => l + c < x)
  BY <1>4, <1>6, <1>7 DEF Beyond
<1>9. /\ Append(rs, PartOf(k + 1, d, c)) \in Seq(CatReader)
      /\ GivenBy(Append(rs, PartOf(k + 1, d, c))) = SubSeq(BytesOf(z, k + 1), o + 1, m)
  <2>1. /\ k < Len(z) /\ s = z[k + 1] /\ CatReading(z, k, o, x, d, l, rs)
        /\ d + c <= s /\ n = Passed(z, k) /\ m = n + d + c
    BY <1>1, <1>2, <1>8, Zenon
  <2>2. Takes(z, k, o, x, d, l, rs, s, c, n, m)
    BY <1>8, CatTakes
  <2> QED BY <2>1, <2>2, Zenon DEF Takes
<1> QED BY <1>5, <1>8, <1>9, Zenon DEF CatReading

LEMMA CatFills ==
  ASSUME NEW z \in Seq(Nat), NEW k \in Nat, NEW o \in Nat, NEW x \in Int, NEW d \in Nat, NEW l \in Nat,
         NEW rs \in Seq(CatReader), NEW s \in Nat, NEW c \in Int
  PROVE  /\ k < Len(z) /\ s = z[k + 1] /\ CatReading(z, k, o, x, d, l, rs) /\ d <= s
         /\ x > 0 /\ l + (s - d) >= x /\ c = (s - d) - ((l + (s - d)) - x)
         => CatFull(z, o, x, x, Append(rs, PartOf(k + 1, d, c)))
<1>1. SUFFICES ASSUME k < Len(z), s = z[k + 1], CatReading(z, k, o, x, d, l, rs), d <= s,
                      x > 0, l + (s - d) >= x, c = (s - d) - ((l + (s - d)) - x)
               PROVE  CatFull(z, o, x, x, Append(rs, PartOf(k + 1, d, c)))
  OBVIOUS
<1>2. PICK n \in Nat : n = Passed(z, k)
  BY <1>1, PassedNext
<1>3. n + s \in Nat
  OBVIOUS
<1>4. PICK m \in Nat : m = n + s
  BY <1>3
<1>5. Passed(z, k + 1) = m
  BY <1>1, <1>2, <1>4, PassedNext
<1>6. d = Beyond(o, n) /\ l = Beyond(n, o) /\ (x > 0 => l < x)
  BY <1>1, <1>2 DEF CatReading
<1>7. d <= s /\ x > 0 /\ l + (s - d) >= x /\ c = (s - d) - ((l + (s - d)) - x)
  BY <1>1
<1>8. PICK e \in Int : e = o + x
  OBVIOUS
<1>9. c \in Nat /\ d + c <= s /\ e = n + d + c /\ o < e /\ e <= m /\ e \in Nat
  BY <1>4, <1>6, <1>7, <1>8 DEF Beyond
<1>10. /\ Append(rs, PartOf(k + 1, d, c)) \in Seq(CatReader)
       /\ GivenBy(Append(rs, PartOf(k + 1, d, c))) = SubSeq(BytesOf(z, k + 1), o + 1, e)
  <2>1. /\ k < Len(z) /\ s = z[k + 1] /\ CatReading(z, k, o, x, d, l, rs)
        /\ d + c <= s /\ n = Passed(z, k) /\ e = n + d + c
    BY <1>1, <1>2, <1>9, Zenon
  <2>2. Takes(z, k, o, x, d, l, rs, s, c, n, e)
    BY <1>9, CatTakes
  <2> QED BY <2>1, <2>2, Zenon DEF Takes
<1>11. SubSeq(BytesOf(z, Len(z)), o + 1, e) = SubSeq(BytesOf(z, k + 1), o + 1, e) /\ e <= Passed(z, Len(z))
  <2>1. PICK f \in 0 .. Len(z) : f = k + 1
    BY <1>1
  <2>2. e <= Len(BytesOf(z, f))
    BY <1>5, <1>9, <2>1, Zenon DEF Passed
  <2>3. Unchanged(z, f, o, e)
    BY <1>9, BytesOfPrefix
  <2>4. SubSeq(BytesOf(z, Len(z)), o + 1, e) = SubSeq(BytesOf(z, f), o + 1, e) /\ e <= Len(BytesOf(z, Len(z)))
    BY <1>9, <2>2, <2>3, Zenon DEF Unchanged
  <2> QED BY <2>1, <2>4, Zenon DEF Passed
<1> QED BY <1>7, <1>8, <1>10, <1>11, Zenon DEF CatFull

LEMMA CatEnds ==
  ASSUME NEW z \in Seq(Nat), NEW o \in Nat, NEW x \in Int, NEW d \in Int, NEW l \in Int, NEW rs \in Seq(CatReader)
  PROVE  x # 0 /\ (CatReading(z, Len(z), o, x, d, l, rs) \/ CatFull(z, o, x, l, rs)) => CatRight(z, o, x, l, rs)
<1>1. PICK A \in Seq(CatByte) : A = BytesOf(z, Len(z))
  <2>1. Len(z) \in 0 .. Len(z)
    OBVIOUS
  <2> QED BY <2>1, BytesOfType
<1>2. PICK n \in Nat : n = Len(A)
  OBVIOUS
<1>3. n = Passed(z, Len(z))
  BY <1>1, <1>2, Zenon DEF Passed
<1>4. PICK e \in Int : e = IF x >= 0 /\ o + x < n THEN o + x ELSE n
  OBVIOUS
<1>5. e <= n
  BY <1>4
<1>6. ASSUME GivenBy(rs) = SubSeq(A, o + 1, e), l = Len(SubSeq(A, o + 1, e))
      PROVE  CatRight(z, o, x, l, rs)
  BY <1>1, <1>3, <1>4, <1>6, Zenon DEF CatRight
<1>7. PICK g \in Int : g = IF o + 1 <= e THEN e - (o + 1) + 1 ELSE 0
  <2>1. e - (o + 1) + 1 \in Int /\ 0 \in Int
    OBVIOUS
  <2> QED BY <2>1, Zenon
<1>8. Len(SubSeq(A, o + 1, e)) = g
  <2>1. PICK b \in Int : b = o + 1
    OBVIOUS
  <2>2. 1 <= b
    BY <2>1
  <2>3. \A i \in b .. e : A[i] \in CatByte
    <3> TAKE i \in b .. e
    <3>1. i \in 1 .. Len(A)
      BY <1>2, <1>5, <2>2
    <3> QED BY <3>1, ElementOfSeq
  <2>4. Len(SubSeq(A, b, e)) = IF b <= e THEN e - b + 1 ELSE 0
    BY <2>3, SubSeqProperties
  <2> QED BY <1>7, <2>1, <2>4, Zenon
<1>9. ASSUME x # 0, CatFull(z, o, x, l, rs) PROVE CatRight(z, o, x, l, rs)
  <2>1. GivenBy(rs) = SubSeq(A, o + 1, o + x)
    BY <1>1, <1>9, Zenon DEF CatFull
  <2>2. x > 0 /\ l = x /\ o + x <= n
    BY <1>3, <1>9, Zenon DEF CatFull
  <2>3. e = o + x /\ l = g
    BY <1>4, <1>7, <2>2
  <2> QED BY <1>6, <1>8, <2>1, <2>3, Zenon
<1>10. ASSUME x # 0, CatReading(z, Len(z), o, x, d, l, rs) PROVE CatRight(z, o, x, l, rs)
  <2>1. GivenBy(rs) = SubSeq(A, o + 1, n)
    BY <1>1, <1>3, <1>10, Zenon DEF CatReading
  <2>2. x # 0 /\ l = Beyond(n, o) /\ (x > 0 => l < x)
    BY <1>3, <1>10, Zenon DEF CatReading
  <2>3. e = n /\ l = g
    BY <1>4, <1>7, <2>2 DEF Beyond
  <2> QED BY <1>6, <1>8, <2>1, <2>3, Zenon
<1> QED BY <1>9, <1>10

-----------------------------------------------------------------------------
CatSet ==
  [sizes : Seq(Nat), offset0 : Int, max : Int, i : Nat, offset : Int, length : Int,
   readers : Seq(CatReader), out : {"refused", "done", "busy"}]

\* Files are passed until the maximum is reached; then there is nothing to read on.
CatBusy(c) ==
  \/ \E k \in 0 .. Len(c.sizes) :
       c.i = k + 1 /\ CatReading(c.sizes, k, c.offset0, c.max, c.offset, c.length, c.readers)
  \/ c.i = Len(c.sizes) + 1 /\ c.offset = 0 /\ CatFull(c.sizes, c.offset0, c.max, c.length, c.readers)

CatSound(c) ==
  /\ c \in CatSet
  /\ c.out # "refused" => c.offset0 \in Nat
  /\ c.out = "busy" => c.max # 0 /\ CatBusy(c)
  /\ c.out = "done" => CatRight(c.sizes, c.offset0, c.max, c.length, c.readers)

CatInv == CatSound(cats)

LEMMA NoReaders == <<>> \in Seq(CatReader) /\ GivenBy(<<>>) = <<>>
<1>1. <<>> \in Seq(CatReader) /\ <<>> \in Seq(Seq(CatByte)) /\ Len(<<>>) = 0
  BY EmptySeq
<1>2. [i \in 1 .. Len(<<>>) |-> FileBytes(<<>>[i].file, <<>>[i].from, <<>>[i].len)] = <<>>
  <2>1. 1 .. Len(<<>>) = {}
    BY <1>1
  <2> QED BY <2>1
<1>3. FlattenSeq(<<>>) = <<>>
  BY <1>1, FlattenAppend
<1> QED BY <1>1, <1>2, <1>3 DEF GivenBy

\* A read begins with nothing passed and nothing given.
LEMMA CatStarts ==
  ASSUME NEW z \in Seq(Nat), NEW o \in Nat, NEW x \in Int
  PROVE  /\ CatReading(z, 0, o, x, o, 0, <<>>)
         /\ CatRight(z, o, 0, 0, <<>>)
<1>1. 0 \in 0 .. Len(z) /\ Len(z) \in 0 .. Len(z)
  OBVIOUS
<1>2. PICK A \in Seq(CatByte) : A = BytesOf(z, Len(z))
  BY <1>1, BytesOfType
<1>3. PICK n \in Nat : n = Len(A)
  OBVIOUS
<1>4. BytesOf(z, 0) = <<>> /\ Passed(z, 0) = 0
  BY <1>1, BytesOfType, EmptySeq DEF Passed
<1>5. PICK b \in Int : b = o + 1
  OBVIOUS
<1>6. CatReading(z, 0, o, x, o, 0, <<>>)
  <2>1. o = Beyond(o, 0) /\ 0 = Beyond(0, o) /\ (x > 0 => 0 < x) /\ 0 < b /\ 0 \in Int
    BY <1>5 DEF Beyond
  <2>2. SubSeq(<<>>, b, 0) = <<>>
    BY <2>1, SubSeqEmpty
  <2> QED BY <1>4, <1>5, <2>1, <2>2, NoReaders, Zenon DEF CatReading
<1>7. CatRight(z, o, 0, 0, <<>>)
  <2>1. PICK e \in Int : e = IF 0 >= 0 /\ o + 0 < n THEN o + 0 ELSE n
    OBVIOUS
  <2>2. e < b
    BY <1>5, <2>1
  <2>3. SubSeq(A, b, e) = <<>>
    BY <2>2, SubSeqEmpty
  <2>4. 0 = Len(<<>>)
    BY EmptySeq
  <2>5. Passed(z, Len(z)) = n
    BY <1>2, <1>3, Zenon DEF Passed
  <2>6. e = IF 0 >= 0 /\ o + 0 < Passed(z, Len(z)) THEN o + 0 ELSE Passed(z, Len(z))
    BY <2>1, <2>5, Zenon
  <2>7. GivenBy(<<>>) = SubSeq(BytesOf(z, Len(z)), o + 1, e) /\ 0 = Len(GivenBy(<<>>))
    BY <1>2, <1>5, <2>3, <2>4, NoReaders, Zenon
  <2> QED BY <2>6, <2>7, Zenon DEF CatRight
<1> QED BY <1>6, <1>7

LEMMA CatInitially ==
  ASSUME CatInit
  PROVE  CatInv
<1>1. PICK z \in CatSizes, o \in CatOffsets, m \in CatMaxes, given \in BOOLEAN :
        cats = [sizes |-> z, offset0 |-> o, max |-> IF given THEN m ELSE -1,
                i |-> 1, offset |-> o, length |-> 0, readers |-> <<>>,
                out |-> IF o < 0 \/ (given /\ m < 0) THEN "refused"
                        ELSE IF given /\ m = 0 THEN "done" ELSE "busy"]
  BY DEF CatInit
<1>2. z \in Seq(Nat) /\ o \in Int /\ m \in Int
  BY ApiFileConstants
<1>3. PICK x \in Int : x = IF given THEN m ELSE -1
  BY <1>2
<1>4. PICK out \in {"refused", "done", "busy"} :
        out = IF o < 0 \/ (given /\ m < 0) THEN "refused" ELSE IF given /\ m = 0 THEN "done" ELSE "busy"
  OBVIOUS
<1>5. /\ out # "refused" => o \in Nat
      /\ out = "busy" => x # 0
      /\ out = "done" => x = 0
  BY <1>2, <1>3, <1>4
<1>6. PICK c \in CatSet : /\ c = cats /\ c.sizes = z /\ c.offset0 = o /\ c.max = x /\ c.i = 1 /\ c.offset = o
                          /\ c.length = 0 /\ c.readers = <<>> /\ c.out = out
  <2>1. cats = [sizes |-> z, offset0 |-> o, max |-> x, i |-> 1, offset |-> o, length |-> 0, readers |-> <<>>, out |-> out]
    BY <1>1, <1>3, <1>4, Zenon
  <2>2. 1 \in Nat /\ 0 \in Int
    OBVIOUS
  <2>3. [sizes |-> z, offset0 |-> o, max |-> x, i |-> 1, offset |-> o, length |-> 0, readers |-> <<>>, out |-> out] \in CatSet
    BY <1>2, <2>2, NoReaders DEF CatSet
  <2>4. /\ cats.sizes = z /\ cats.offset0 = o /\ cats.max = x /\ cats.i = 1 /\ cats.offset = o
        /\ cats.length = 0 /\ cats.readers = <<>> /\ cats.out = out
    BY <2>1, Zenon
  <2> QED BY <2>1, <2>3, <2>4, Zenon
<1>7. c.out = "busy" => CatBusy(c)
  <2> SUFFICES ASSUME c.out = "busy" PROVE CatBusy(c)
    OBVIOUS
  <2>1. CatReading(z, 0, o, x, o, 0, <<>>)
    BY <1>2, <1>5, <1>6, CatStarts
  <2>2. 0 \in 0 .. Len(z) /\ 1 = 0 + 1
    BY <1>2
  <2> QED BY <1>6, <2>1, <2>2, Zenon DEF CatBusy
<1>8. c.out = "done" => CatRight(z, o, x, 0, <<>>)
  BY <1>2, <1>5, <1>6, CatStarts
<1>9. /\ c.out # "refused" => c.offset0 \in Nat
      /\ c.out = "busy" => c.max # 0
      /\ c.out = "done" => CatRight(c.sizes, c.offset0, c.max, c.length, c.readers)
  BY <1>5, <1>6, <1>8
<1> QED BY <1>6, <1>7, <1>9, Zenon DEF CatInv, CatSound

\* A command after the next file, field by field.
CatChanged(c, i, d, l, rs) == [c EXCEPT !.i = i, !.offset = d, !.length = l, !.readers = rs]
CatPassed(c, i, d) == [c EXCEPT !.i = i, !.offset = d]

CatFields(c1, c, i, d, l, rs) ==
  /\ c1 \in CatSet /\ c1.sizes = c.sizes /\ c1.offset0 = c.offset0 /\ c1.max = c.max /\ c1.out = c.out
  /\ c1.i = i /\ c1.offset = d /\ c1.length = l /\ c1.readers = rs

LEMMA CatRecord ==
  ASSUME NEW c \in CatSet, NEW i \in Nat, NEW d \in Int, NEW l \in Int, NEW rs \in Seq(CatReader)
  PROVE  /\ CatFields(CatChanged(c, i, d, l, rs), c, i, d, l, rs)
         /\ CatFields(CatPassed(c, i, d), c, i, d, c.length, c.readers)
<1>1. CatFields(CatChanged(c, i, d, l, rs), c, i, d, l, rs)
  BY DEF CatSet, CatFields, CatChanged
<1>2. CatFields(CatPassed(c, i, d), c, i, d, c.length, c.readers)
  BY DEF CatSet, CatFields, CatPassed
<1> QED BY <1>1, <1>2

\* What passing a file does to a record of the command.
CatAfter(c, c1) ==
  /\ c1 \in CatSet /\ c1.sizes = c.sizes /\ c1.offset0 = c.offset0 /\ c1.max = c.max /\ c1.out = c.out /\ CatBusy(c1)

LEMMA CatFileStep ==
  ASSUME CatInv, cats.out = "busy", cats.i <= Len(cats.sizes)
  PROVE  CatAfter(cats, CatFile)
<1>1. PICK c \in CatSet : c = cats
  BY DEF CatInv, CatSound
<1>2. c.offset0 \in Nat /\ CatBusy(c) /\ c.i <= Len(c.sizes) /\ c.max # 0
  BY <1>1 DEF CatInv, CatSound
<1>3. PICK z \in Seq(Nat), x \in Int, rs \in Seq(CatReader) : z = c.sizes /\ x = c.max /\ rs = c.readers
  BY DEF CatSet
<1>4. PICK o \in Nat : o = c.offset0
  BY <1>2
<1>5. c.i \in Nat /\ c.offset \in Int /\ c.length \in Int
  BY DEF CatSet
<1>6. PICK k \in Nat : k < Len(z) /\ c.i = k + 1 /\ CatReading(z, k, o, x, c.offset, c.length, rs)
  <2>1. c.i # Len(z) + 1
    BY <1>2, <1>3, <1>5
  <2>2. PICK k \in 0 .. Len(z) : c.i = k + 1 /\ CatReading(z, k, o, x, c.offset, c.length, rs)
    BY <1>2, <1>3, <1>4, <2>1, Zenon DEF CatBusy
  <2>3. k \in Nat /\ k < Len(z)
    BY <2>1, <2>2
  <2> QED BY <2>2, <2>3
<1>7. PICK d \in Nat, l \in Nat : d = c.offset /\ l = c.length
  <2>1. PICK n \in Nat : n = Passed(z, k)
    BY <1>6, PassedNext
  <2>2. c.offset = Beyond(o, n) /\ c.length = Beyond(n, o)
    BY <1>6, <2>1, Zenon DEF CatReading
  <2>3. Beyond(o, n) \in Nat /\ Beyond(n, o) \in Nat
    BY DEF Beyond
  <2> QED BY <2>2, <2>3
<1>8. PICK s \in Nat : s = z[k + 1]
  BY <1>6, PassedNext
<1>9. CatReading(z, k, o, x, d, l, rs)
  BY <1>6, <1>7
<1>10. PICK k1 \in 0 .. Len(z) : k1 = k + 1
  BY <1>6
<1>11. /\ c.sizes[c.i] = s /\ c.i = k1 /\ c.i + 1 = k1 + 1
  BY <1>3, <1>6, <1>8, <1>10
<1>12. CASE d > s
  <2>1. PICK d1 \in Int : d1 = d - s
    OBVIOUS
  <2>2. PICK i1 \in Nat : i1 = k1 + 1
    BY <1>10
  <2>3. CatFile = CatPassed(c, i1, d1)
    BY <1>1, <1>7, <1>11, <1>12, <2>1, <2>2 DEF CatFile, CatPassed
  <2>4. CatReading(z, k1, o, x, d1, l, rs)
    BY <1>6, <1>8, <1>9, <1>10, <1>12, <2>1, CatSkips
  <2>5. /\ CatFile \in CatSet /\ CatFile.sizes = c.sizes /\ CatFile.offset0 = c.offset0 /\ CatFile.max = c.max
        /\ CatFile.out = c.out /\ CatFile.i = i1 /\ CatFile.offset = d1 /\ CatFile.length = c.length /\ CatFile.readers = c.readers
    <3>1. CatFields(CatPassed(c, i1, d1), c, i1, d1, c.length, c.readers)
      BY <1>3, <1>5, CatRecord
    <3> QED BY <2>3, <3>1, Zenon DEF CatFields
  <2>6. CatBusy(CatFile)
    BY <1>3, <1>4, <1>7, <1>10, <2>2, <2>4, <2>5, Zenon DEF CatBusy
  <2> QED BY <1>1, <2>5, <2>6, Zenon DEF CatAfter
<1>13. CASE ~(d > s) /\ x > 0 /\ l + (s - d) >= x
  <2>1. PICK p \in Int : p = (s - d) - ((l + (s - d)) - x)
    OBVIOUS
  <2>2. PICK r \in Seq(CatReader) : r = Append(rs, PartOf(k1, d, p)) /\ CatFull(z, o, x, x, r)
    <3>1. d <= s /\ x > 0 /\ l + (s - d) >= x
      BY <1>13
    <3>2. CatFull(z, o, x, x, Append(rs, PartOf(k + 1, d, p)))
      BY <1>6, <1>8, <1>9, <2>1, <3>1, CatFills
    <3> QED BY <1>10, <3>2, Zenon DEF CatFull
  <2>3. PICK i1 \in Nat : i1 = Len(z) + 1
    OBVIOUS
  <2>4. CatFile = CatChanged(c, i1, 0, x, r)
    <3>1. CatPart(d, p) = PartOf(k1, d, p)
      BY <1>1, <1>11 DEF CatPart, PartOf
    <3>2. (s - d) - Overshoot(s - d, l + (s - d)) = p
      BY <1>1, <1>3, <2>1 DEF Overshoot
    <3> QED BY <1>1, <1>3, <1>7, <1>11, <1>13, <2>2, <2>3, <3>1, <3>2, Zenon DEF CatFile, CatChanged
  <2>5. /\ CatFile \in CatSet /\ CatFile.sizes = c.sizes /\ CatFile.offset0 = c.offset0 /\ CatFile.max = c.max
        /\ CatFile.out = c.out /\ CatFile.i = i1 /\ CatFile.offset = 0 /\ CatFile.length = x /\ CatFile.readers = r
    <3>1. 0 \in Int
      OBVIOUS
    <3>2. CatFields(CatChanged(c, i1, 0, x, r), c, i1, 0, x, r)
      BY <3>1, CatRecord
    <3> QED BY <2>4, <3>2, Zenon DEF CatFields
  <2>6. CatBusy(CatFile)
    BY <1>3, <1>4, <2>2, <2>3, <2>5, Zenon DEF CatBusy
  <2> QED BY <1>1, <2>5, <2>6, Zenon DEF CatAfter
<1>14. CASE ~(d > s) /\ ~(x > 0 /\ l + (s - d) >= x)
  <2>1. PICK p \in Int : p = s - d
    OBVIOUS
  <2>2. PICK l1 \in Int : l1 = l + p
    OBVIOUS
  <2>3. PICK r \in Seq(CatReader) : r = Append(rs, PartOf(k1, d, p)) /\ CatReading(z, k1, o, x, 0, l1, r)
    <3>1. d <= s /\ ~(x > 0 /\ l + p >= x)
      BY <1>14, <2>1
    <3>2. CatReading(z, k + 1, o, x, 0, l + p, Append(rs, PartOf(k + 1, d, p)))
      BY <1>6, <1>8, <1>9, <2>1, <3>1, CatTakesAll
    <3> QED BY <1>10, <2>2, <3>2, Zenon DEF CatReading
  <2>4. PICK i1 \in Nat : i1 = k1 + 1
    BY <1>10
  <2>5. CatFile = CatChanged(c, i1, 0, l1, r)
    <3>1. CatPart(d, p) = PartOf(k1, d, p)
      BY <1>1, <1>11 DEF CatPart, PartOf
    <3> QED BY <1>1, <1>3, <1>7, <1>11, <1>14, <2>1, <2>2, <2>3, <2>4, <3>1, Zenon DEF CatFile, CatChanged
  <2>6. /\ CatFile \in CatSet /\ CatFile.sizes = c.sizes /\ CatFile.offset0 = c.offset0 /\ CatFile.max = c.max
        /\ CatFile.out = c.out /\ CatFile.i = i1 /\ CatFile.offset = 0 /\ CatFile.length = l1 /\ CatFile.readers = r
    <3>1. 0 \in Int
      OBVIOUS
    <3>2. CatFields(CatChanged(c, i1, 0, l1, r), c, i1, 0, l1, r)
      BY <3>1, CatRecord
    <3> QED BY <2>5, <3>2, Zenon DEF CatFields
  <2>7. CatBusy(CatFile)
    BY <1>3, <1>4, <1>10, <2>3, <2>4, <2>6, Zenon DEF CatBusy
  <2> QED BY <1>1, <2>6, <2>7, Zenon DEF CatAfter
<1> QED BY <1>12, <1>13, <1>14

LEMMA CatStep ==
  ASSUME CatInv, CatNext
  PROVE  CatInv'
<1>1. cats.out = "busy" /\ cats \in CatSet /\ cats.offset0 \in Nat /\ cats.max # 0 /\ CatBusy(cats)
  BY DEF CatInv, CatSound, CatNext
<1>2. CASE cats.i > Len(cats.sizes)
  <2>1. cats' = [cats EXCEPT !.out = "done"]
    BY <1>2 DEF CatNext
  <2>2. PICK z \in Seq(Nat), o \in Nat, x \in Int, d \in Int, l \in Int, rs \in Seq(CatReader) :
          /\ z = cats.sizes /\ o = cats.offset0 /\ x = cats.max /\ d = cats.offset /\ l = cats.length /\ rs = cats.readers
    BY <1>1 DEF CatSet
  <2>3. CatReading(z, Len(z), o, x, d, l, rs) \/ CatFull(z, o, x, l, rs)
    <3>1. cats.i \in Nat
      BY <1>1 DEF CatSet
    <3>2. CASE CatFull(z, o, x, l, rs)
      BY <3>2
    <3>3. CASE \E k \in 0 .. Len(z) : cats.i = k + 1 /\ CatReading(z, k, o, x, d, l, rs)
      <4>1. PICK k \in 0 .. Len(z) : cats.i = k + 1 /\ CatReading(z, k, o, x, d, l, rs)
        BY <3>3
      <4>2. k = Len(z)
        BY <1>2, <2>2, <4>1
      <4> QED BY <4>1, <4>2
    <3> QED BY <1>1, <2>2, <3>2, <3>3, Zenon DEF CatBusy
  <2>4. CatRight(z, o, x, l, rs)
    BY <1>1, <2>2, <2>3, CatEnds
  <2>5. /\ cats' \in CatSet /\ cats'.out = "done" /\ cats'.sizes = z /\ cats'.offset0 = o /\ cats'.max = x
        /\ cats'.length = l /\ cats'.readers = rs
    BY <1>1, <2>1, <2>2 DEF CatSet
  <2> QED BY <2>4, <2>5 DEF CatInv, CatSound
<1>3. CASE ~(cats.i > Len(cats.sizes))
  <2>1. cats' = CatFile
    BY <1>3 DEF CatNext
  <2>2. cats.i <= Len(cats.sizes)
    <3>1. cats.i \in Nat /\ cats.sizes \in Seq(Nat)
      BY <1>1 DEF CatSet
    <3> QED BY <1>3, <3>1
  <2>3. CatAfter(cats, CatFile)
    BY <1>1, <2>2, CatFileStep
  <2>4. /\ cats' \in CatSet /\ cats'.offset0 = cats.offset0 /\ cats'.max = cats.max /\ cats'.out = "busy" /\ CatBusy(cats')
    BY <1>1, <2>1, <2>3, Zenon DEF CatAfter
  <2> QED BY <1>1, <2>4 DEF CatInv, CatSound
<1> QED BY <1>2, <1>3

\* Where file boundaries, the offset and the maximum of a `cat` may fall, what was
\* given of the files passed is what lies behind the offset (cat.go:123).
THEOREM CatInvariant == CatSpec => []CatInv
<1>1. CatInit => CatInv
  BY CatInitially
<1>2. CatInv /\ [CatNext]_cats => CatInv'
  <2> SUFFICES ASSUME CatInv, [CatNext]_cats PROVE CatInv'
    OBVIOUS
  <2>1. CASE CatNext
    BY <2>1, CatStep
  <2>2. CASE UNCHANGED cats
    BY <2>2 DEF CatInv
  <2> QED BY <2>1, <2>2
<1> QED BY <1>1, <1>2, PTL DEF CatSpec

LEMMA CatIsExact == CatInv => CatExact
<1> SUFFICES ASSUME CatInv, cats.out = "done"
             PROVE  CatGiven = SubSeq(CatBytes, cats.offset0 + 1, CatEnd) /\ cats.length = Len(CatGiven)
  BY DEF CatExact
<1>1. CatRight(cats.sizes, cats.offset0, cats.max, cats.length, cats.readers)
  BY DEF CatInv, CatSound
<1>2. CatBytes = BytesOf(cats.sizes, Len(cats.sizes)) /\ CatGiven = GivenBy(cats.readers)
  BY DEF CatBytes, CatGiven, BytesOf, GivenBy
<1>3. Passed(cats.sizes, Len(cats.sizes)) = Len(CatBytes)
  BY <1>2, Zenon DEF Passed
<1> QED BY <1>1, <1>2, <1>3, Zenon DEF CatRight, CatEnd

LEMMA FilesAreExact ==
  ASSUME AfInv
  PROVE  StreamAtPosition /\ SizeMatchesContent /\ EofMeansEnd /\ ReadAtExact
<1>1. StreamAtPosition /\ SizeMatchesContent
  BY DEF AfInv, StreamSound, StreamAtPosition, SizeMatchesContent
<1>2. EofMeansEnd /\ ReadAtExact
  BY DEF AfInv, EofMeansEnd, ReadAtExact
<1> QED BY <1>1, <1>2

LEMMA ListingsAreWhole == DirListInv => ListingGiven
BY DEF DirListInv, DirSet, ListingGiven

\* Whatever the boundaries of files, offsets and maxima, seeks, moved names and cut
\* streams: a reader is given the content that was asked for (cat.go:123,
\* client/rpc/apifile.go:101, 118, 205).
THEOREM ReadersGetWhatTheyAskedFor == CatSpec /\ AfSpec /\ DirSpec => []ReadsExact
<1>1. CatInv /\ AfInv /\ DirListInv => ReadsExact
  BY CatIsExact, FilesAreExact, ListingsAreWhole DEF ReadsExact
<1> QED BY <1>1, CatInvariant, FileInvariant, DirInvariant, PTL

-----------------------------------------------------------------------------
(***************************************************************************)
(* Config profiles.                                                        *)
(*                                                                         *)
(* A config is merged into the file's map, and `profile apply` works on a  *)
(* clone of the daemon's config or on the file it has just read, so the    *)
(* config a profile is applied to agrees with the file only in what JSON   *)
(* writes.  The invariant says so, and that each edit of the history is    *)
(* what its profile makes of the file before it; that is enough, for a     *)
(* setting a profile leaves alone stays as it is in the file.  What server *)
(* adds and local-discovery takes away again are lists: the same entries   *)
(* are left, so the same orders of them may be written.                    *)
(***************************************************************************)
LEMMA ElementsOf ==
  ASSUME NEW S, NEW s \in Seq(S)
  PROVE  /\ Elements(s) \in SUBSET S /\ IsFiniteSet(Elements(s)) /\ Elements(<<>>) = {}
         /\ \A e : Elements(Append(s, e)) = Elements(s) \union {e}
         /\ \A t \in Seq(S) : Elements(s \o t) = Elements(s) \union Elements(t)
<1>1. PICK n \in Nat : n = Len(s)
  OBVIOUS
<1>2. Elements(s) \in SUBSET S /\ Elements(<<>>) = {}
  BY EmptySeq DEF Elements
<1>3. IsFiniteSet(Elements(s))
  <2> DEFINE f == [i \in 1 .. n |-> s[i]]
  <2>1. f \in Surjection(1 .. n, Elements(s))
    BY <1>1 DEF Elements, Surjection
  <2> HIDE DEF f
  <2>2. IsFiniteSet(1 .. n)
    BY FS_Interval
  <2> QED BY <2>1, <2>2, FS_Surjection
<1>4. ASSUME NEW e PROVE Elements(Append(s, e)) = Elements(s) \union {e}
  <2>1. Len(Append(s, e)) = n + 1 /\ Append(s, e)[n + 1] = e /\ \A i \in 1 .. n : Append(s, e)[i] = s[i]
    BY <1>1
  <2> QED BY <1>1, <2>1 DEF Elements
<1>5. ASSUME NEW t \in Seq(S) PROVE Elements(s \o t) = Elements(s) \union Elements(t)
  <2>1. PICK m \in Nat : m = Len(t)
    OBVIOUS
  <2>2. PICK w \in Seq(S) : w = s \o t /\ Len(w) = n + m
    BY <1>1, <2>1, ConcatProperties
  <2>3. (\A i \in 1 .. n : w[i] = s[i]) /\ (\A i \in 1 .. m : w[n + i] = t[i])
    BY <1>1, <2>1, <2>2
  <2>4. \A i \in 1 .. n + m : i \in 1 .. n \/ \E j \in 1 .. m : i = n + j
    <3> TAKE i \in 1 .. n + m
    <3>1. CASE i > n
      <4>1. i - n \in 1 .. m /\ i = n + (i - n)
        BY <3>1
      <4> QED BY <4>1
    <3> QED BY <3>1
  <2>5. Elements(w) = Elements(s) \union Elements(t)
    <3>1. Elements(s) = {s[i] : i \in 1 .. n} /\ Elements(t) = {t[i] : i \in 1 .. m} /\ Elements(w) = {w[i] : i \in 1 .. n + m}
      BY <1>1, <2>1, <2>2 DEF Elements
    <3>2. \A i \in 1 .. n : i \in 1 .. n + m
      BY <2>1
    <3>3. \A i \in 1 .. m : n + i \in 1 .. n + m
      BY <2>1
    <3>4. \A i \in 1 .. n + m : w[i] \in Elements(s) \union Elements(t)
      <4> TAKE i \in 1 .. n + m
      <4>1. CASE i \in 1 .. n
        BY <2>3, <3>1, <4>1
      <4>2. CASE \E j \in 1 .. m : i = n + j
        BY <2>3, <3>1, <4>2
      <4> QED BY <2>4, <4>1, <4>2
    <3>5. \A i \in 1 .. n : s[i] \in Elements(w)
      BY <2>3, <3>1, <3>2
    <3>6. \A i \in 1 .. m : t[i] \in Elements(w)
      <4> TAKE i \in 1 .. m
      <4>1. w[n + i] \in Elements(w)
        BY <3>1, <3>3
      <4> QED BY <2>3, <4>1
    <3> QED BY <3>1, <3>4, <3>5, <3>6
  <2> QED BY <2>2, <2>5
<1> QED BY <1>2, <1>3, <1>4, <1>5

\* appendSingle keeps every entry of both lists and adds no other.
LEMMA AppendSingleHas ==
  ASSUME NEW S, NEW a \in Seq(S), NEW b \in Seq(S)
  PROVE  AppendSingle(a, b) \in Seq(S) /\ Elements(AppendSingle(a, b)) = Elements(a) \union Elements(b)
<1>1. PICK all \in Seq(S) : all = a \o b
  BY ConcatProperties
<1>2. PICK n \in Nat : n = Len(all)
  OBVIOUS
<1> DEFINE body(h) == [i \in 0 .. Len(all) |->
                         IF i = 0 THEN <<>>
                         ELSE IF all[i] \in Elements(h[i - 1]) THEN h[i - 1] ELSE Append(h[i - 1], all[i])]
           once == CHOOSE h : h = body(h)
           more == [j \in Nat |-> [s \in Seq(S) |->
                      IF j < n THEN IF all[j + 1] \in Elements(s) THEN s ELSE Append(s, all[j + 1]) ELSE s]]
<1>3. more \in Steps(Seq(S))
  <2>1. ASSUME NEW j \in Nat, NEW s \in Seq(S)
        PROVE  (IF j < n THEN IF all[j + 1] \in Elements(s) THEN s ELSE Append(s, all[j + 1]) ELSE s) \in Seq(S)
    <3>1. CASE j < n
      <4>1. all[j + 1] \in S
        <5>1. j + 1 \in 1 .. Len(all)
          BY <1>2, <3>1
        <5> QED BY <5>1, ElementOfSeq
      <4> QED BY <3>1, <4>1
    <3> QED BY <3>1
  <2> QED BY <2>1 DEF Steps
<1>4. \E h : h = body(h)
  <2> HIDE DEF more
  <2>0. <<>> \in Seq(S)
    OBVIOUS
  <2>1. PICK h \in [0 .. n -> Seq(S)] : \A i \in 0 .. n : h[i] = IF i = 0 THEN <<>> ELSE more[i - 1][h[i - 1]]
    <3>1. RecursiveUpto(Seq(S), <<>>, more, n)
      BY <1>3, <2>0, BoundedRecursion
    <3> QED BY <3>1, Zenon DEF RecursiveUpto
  <2>2. \A i \in 0 .. n : h[i] = body(h)[i]
    <3> TAKE i \in 0 .. n
    <3>1. CASE i = 0
      BY <1>2, <2>1, <3>1
    <3>2. CASE i # 0
      <4>1. i - 1 \in Nat /\ i - 1 < n /\ (i - 1) + 1 = i /\ i - 1 \in 0 .. n
        BY <3>2
      <4>2. h[i - 1] \in Seq(S)
        BY <2>1, <4>1
      <4>3. more[i - 1][h[i - 1]] = IF all[i] \in Elements(h[i - 1]) THEN h[i - 1] ELSE Append(h[i - 1], all[i])
        BY <4>1, <4>2 DEF more
      <4> QED BY <1>2, <2>1, <3>2, <4>3
    <3> QED BY <3>1, <3>2
  <2>3. h = body(h)
    BY <1>2, <2>1, <2>2
  <2> QED BY <2>3
<1>5. once = body(once)
  <2> HIDE DEF body
  <2> QED BY <1>4, Zenon
<1>6. AppendSingle(a, b) = once[n]
  BY <1>1, <1>2 DEF AppendSingle
<1> HIDE DEF once
<1> DEFINE P == {i \in Nat : i <= n => once[i] \in Seq(S) /\ Elements(once[i]) = {all[j] : j \in 1 .. i}}
<1>7. 0 \in P
  <2>1. 0 \in 0 .. Len(all) /\ 1 .. 0 = {}
    BY <1>2
  <2>2. once[0] = <<>>
    BY <1>5, <2>1
  <2>3. {all[j] : j \in 1 .. 0} = {} /\ Elements(<<>>) = {} /\ <<>> \in Seq(S)
    BY <2>1, ElementsOf
  <2> QED BY <2>2, <2>3
<1>8. ASSUME NEW i \in Nat, i \in P PROVE i + 1 \in P
  <2> SUFFICES ASSUME i + 1 <= n
        PROVE  once[i + 1] \in Seq(S) /\ Elements(once[i + 1]) = {all[j] : j \in 1 .. i + 1}
    <3>1. i + 1 \in Nat
      OBVIOUS
    <3> QED BY <3>1, Zenon
  <2>1. PICK s \in Seq(S) : s = once[i] /\ Elements(s) = {all[j] : j \in 1 .. i}
    BY <1>8
  <2>2. i + 1 \in 0 .. Len(all) /\ i + 1 # 0 /\ (i + 1) - 1 = i /\ i + 1 \in 1 .. Len(all)
    BY <1>2
  <2>3. all[i + 1] \in S
    BY <2>2, ElementOfSeq
  <2>4. once[i + 1] = IF all[i + 1] \in Elements(s) THEN s ELSE Append(s, all[i + 1])
    BY <1>5, <2>1, <2>2
  <2>5. {all[j] : j \in 1 .. i + 1} = Elements(s) \union {all[i + 1]}
    <3>1. \A j : j \in 1 .. i + 1 <=> j \in 1 .. i \/ j = i + 1
      OBVIOUS
    <3> QED BY <2>1, <3>1, Zenon
  <2>6. Elements(Append(s, all[i + 1])) = Elements(s) \union {all[i + 1]} /\ Append(s, all[i + 1]) \in Seq(S)
    BY <2>3, ElementsOf
  <2>7. CASE all[i + 1] \in Elements(s)
    <3>1. once[i + 1] = s
      BY <2>4, <2>7
    <3>2. Elements(s) \union {all[i + 1]} = Elements(s)
      BY <2>7
    <3> QED BY <2>5, <3>1, <3>2
  <2>8. CASE all[i + 1] \notin Elements(s)
    <3>1. once[i + 1] = Append(s, all[i + 1])
      BY <2>4, <2>8
    <3> QED BY <2>5, <2>6, <3>1
  <2> QED BY <2>7, <2>8
<1>9. once[n] \in Seq(S) /\ Elements(once[n]) = {all[j] : j \in 1 .. n}
  <2>1. Nat \subseteq P
    <3> HIDE DEF P
    <3> QED BY <1>7, <1>8, NatSetInduction
  <2> QED BY <2>1
<1>10. Elements(all) = Elements(a) \union Elements(b)
  BY <1>1, ElementsOf
<1> QED BY <1>2, <1>6, <1>9, <1>10 DEF Elements

\* deleteEntries gives an order of what is left: it is the same for lists of which the
\* same is left.
LEMMA DeleteEntriesHas ==
  ASSUME NEW S, NEW a \in Seq(S), NEW b
  PROVE  /\ \A s \in DeleteEntries(a, b) : s \in Seq(S)
         /\ \A a1 : Elements(a1) \ Elements(b) = Elements(a) \ Elements(b) => DeleteEntries(a1, b) = DeleteEntries(a, b)
<1> DEFINE left == Elements(a) \ Elements(b)
<1>1. IsFiniteSet(left) /\ left \in SUBSET S
  BY ElementsOf, FS_Difference
<1>2. PICK n \in Nat : n = Cardinality(left)
  BY <1>1, FS_CardinalityType
<1>3. ASSUME NEW s \in DeleteEntries(a, b) PROVE s \in Seq(S)
  <2> HIDE DEF left
  <2>1. DeleteEntries(a, b) = {q \in [1 .. n -> left] : Elements(q) = left}
    BY <1>2 DEF DeleteEntries, left
  <2>2. s \in [1 .. n -> left]
    BY <1>3, <2>1
  <2> QED BY <1>1, <2>2
<1>4. ASSUME NEW a1, Elements(a1) \ Elements(b) = Elements(a) \ Elements(b) PROVE DeleteEntries(a1, b) = DeleteEntries(a, b)
  BY <1>4, Zenon DEF DeleteEntries
<1> QED BY <1>3, <1>4

\* A config of the settings the profiles are about; "mine" is the user's own filter.
Filters == STRING \union {"mine"}
Config ==
  [api : {"default", "test"}, swarm : {"default", "test", "random"},
   noAnnounce : Seq(Filters), filters : Seq(Filters), bootstrap : Seq(STRING),
   mdns : BOOLEAN, natPortMap : BOOLEAN, spec : Datastores,
   loopback : {"unset", "true"}, autoTLS : {"unset", "false"}, power : {"unset", "low"},
   provider : {"unset", "true", "false"}, reprovide : {"unset", "0", "22h"}, import : Imports \union {"unset"}]

\* The settings of server and local-discovery.
LanSettings == {"noAnnounce", "filters", "mdns", "natPortMap"}
Lan(c, a, f, on) == [c EXCEPT !.noAnnounce = a, !.filters = f, !.mdns = on, !.natPortMap = on]

IsLocalDiscovery(c, x) ==
  x \in LocalDiscovery(c) <=>
    \E a \in DeleteEntries(c.noAnnounce, ServerFilters), f \in DeleteEntries(c.filters, ServerFilters) :
      x = Lan(c, a, f, TRUE)

LEMMA LocalDiscoveryIs ==
  ASSUME NEW c, NEW x PROVE IsLocalDiscovery(c, x)
<1> DEFINE A == DeleteEntries(c.noAnnounce, ServerFilters)
           F == DeleteEntries(c.filters, ServerFilters)
<1>1. LocalDiscovery(c) = {Lan(c, l[1], l[2], TRUE) : l \in A \X F}
  BY SMT DEF LocalDiscovery, Lan
<1> HIDE DEF A, F
<1>2. ASSUME x \in {Lan(c, l[1], l[2], TRUE) : l \in A \X F}
      PROVE  \E a \in A, f \in F : x = Lan(c, a, f, TRUE)
  <2>1. PICK l \in A \X F : x = Lan(c, l[1], l[2], TRUE)
    BY <1>2, Zenon
  <2>2. l[1] \in A /\ l[2] \in F
    OBVIOUS
  <2> QED BY <2>1, <2>2, Zenon
<1>3. ASSUME NEW a \in A, NEW f \in F, x = Lan(c, a, f, TRUE)
      PROVE  x \in {Lan(c, l[1], l[2], TRUE) : l \in A \X F}
  <2>1. PICK l \in A \X F : l[1] = a /\ l[2] = f
    <3>1. <<a, f>> \in A \X F /\ <<a, f>>[1] = a /\ <<a, f>>[2] = f
      OBVIOUS
    <3> QED BY <3>1, Zenon
  <2>2. x = Lan(c, l[1], l[2], TRUE)
    BY <1>3, <2>1, Zenon
  <2> QED BY <2>2, Zenon
<1>4. x \in LocalDiscovery(c) <=> \E a \in A, f \in F : x = Lan(c, a, f, TRUE)
  BY <1>1, <1>2, <1>3, Zenon
<1> QED BY <1>4, Zenon DEF IsLocalDiscovery, A, F

LEMMA ServerFiltersType == ServerFilters \in Seq(Filters) /\ STRING \in SUBSET Filters
<1>1. STRING \in SUBSET Filters
  BY DEF Filters
<1>2. PICK s \in Seq(STRING) : s = ServerFilters
  BY ProfileConstants
<1>3. \A i \in 1 .. Len(s) : s[i] \in Filters
  BY <1>1, <1>2, ElementOfSeq
<1>4. s = [i \in 1 .. Len(s) |-> s[i]] /\ Len(s) \in Nat
  BY <1>2
<1>5. s \in Seq(Filters)
  BY <1>3, <1>4
<1> QED BY <1>1, <1>2, <1>5

LEMMA NetworkProfiles ==
  ASSUME NEW c \in Config
  PROVE  /\ Server(c) \in SUBSET Config /\ LocalDiscovery(c) \in SUBSET Config
         /\ Test(c) \in SUBSET Config /\ DefaultNetworking(c) \in SUBSET Config
<1>0. c.noAnnounce \in Seq(Filters) /\ c.filters \in Seq(Filters) /\ c.bootstrap \in Seq(STRING)
      /\ <<>> \in Seq(STRING) /\ <<>> \in Seq(Filters)
  BY DEF Config
<1>1. Server(c) \in SUBSET Config
  <2>1. PICK a \in Seq(Filters), f \in Seq(Filters) :
          a = AppendSingle(c.noAnnounce, ServerFilters) /\ f = AppendSingle(c.filters, ServerFilters)
    BY <1>0, ServerFiltersType, AppendSingleHas
  <2>2. [c EXCEPT !.noAnnounce = a, !.filters = f, !.mdns = FALSE, !.natPortMap = FALSE] \in Config
    BY Zenon DEF Config
  <2> QED BY <2>1, <2>2, Zenon DEF Server
<1>2. LocalDiscovery(c) \in SUBSET Config
  <2>1. ASSUME NEW a \in DeleteEntries(c.noAnnounce, ServerFilters), NEW f \in DeleteEntries(c.filters, ServerFilters)
        PROVE  Lan(c, a, f, TRUE) \in Config
    <3>1. a \in Seq(Filters) /\ f \in Seq(Filters)
      BY <1>0, DeleteEntriesHas
    <3> QED BY <3>1, Zenon DEF Config, Lan
  <2>2. ASSUME NEW x \in LocalDiscovery(c) PROVE x \in Config
    <3>1. PICK a \in DeleteEntries(c.noAnnounce, ServerFilters), f \in DeleteEntries(c.filters, ServerFilters) :
            x = Lan(c, a, f, TRUE)
      <4>1. IsLocalDiscovery(c, x)
        BY LocalDiscoveryIs
      <4> QED BY <2>2, <4>1, Zenon DEF IsLocalDiscovery
    <3> QED BY <2>1, <3>1, Zenon
  <2> QED BY <2>2
<1>3. Test(c) \in SUBSET Config
  <2>1. [c EXCEPT !.api = "test", !.swarm = "test", !.natPortMap = FALSE, !.loopback = "true",
             !.bootstrap = <<>>, !.mdns = FALSE, !.autoTLS = "false"] \in Config
    BY <1>0, Zenon DEF Config
  <2> QED BY <2>1, Zenon DEF Test
<1>4. DefaultNetworking(c) \in SUBSET Config
  <2>1. PICK b \in Seq(STRING) : b = AppendSingle(c.bootstrap, DefaultPeers)
    BY <1>0, ProfileConstants, AppendSingleHas
  <2>2. [c EXCEPT !.api = "default", !.swarm = "default", !.noAnnounce = <<>>,
             !.bootstrap = b, !.natPortMap = TRUE, !.mdns = TRUE, !.autoTLS = "unset"] \in Config
    BY <1>0, Zenon DEF Config
  <2> QED BY <2>1, <2>2, Zenon DEF DefaultNetworking
<1> QED BY <1>1, <1>2, <1>3, <1>4

LEMMA OtherProfiles ==
  ASSUME NEW c \in Config
  PROVE  /\ Lowpower(c) \in SUBSET Config /\ AnnounceOff(c) \in SUBSET Config /\ AnnounceOn(c) \in SUBSET Config
         /\ Randomports(c) \in SUBSET Config
         /\ \A spec \in Datastores : Datastore(c, spec) \in SUBSET Config
         /\ \A kind \in Imports : Import(c, kind) \in SUBSET Config
<1>1. [c EXCEPT !.power = "low"] \in Config /\ [c EXCEPT !.swarm = "random"] \in Config
  BY DEF Config
<1>2. [c EXCEPT !.provider = "false", !.reprovide = "0"] \in Config
  BY Zenon DEF Config
<1>3. [c EXCEPT !.provider = "true", !.reprovide = "22h"] \in Config
  BY Zenon DEF Config
<1>4. \A spec \in Datastores : [c EXCEPT !.spec = spec] \in Config
  BY DEF Config
<1>5. \A kind \in Imports : [c EXCEPT !.import = kind] \in Config
  BY DEF Config
<1> QED BY <1>1, <1>2, <1>3, <1>4, <1>5, Zenon DEF Lowpower, AnnounceOff, AnnounceOn, Randomports, Datastore, Import

\* A profile makes a config of a config.
LEMMA TransformIs ==
  ASSUME NEW c
  PROVE  /\ Transform("server", c) = Server(c) /\ Transform("local-discovery", c) = LocalDiscovery(c)
         /\ Transform("announce-off", c) = AnnounceOff(c) /\ Transform("announce-on", c) = AnnounceOn(c)
<1>1. ASSUME NEW n, n = "server" PROVE Transform(n, c) = Server(c)
  BY <1>1 DEF Transform, Datastores, Imports
<1>2. ASSUME NEW n, n = "local-discovery" PROVE Transform(n, c) = LocalDiscovery(c)
  BY <1>2 DEF Transform, Datastores, Imports
<1>3. ASSUME NEW n, n = "announce-off" PROVE Transform(n, c) = AnnounceOff(c)
  BY <1>3 DEF Transform, Datastores, Imports
<1>4. ASSUME NEW n, n = "announce-on" PROVE Transform(n, c) = AnnounceOn(c)
  BY <1>4 DEF Transform, Datastores, Imports
<1> QED BY <1>1, <1>2, <1>3, <1>4

LEMMA TransformType ==
  ASSUME NEW c \in Config, NEW name
  PROVE  Transform(name, c) \in SUBSET Config
<1>1. "flatfs" \in Datastores
  BY DEF Datastores
<1> QED BY <1>1, NetworkProfiles, OtherProfiles DEF Transform

LEMMA DefaultConfigType == DefaultConfig \in Config
<1>1. DefaultPeers \in Seq(STRING) /\ <<>> \in Seq(STRING)
  BY ProfileConstants
<1> QED BY <1>1 DEF DefaultConfig, Config, Datastores

\* What `init --profile` makes is a config.
LEMMA ApplyProfilesType ==
  ASSUME NEW names \in Seq(STRING)
  PROVE  ApplyProfiles(names) \in SUBSET Config
<1>1. PICK n \in Nat : n = Len(names)
  OBVIOUS
<1> DEFINE U == SUBSET Config
           body(h) == [i \in 0 .. Len(names) |->
                         IF i = 0 THEN {DefaultConfig} ELSE UNION {Transform(names[i], c) : c \in h[i - 1]}]
           upTo == CHOOSE h : h = body(h)
           more == [j \in Nat |-> [C \in U |-> IF j < n THEN UNION {Transform(names[j + 1], c) : c \in C} ELSE C]]
<1>2. \A C \in U : \A name : UNION {Transform(name, c) : c \in C} \in U
  <2> HIDE DEF Config
  <2> QED BY TransformType
<1>3. {DefaultConfig} \in U
  BY DefaultConfigType
<1> HIDE DEF U
<1>4. more \in Steps(U)
  <2>1. \A j \in Nat, C \in U : (IF j < n THEN UNION {Transform(names[j + 1], c) : c \in C} ELSE C) \in U
    BY <1>2
  <2> QED BY <2>1 DEF Steps
<1>5. \E h : h = body(h)
  <2> HIDE DEF more
  <2>1. PICK h \in [0 .. n -> U] : \A i \in 0 .. n : h[i] = IF i = 0 THEN {DefaultConfig} ELSE more[i - 1][h[i - 1]]
    <3>1. RecursiveUpto(U, {DefaultConfig}, more, n)
      BY <1>3, <1>4, BoundedRecursion
    <3> QED BY <3>1, Zenon DEF RecursiveUpto
  <2>2. \A i \in 0 .. n : h[i] = body(h)[i]
    <3> TAKE i \in 0 .. n
    <3>1. CASE i = 0
      BY <1>1, <2>1, <3>1
    <3>2. CASE i # 0
      <4>1. i - 1 \in Nat /\ i - 1 < n /\ (i - 1) + 1 = i /\ i - 1 \in 0 .. n
        BY <3>2
      <4>2. h[i - 1] \in U
        BY <2>1, <4>1
      <4>3. more[i - 1][h[i - 1]] = UNION {Transform(names[i], c) : c \in h[i - 1]}
        BY <4>1, <4>2 DEF more
      <4> QED BY <1>1, <2>1, <3>2, <4>3
    <3> QED BY <3>1, <3>2
  <2>3. h = body(h)
    BY <1>1, <2>1, <2>2
  <2> QED BY <2>3
<1>6. upTo = body(upTo)
  <2> HIDE DEF body
  <2> QED BY <1>5, Zenon
<1>7. ApplyProfiles(names) = upTo[n]
  BY <1>1 DEF ApplyProfiles
<1> HIDE DEF upTo, more
<1> DEFINE P == {i \in Nat : i <= n => upTo[i] \in U}
<1>8. 0 \in P
  <2>1. upTo[0] = {DefaultConfig}
    BY <1>1, <1>6
  <2> QED BY <1>3, <2>1
<1>9. ASSUME NEW i \in Nat, i \in P PROVE i + 1 \in P
  <2> SUFFICES ASSUME i + 1 <= n PROVE upTo[i + 1] \in U
    <3>1. i + 1 \in Nat
      OBVIOUS
    <3> QED BY <3>1, Zenon
  <2>1. upTo[i] \in U
    BY <1>9
  <2>2. i + 1 \in 0 .. Len(names) /\ i + 1 # 0 /\ (i + 1) - 1 = i
    BY <1>1
  <2>3. upTo[i + 1] = UNION {Transform(names[i + 1], c) : c \in upTo[i]}
    BY <1>6, <2>2
  <2>4. PICK C \in U : C = upTo[i]
    BY <2>1
  <2>5. UNION {Transform(names[i + 1], c) : c \in C} \in U
    BY <1>2
  <2> QED BY <2>3, <2>4, <2>5, Zenon
<1>10. upTo[n] \in U
  <2>1. Nat \subseteq P
    <3> HIDE DEF P
    <3> QED BY <1>8, <1>9, NatSetInduction
  <2> QED BY <2>1
<1> QED BY <1>7, <1>10 DEF U

\* A config in memory says what the file says, where JSON can say it.
Agrees(inMemory, onDisk) ==
  /\ inMemory \in Config /\ onDisk \in Config
  /\ \A k \in DOMAIN inMemory \ OmitEmpty : inMemory[k] = onDisk[k]
  /\ \A k \in OmitEmpty : inMemory[k] = "unset" \/ inMemory[k] = onDisk[k]

LEMMA AgreesWithItself == \A c \in Config : Agrees(c, c)
BY DEF Agrees

LEMMA MergeIs ==
  ASSUME NEW old \in Config, NEW new \in Config
  PROVE  /\ MergedConfig(old, new) \in Config
         /\ Agrees(new, MergedConfig(old, new))
         /\ \A k \in OmitEmpty : new[k] = "unset" => MergedConfig(old, new)[k] = old[k]
<1> DEFINE m == MergedConfig(old, new)
<1>1. DOMAIN old = DOMAIN new /\ OmitEmpty \in SUBSET DOMAIN old
  BY DEF Config, OmitEmpty
<1>2. \A k \in DOMAIN old : m[k] = IF k \in OmitEmpty /\ new[k] = "unset" THEN old[k] ELSE new[k]
  BY DEF MergedConfig
<1>3. m \in Config
  BY DEF Config, MergedConfig, OmitEmpty
<1>4. Agrees(new, m)
  <2> HIDE DEF m
  <2> QED BY <1>1, <1>2, <1>3 DEF Agrees
<1> QED BY <1>1, <1>2, <1>3, <1>4

\* What an application of a profile does to the file.
ProfileStep(name, before, after) ==
  \E base \in Config : \E new \in Transform(name, base) : Agrees(base, before) /\ after = MergedConfig(before, new)

\* Settings a profile leaves alone stay as they are in the file, those it sets are set.
Keeps(before, new, after, K) ==
  /\ after \in Config
  /\ \A k \in DOMAIN after \ K : after[k] = before[k]
  /\ \A k \in DOMAIN after \intersect K : new[k] # "unset" => after[k] = new[k]
  /\ \A k \in (DOMAIN after \intersect K) \ OmitEmpty : after[k] = new[k]

LEMMA StepKeeps ==
  ASSUME NEW base \in Config, NEW before \in Config, NEW new \in Config, NEW after, Agrees(base, before),
         after = MergedConfig(before, new), NEW K, \A k \in DOMAIN base \ K : new[k] = base[k]
  PROVE  Keeps(before, new, after, K)
<1>1. DOMAIN after = DOMAIN base /\ DOMAIN new = DOMAIN base /\ after \in Config
  <2>1. \A c \in Config, d \in Config : DOMAIN c = DOMAIN d
    BY DEF Config
  <2>2. after \in Config
    BY MergeIs
  <2> QED BY <2>1, <2>2
<1>2. Agrees(new, after) /\ \A k \in OmitEmpty : new[k] = "unset" => after[k] = before[k]
  BY MergeIs
<1> HIDE DEF Config
<1>3. ASSUME NEW k \in DOMAIN after \ K PROVE after[k] = before[k]
  <2>1. new[k] = base[k]
    BY <1>1, <1>3
  <2>2. CASE k \in OmitEmpty
    <3>1. after[k] = before[k] \/ (after[k] = new[k] /\ new[k] # "unset")
      BY <1>2, <2>2 DEF Agrees
    <3>2. base[k] = "unset" \/ base[k] = before[k]
      BY <2>2 DEF Agrees
    <3> QED BY <2>1, <3>1, <3>2
  <2>3. CASE k \notin OmitEmpty
    <3>1. after[k] = new[k]
      BY <1>1, <1>2, <1>3, <2>3 DEF Agrees
    <3>2. base[k] = before[k]
      BY <1>1, <1>3, <2>3 DEF Agrees
    <3> QED BY <2>1, <3>1, <3>2
  <2> QED BY <2>2, <2>3
<1>4. ASSUME NEW k \in DOMAIN after, new[k] # "unset" \/ k \notin OmitEmpty PROVE after[k] = new[k]
  BY <1>1, <1>2, <1>4 DEF Agrees
<1> QED BY <1>1, <1>3, <1>4 DEF Keeps

LEMMA SameConfig ==
  ASSUME NEW c \in Config, NEW d \in Config, \A k \in DOMAIN c : c[k] = d[k]
  PROVE  c = d
BY DEF Config

\* The two pairs of profiles, setting by setting.
IsLan(c, a, f, on, L) ==
  /\ L \in Config
  /\ \A k \in DOMAIN c \ LanSettings : L[k] = c[k]
  /\ L["noAnnounce"] = a /\ L["filters"] = f
  /\ L["mdns"] = on /\ L["natPortMap"] = on

LEMMA LanIs ==
  ASSUME NEW c \in Config, NEW a \in Seq(Filters), NEW f \in Seq(Filters), NEW on \in BOOLEAN
  PROVE  IsLan(c, a, f, on, Lan(c, a, f, on))
<1>1. Lan(c, a, f, on) \in Config
  BY Zenon DEF Config, Lan
<1>2. \A k \in DOMAIN c \ LanSettings : Lan(c, a, f, on)[k] = c[k]
  BY DEF LanSettings, Lan
<1>3. LanSettings \in SUBSET DOMAIN c
  BY DEF Config, LanSettings
<1>4. Lan(c, a, f, on)["noAnnounce"] = a /\ Lan(c, a, f, on)["filters"] = f
  BY <1>3 DEF Lan, LanSettings
<1>5. Lan(c, a, f, on)["mdns"] = on
  BY <1>3 DEF Lan, LanSettings
<1>6. Lan(c, a, f, on)["natPortMap"] = on
  BY <1>3 DEF Lan, LanSettings
<1> QED BY <1>1, <1>2, <1>4, <1>5, <1>6, Zenon DEF IsLan

AnnounceSettings == {"provider", "reprovide"}
Announce(c, p, i) == [c EXCEPT !.provider = p, !.reprovide = i]

IsAnnounce(c, p, i, L) ==
  /\ L \in Config
  /\ \A k \in DOMAIN c \ AnnounceSettings : L[k] = c[k]
  /\ L["provider"] = p /\ L["reprovide"] = i

LEMMA AnnounceIs ==
  ASSUME NEW c \in Config, NEW p \in {"true", "false"}, NEW i \in {"0", "22h"}
  PROVE  IsAnnounce(c, p, i, Announce(c, p, i))
<1>1. Announce(c, p, i) \in Config
  BY Zenon DEF Config, Announce
<1>2. \A k \in DOMAIN c \ AnnounceSettings : Announce(c, p, i)[k] = c[k]
  BY DEF AnnounceSettings, Announce
<1>3. AnnounceSettings \in SUBSET DOMAIN c
  BY DEF Config, AnnounceSettings
<1>4. Announce(c, p, i)["provider"] = p /\ Announce(c, p, i)["reprovide"] = i
  BY <1>3 DEF Announce, AnnounceSettings
<1> QED BY <1>1, <1>2, <1>4, Zenon DEF IsAnnounce

\* An entry of a config is what it is in every config that agrees with it.
LEMMA ListsOf ==
  ASSUME NEW c \in Config
  PROVE  /\ c.noAnnounce \in Seq(Filters) /\ c.filters \in Seq(Filters) /\ LanSettings \in SUBSET DOMAIN c
         /\ LanSettings \intersect OmitEmpty = {} /\ AnnounceSettings \in SUBSET DOMAIN c
BY DEF Config, LanSettings, AnnounceSettings, OmitEmpty

\* What server adds, local-discovery takes away: the file is one that local-discovery
\* makes of what was there before both.
LEMMA LanTwice ==
  ASSUME NEW B0, NEW B1, NEW F, ProfileStep("server", B0, B1), ProfileStep("local-discovery", B1, F)
  PROVE  F \in LocalDiscovery(B0)
<1>1. PICK base \in Config : \E new \in Server(base) : Agrees(base, B0) /\ B1 = MergedConfig(B0, new)
  BY TransformIs, Zenon DEF ProfileStep
<1>2. PICK base2 \in Config : \E new2 \in LocalDiscovery(base2) : Agrees(base2, B1) /\ F = MergedConfig(B1, new2)
  BY TransformIs, Zenon DEF ProfileStep
<1>3. PICK new \in Server(base) : B1 = MergedConfig(B0, new)
  BY <1>1
<1>4. PICK new2 \in LocalDiscovery(base2) : F = MergedConfig(B1, new2)
  BY <1>2
<1>5. B0 \in Config /\ B1 \in Config /\ new \in Config /\ new2 \in Config
  <2>1. B0 \in Config /\ B1 \in Config
    BY <1>1, <1>2, Zenon DEF Agrees
  <2> QED BY <1>3, <1>4, <2>1, NetworkProfiles, Zenon
<1>6. PICK s \in Seq(Filters), r \in Seq(Filters) :
        /\ s = AppendSingle(base.noAnnounce, ServerFilters) /\ r = AppendSingle(base.filters, ServerFilters)
        /\ new = Lan(base, s, r, FALSE)
  <2>1. AppendSingle(base.noAnnounce, ServerFilters) \in Seq(Filters) /\ AppendSingle(base.filters, ServerFilters) \in Seq(Filters)
    BY ListsOf, AppendSingleHas, ServerFiltersType
  <2>2. new = Lan(base, AppendSingle(base.noAnnounce, ServerFilters), AppendSingle(base.filters, ServerFilters), FALSE)
    BY <1>3, Zenon DEF Server, Lan
  <2> QED BY <2>1, <2>2, Zenon
<1>7. PICK a \in DeleteEntries(base2.noAnnounce, ServerFilters), f \in DeleteEntries(base2.filters, ServerFilters) :
        new2 = Lan(base2, a, f, TRUE)
  <2>1. IsLocalDiscovery(base2, new2)
    BY LocalDiscoveryIs
  <2> QED BY <1>4, <2>1, Zenon DEF IsLocalDiscovery
<1>8. a \in Seq(Filters) /\ f \in Seq(Filters)
  BY <1>7, ListsOf, DeleteEntriesHas
<1>9. IsLan(base, s, r, FALSE, new) /\ IsLan(base2, a, f, TRUE, new2)
  BY <1>6, <1>7, <1>8, LanIs
<1>10. Keeps(B0, new, B1, LanSettings)
  <2>1. \A k \in DOMAIN base \ LanSettings : new[k] = base[k]
    BY <1>9, Zenon DEF IsLan
  <2> QED BY <1>1, <1>3, <1>5, <2>1, StepKeeps
<1>11. Keeps(B1, new2, F, LanSettings)
  <2>1. \A k \in DOMAIN base2 \ LanSettings : new2[k] = base2[k]
    BY <1>9, Zenon DEF IsLan
  <2> QED BY <1>2, <1>4, <1>5, <2>1, StepKeeps
<1>12. /\ \A k \in DOMAIN B1 \ LanSettings : B1[k] = B0[k]
      /\ B1.noAnnounce = s /\ B1.filters = r
  <2>2. (\A k \in DOMAIN B1 \ LanSettings : B1[k] = B0[k])
        /\ \A k \in (DOMAIN B1 \intersect LanSettings) \ OmitEmpty : B1[k] = new[k]
    BY <1>10, Zenon DEF Keeps
  <2>3. new["noAnnounce"] = s /\ new["filters"] = r
    BY <1>9, Zenon DEF IsLan
  <2>4. LanSettings \in SUBSET DOMAIN B1 /\ LanSettings \intersect OmitEmpty = {}
    BY <1>5, ListsOf
  <2>5. "noAnnounce" \in LanSettings /\ "filters" \in LanSettings
    BY DEF LanSettings
  <2> QED BY <2>2, <2>3, <2>4, <2>5
<1>13. /\ \A k \in DOMAIN F \ LanSettings : F[k] = B1[k]
      /\ F["noAnnounce"] = a /\ F["filters"] = f /\ F["mdns"] = TRUE /\ F["natPortMap"] = TRUE /\ F \in Config
  <2>2. F \in Config /\ (\A k \in DOMAIN F \ LanSettings : F[k] = B1[k])
        /\ \A k \in (DOMAIN F \intersect LanSettings) \ OmitEmpty : F[k] = new2[k]
    BY <1>11, Zenon DEF Keeps
  <2>3. new2["noAnnounce"] = a /\ new2["filters"] = f /\ new2["mdns"] = TRUE /\ new2["natPortMap"] = TRUE
    BY <1>9, Zenon DEF IsLan
  <2>4. LanSettings \in SUBSET DOMAIN F /\ LanSettings \intersect OmitEmpty = {}
    BY <2>2, ListsOf
  <2>5. \A k \in LanSettings : F[k] = new2[k]
    BY <2>2, <2>4
  <2>6. \A k \in {"noAnnounce", "filters", "mdns", "natPortMap"} : F[k] = new2[k]
    BY <2>5 DEF LanSettings
  <2> QED BY <2>2, <2>3, <2>6
<1>14. \* The same entries are left.
      a \in DeleteEntries(B0.noAnnounce, ServerFilters) /\ f \in DeleteEntries(B0.filters, ServerFilters)
  <2>1. base2.noAnnounce = s /\ base2.filters = r /\ base.noAnnounce = B0.noAnnounce /\ base.filters = B0.filters
    <3>1. \A k \in LanSettings : base2[k] = B1[k] /\ base[k] = B0[k]
      BY <1>1, <1>2, ListsOf DEF Agrees
    <3> QED BY <1>12, <3>1 DEF LanSettings
  <2>2. Elements(s) \ Elements(ServerFilters) = Elements(B0.noAnnounce) \ Elements(ServerFilters)
    <3>1. Elements(s) = Elements(B0.noAnnounce) \union Elements(ServerFilters)
      BY <1>5, <1>6, <2>1, ListsOf, AppendSingleHas, ServerFiltersType
    <3> QED BY <3>1
  <2>3. Elements(r) \ Elements(ServerFilters) = Elements(B0.filters) \ Elements(ServerFilters)
    <3>1. Elements(r) = Elements(B0.filters) \union Elements(ServerFilters)
      BY <1>5, <1>6, <2>1, ListsOf, AppendSingleHas, ServerFiltersType
    <3> QED BY <3>1
  <2>4. B0.noAnnounce \in Seq(Filters) /\ B0.filters \in Seq(Filters)
    BY <1>5, ListsOf
  <2>5. DeleteEntries(s, ServerFilters) = DeleteEntries(B0.noAnnounce, ServerFilters)
    BY <2>2, <2>4, DeleteEntriesHas, Zenon
  <2>6. DeleteEntries(r, ServerFilters) = DeleteEntries(B0.filters, ServerFilters)
    BY <2>3, <2>4, DeleteEntriesHas, Zenon
  <2> QED BY <1>7, <2>1, <2>5, <2>6
<1>15. F = Lan(B0, a, f, TRUE)
  <2> DEFINE L == Lan(B0, a, f, TRUE)
  <2>1. IsLan(B0, a, f, TRUE, L)
    BY <1>5, <1>8, LanIs
  <2> HIDE DEF L
  <2>2. DOMAIN F = DOMAIN B0 /\ DOMAIN B1 = DOMAIN B0
    BY <1>5, <1>13 DEF Config
  <2>3. \A k \in DOMAIN F \ LanSettings : F[k] = L[k]
    BY <1>12, <1>13, <2>1, <2>2 DEF IsLan
  <2>4. \A k \in LanSettings : F[k] = L[k]
    BY <1>13, <2>1 DEF IsLan, LanSettings
  <2>5. \A k \in DOMAIN F : F[k] = L[k]
    BY <2>3, <2>4
  <2>6. F = L
    <3>1. L \in Config
      BY <2>1 DEF IsLan
    <3> QED BY <1>13, <2>5, <3>1, SameConfig
  <2> QED BY <2>6 DEF L
<1>16. IsLocalDiscovery(B0, F)
  BY LocalDiscoveryIs
<1> QED BY <1>14, <1>15, <1>16, Zenon DEF IsLocalDiscovery

\* announce-on sets whatever announce-off set.
LEMMA AnnounceTwice ==
  ASSUME NEW B0, NEW B1, NEW F, ProfileStep("announce-off", B0, B1), ProfileStep("announce-on", B1, F)
  PROVE  F \in AnnounceOn(B0)
<1>1. PICK base \in Config : \E new \in AnnounceOff(base) : Agrees(base, B0) /\ B1 = MergedConfig(B0, new)
  BY TransformIs, Zenon DEF ProfileStep
<1>2. PICK base2 \in Config : \E new2 \in AnnounceOn(base2) : Agrees(base2, B1) /\ F = MergedConfig(B1, new2)
  BY TransformIs, Zenon DEF ProfileStep
<1>3. PICK new \in AnnounceOff(base) : B1 = MergedConfig(B0, new)
  BY <1>1
<1>4. PICK new2 \in AnnounceOn(base2) : F = MergedConfig(B1, new2)
  BY <1>2
<1>5. B0 \in Config /\ B1 \in Config /\ new \in Config /\ new2 \in Config
  <2>1. B0 \in Config /\ B1 \in Config
    BY <1>1, <1>2, Zenon DEF Agrees
  <2> QED BY <1>3, <1>4, <2>1, OtherProfiles, Zenon
<1>6. new = Announce(base, "false", "0") /\ new2 = Announce(base2, "true", "22h")
  BY <1>3, <1>4, Zenon DEF AnnounceOff, AnnounceOn, Announce
<1>7. IsAnnounce(base, "false", "0", new) /\ IsAnnounce(base2, "true", "22h", new2)
  BY <1>6, AnnounceIs
<1>8. Keeps(B0, new, B1, AnnounceSettings)
  <2>1. \A k \in DOMAIN base \ AnnounceSettings : new[k] = base[k]
    BY <1>7, Zenon DEF IsAnnounce
  <2> QED BY <1>1, <1>3, <1>5, <2>1, StepKeeps
<1>9. Keeps(B1, new2, F, AnnounceSettings)
  <2>1. \A k \in DOMAIN base2 \ AnnounceSettings : new2[k] = base2[k]
    BY <1>7, Zenon DEF IsAnnounce
  <2> QED BY <1>2, <1>4, <1>5, <2>1, StepKeeps
<1>10. \A k \in DOMAIN B1 \ AnnounceSettings : B1[k] = B0[k]
  BY <1>8, Zenon DEF Keeps
<1>11. /\ \A k \in DOMAIN F \ AnnounceSettings : F[k] = B1[k]
      /\ F["provider"] = "true" /\ F["reprovide"] = "22h" /\ F \in Config
  <2>2. F \in Config /\ (\A k \in DOMAIN F \ AnnounceSettings : F[k] = B1[k])
        /\ \A k \in DOMAIN F \intersect AnnounceSettings : new2[k] # "unset" => F[k] = new2[k]
    BY <1>9, Zenon DEF Keeps
  <2>3. new2["provider"] = "true" /\ new2["reprovide"] = "22h"
    BY <1>7, Zenon DEF IsAnnounce
  <2>4. AnnounceSettings \in SUBSET DOMAIN F
    BY <2>2, ListsOf
  <2>5. \A k \in AnnounceSettings : new2[k] # "unset" => F[k] = new2[k]
    BY <2>2, <2>4
  <2>6. \A k \in {"provider", "reprovide"} : new2[k] # "unset" => F[k] = new2[k]
    BY <2>5 DEF AnnounceSettings
  <2> QED BY <2>2, <2>3, <2>6
<1>12. F = Announce(B0, "true", "22h")
  <2> DEFINE L == Announce(B0, "true", "22h")
  <2>1. IsAnnounce(B0, "true", "22h", L)
    BY <1>5, AnnounceIs
  <2> HIDE DEF L
  <2>2. DOMAIN F = DOMAIN B0 /\ DOMAIN B1 = DOMAIN B0
    BY <1>5, <1>11 DEF Config
  <2>3. \A k \in DOMAIN F \ AnnounceSettings : F[k] = L[k]
    BY <1>10, <1>11, <2>1, <2>2 DEF IsAnnounce
  <2>4. \A k \in AnnounceSettings : F[k] = L[k]
    BY <1>11, <2>1 DEF IsAnnounce, AnnounceSettings
  <2>5. \A k \in DOMAIN F : F[k] = L[k]
    BY <2>3, <2>4
  <2>6. F = L
    <3>1. L \in Config
      BY <2>1 DEF IsAnnounce
    <3> QED BY <1>11, <2>5, <3>1, SameConfig
  <2> QED BY <2>6 DEF L
<1> QED BY <1>12, Zenon DEF AnnounceOn, Announce

\* What was applied one after the other: each file is what the profile made of the one before.
Edits == [name : ProfilesApplied \union {"user"}, before : Config]
HistoryOf(h, onDisk) ==
  \A i \in 1 .. Len(h) :
    h[i].name # "user" => ProfileStep(h[i].name, h[i].before, IF i = Len(h) THEN onDisk ELSE h[i + 1].before)
BackedUp(h, copies) == \A i \in 1 .. Len(h) : h[i].name # "user" => h[i].before \in copies

LEMMA HistoryGrows ==
  ASSUME NEW h \in Seq(Edits), NEW e \in Edits, NEW onDisk
  PROVE  /\ HistoryOf(h, e.before) /\ (e.name # "user" => ProfileStep(e.name, e.before, onDisk)) => HistoryOf(Append(h, e), onDisk)
         /\ \A copies : BackedUp(h, copies) /\ (e.name # "user" => e.before \in copies) => BackedUp(Append(h, e), copies)
<1>1. PICK n \in Nat : n = Len(h)
  OBVIOUS
<1>2. PICK g \in Seq(Edits) : g = Append(h, e) /\ Len(g) = n + 1 /\ g[n + 1] = e /\ \A i \in 1 .. n : g[i] = h[i]
  <2> HIDE DEF Edits
  <2>1. Append(h, e) \in Seq(Edits) /\ Len(Append(h, e)) = n + 1
    BY <1>1
  <2>2. Append(h, e)[n + 1] = e /\ \A i \in 1 .. n : Append(h, e)[i] = h[i]
    BY <1>1
  <2> QED BY <2>1, <2>2, Zenon
<1>3. \A i \in 1 .. n + 1 : i = n + 1 \/ i \in 1 .. n
  OBVIOUS
<1>4. ASSUME HistoryOf(h, e.before), e.name # "user" => ProfileStep(e.name, e.before, onDisk),
             NEW i \in 1 .. n + 1, g[i].name # "user"
      PROVE  ProfileStep(g[i].name, g[i].before, IF i = n + 1 THEN onDisk ELSE g[i + 1].before)
  <2>1. CASE i = n + 1
    BY <1>2, <1>4, <2>1
  <2>2. CASE i \in 1 .. n
    <3>1. ProfileStep(h[i].name, h[i].before, IF i = n THEN e.before ELSE h[i + 1].before)
      BY <1>1, <1>2, <1>4, <2>2 DEF HistoryOf
    <3>2. (IF i = n THEN e.before ELSE h[i + 1].before) = g[i + 1].before
      <4>1. CASE i = n
        BY <1>2, <4>1
      <4>2. CASE i # n
        <5>1. i + 1 \in 1 .. n
          BY <2>2, <4>2
        <5> QED BY <1>2, <4>2, <5>1
      <4> QED BY <4>1, <4>2
    <3>3. i # n + 1 /\ g[i] = h[i]
      BY <1>2, <2>2
    <3> QED BY <3>1, <3>2, <3>3
  <2> QED BY <1>3, <2>1, <2>2
<1>5. ASSUME NEW copies, BackedUp(h, copies), e.name # "user" => e.before \in copies,
             NEW i \in 1 .. n + 1, g[i].name # "user"
      PROVE  g[i].before \in copies
  <2>1. CASE i = n + 1
    BY <1>2, <1>5, <2>1
  <2>2. CASE i \in 1 .. n
    BY <1>1, <1>2, <1>5, <2>2 DEF BackedUp
  <2> QED BY <1>3, <2>1, <2>2
<1>6. HistoryOf(h, e.before) /\ (e.name # "user" => ProfileStep(e.name, e.before, onDisk)) => HistoryOf(g, onDisk)
  BY <1>2, <1>4 DEF HistoryOf
<1>7. \A copies : BackedUp(h, copies) /\ (e.name # "user" => e.before \in copies) => BackedUp(g, copies)
  BY <1>2, <1>5 DEF BackedUp
<1> QED BY <1>2, <1>6, <1>7

\* The inductive invariant of the profiles.
ProfTypes ==
  /\ cfgFile \in Config \union {NoCfgFile} /\ backups \in Seq(Config) /\ applied \in Seq(Edits)
  /\ cfgFile = NoCfgFile => applied = <<>> /\ apply = NoApply
MemoryAgrees == cfgMem # NoCfgFile => Agrees(cfgMem, cfgFile)
Applying ==
  \/ apply = NoApply
  \/ /\ apply \in [pc : {"backup", "set", "done"}, name : ProfilesApplied, dry : BOOLEAN, new : Config]
     /\ \E base \in Config : Agrees(base, cfgFile) /\ apply.new \in Transform(apply.name, base)
     /\ apply.pc = "set" => cfgFile \in Elements(backups)
ProfInv ==
  /\ ProfTypes /\ MemoryAgrees /\ Applying
  /\ HistoryOf(applied, cfgFile) /\ BackedUp(applied, Elements(backups))

LEMMA NoCfgFileIsNone == NoCfgFile \notin Config /\ NoApply.pc = "none"
<1>1. ASSUME NoCfgFile \in Config PROVE FALSE
  <2>1. NoCfgFile.spec \in Datastores
    BY <1>1 DEF Config
  <2>2. NoCfgFile.spec = "none"
    BY DEF NoCfgFile
  <2> QED BY <2>1, <2>2 DEF Datastores
<1> QED BY <1>1 DEF NoApply

LEMMA ProfilesInitInv == ProfilesInit => ProfInv
<1> SUFFICES ASSUME ProfilesInit PROVE ProfInv
  OBVIOUS
<1>1. ProfTypes /\ MemoryAgrees /\ Applying
  BY DEF ProfilesInit, ProfTypes, MemoryAgrees, Applying
<1>2. applied = <<>> /\ Len(applied) = 0
  BY DEF ProfilesInit
<1> QED BY <1>1, <1>2 DEF ProfInv, HistoryOf, BackedUp

LEMMA ProfDoInit ==
  ASSUME ProfInv, NEW names \in InitProfiles, DoInit(names) PROVE ProfInv'
<1>1. cfgFile' \in Config
  <2>1. names \in Seq(STRING)
    BY ProfileConstants
  <2> QED BY <2>1, ApplyProfilesType DEF DoInit
<1>2. applied' = <<>> /\ apply' = NoApply /\ cfgMem' = NoCfgFile /\ backups' \in Seq(Config) /\ cfgFile' # NoCfgFile
  BY <1>1, NoCfgFileIsNone DEF ProfInv, ProfTypes, MemoryAgrees, Agrees, DoInit
<1>3. Len(applied') = 0
  BY <1>2
<1> HIDE DEF Config
<1>4. HistoryOf(applied', cfgFile') /\ BackedUp(applied', Elements(backups)')
  BY <1>3 DEF HistoryOf, BackedUp
<1>5. ProfTypes' /\ MemoryAgrees' /\ Applying'
  BY <1>1, <1>2 DEF ProfTypes, MemoryAgrees, Applying
<1> QED BY <1>4, <1>5 DEF ProfInv

LEMMA ProfDaemon ==
  ASSUME ProfInv, StartDaemon \/ StopDaemon PROVE ProfInv'
<1>1. UNCHANGED <<cfgFile, apply, backups, applied>> /\ (cfgMem' = NoCfgFile \/ (cfgMem' = cfgFile /\ cfgFile # NoCfgFile))
  BY DEF StartDaemon, StopDaemon, Opens
<1> HIDE DEF Config
<1>2. MemoryAgrees'
  BY <1>1, AgreesWithItself DEF MemoryAgrees, ProfInv, ProfTypes
<1>3. ProfTypes' /\ Applying'
  BY <1>1 DEF ProfTypes, Applying, ProfInv
<1> QED BY <1>1, <1>2, <1>3 DEF ProfInv

LEMMA FilterType == \A f \in {"mine"} \union Elements(ServerFilters) : f \in Filters
<1>1. Elements(ServerFilters) \in SUBSET Filters
  BY ServerFiltersType, ElementsOf
<1> QED BY <1>1 DEF Filters

LEMMA ProfUserFilter ==
  ASSUME ProfInv, NEW f \in {"mine"} \union Elements(ServerFilters), UserFilter(f) PROVE ProfInv'
<1>1. cfgFile \in Config
  BY DEF ProfInv, ProfTypes, UserFilter
<1>2. f \in Filters
  BY FilterType, Zenon
<1>3. cfgFile' \in Config
  <2>1. PICK l \in Seq(Filters) : l = Append(cfgFile.filters, f)
    <3>1. PICK fs \in Seq(Filters) : fs = cfgFile.filters
      BY <1>1, ListsOf
    <3>2. Append(fs, f) \in Seq(Filters)
      BY <1>2, <3>1
    <3> QED BY <3>1, <3>2, Zenon
  <2>2. [cfgFile EXCEPT !.filters = l] \in Config
    BY <1>1, Zenon DEF Config
  <2> QED BY <2>1, <2>2, Zenon DEF UserFilter
<1> DEFINE e == [name |-> "user", before |-> cfgFile]
<1> HIDE DEF Config
<1>4. e \in Edits /\ e.name = "user" /\ e.before = cfgFile
  BY <1>1 DEF Edits
<1>5. apply = NoApply /\ cfgMem = NoCfgFile
  BY DEF UserFilter, ProfInv, Applying
<1>6. applied' = Append(applied, e) /\ UNCHANGED <<apply, cfgMem, backups>>
  BY DEF UserFilter
<1> HIDE DEF e
<1>7. HistoryOf(applied', cfgFile') /\ BackedUp(applied', Elements(backups)')
  BY <1>4, <1>6, HistoryGrows DEF ProfInv, ProfTypes
<1>8. ProfTypes'
  BY <1>3, <1>4, <1>6, NoCfgFileIsNone DEF ProfInv, ProfTypes
<1>9. MemoryAgrees' /\ Applying'
  BY <1>5, <1>6 DEF MemoryAgrees, Applying
<1> QED BY <1>7, <1>8, <1>9 DEF ProfInv

LEMMA ProfApplyStart ==
  ASSUME ProfInv, NEW name \in ProfilesApplied, NEW dry \in BOOLEAN, ApplyStart(name, dry) PROVE ProfInv'
<1> DEFINE base == IF cfgMem = NoCfgFile THEN cfgFile ELSE cfgMem
<1>1. UNCHANGED <<cfgFile, cfgMem, backups, applied>>
  BY DEF ApplyStart, CloneConfig
<1>2. PICK c \in Transform(name, base) : apply' = [pc |-> IF dry THEN "done" ELSE "backup", name |-> name, dry |-> dry, new |-> c]
  BY DEF ApplyStart
<1> HIDE DEF Config
<1>3. Agrees(base, cfgFile)
  <2>1. CASE cfgMem = NoCfgFile
    <3>1. cfgFile # NoCfgFile
      BY <2>1 DEF ApplyStart, Opens
    <3> QED BY <2>1, <3>1, AgreesWithItself DEF ProfInv, ProfTypes
  <2>2. CASE cfgMem # NoCfgFile
    BY <2>2 DEF ProfInv, MemoryAgrees
  <2> QED BY <2>1, <2>2
<1>4. base \in Config /\ cfgFile \in Config
  BY <1>3 DEF Agrees
<1> HIDE DEF base
<1>5. c \in Config
  BY <1>4, TransformType
<1>6. apply' \in [pc : {"backup", "set", "done"}, name : ProfilesApplied, dry : BOOLEAN, new : Config]
  BY <1>2, <1>5
<1>7. apply'.new \in Transform(apply'.name, base) /\ apply'.pc # "set"
  BY <1>2
<1>8. Applying'
  <2>1. Agrees(base, cfgFile')
    BY <1>1, <1>3
  <2>2. \E b \in Config : Agrees(b, cfgFile') /\ apply'.new \in Transform(apply'.name, b)
    BY <1>4, <1>7, <2>1
  <2> QED BY <1>6, <1>7, <2>2 DEF Applying
<1>9. ProfTypes' /\ MemoryAgrees'
  BY <1>1, <1>4, NoCfgFileIsNone DEF ProfTypes, MemoryAgrees, ProfInv
<1> QED BY <1>1, <1>8, <1>9 DEF ProfInv

LEMMA ProfApplyBackup ==
  ASSUME ProfInv, ApplyBackup PROVE ProfInv'
<1>1. UNCHANGED <<cfgFile, cfgMem, applied>> /\ apply # NoApply
  BY DEF ApplyBackup, NoApply
<1> HIDE DEF Config
<1>2. cfgFile \in Config
  BY <1>1 DEF ProfInv, Applying, Agrees
<1>3. MemoryAgrees' /\ HistoryOf(applied', cfgFile')
  BY <1>1 DEF MemoryAgrees, ProfInv
<1>4. CASE backups' = Append(backups, cfgFile) /\ apply' = [apply EXCEPT !.pc = "set"]
  <2>1. backups' \in Seq(Config) /\ Elements(backups') = Elements(backups) \union {cfgFile}
    BY <1>2, <1>4, ElementsOf DEF ProfInv, ProfTypes
  <2>2. BackedUp(applied', Elements(backups)')
    BY <1>1, <2>1 DEF BackedUp, ProfInv
  <2>3. apply \in [pc : {"backup", "set", "done"}, name : ProfilesApplied, dry : BOOLEAN, new : Config]
    BY <1>1 DEF ProfInv, Applying
  <2>4. /\ apply' \in [pc : {"backup", "set", "done"}, name : ProfilesApplied, dry : BOOLEAN, new : Config]
        /\ apply'.new = apply.new /\ apply'.name = apply.name
    BY <1>4, <2>3
  <2>5. \E base \in Config : Agrees(base, cfgFile') /\ apply'.new \in Transform(apply'.name, base)
    BY <1>1, <2>4 DEF ProfInv, Applying
  <2>6. Applying'
    BY <1>1, <2>1, <2>4, <2>5 DEF Applying
  <2>7. ProfTypes'
    BY <1>1, <1>2, <2>1, NoCfgFileIsNone DEF ProfTypes, ProfInv
  <2> QED BY <1>3, <2>2, <2>6, <2>7 DEF ProfInv
<1>5. CASE apply' = NoApply /\ UNCHANGED backups
  BY <1>1, <1>3, <1>5 DEF ProfInv, ProfTypes, Applying
<1> QED BY <1>4, <1>5 DEF ApplyBackup

LEMMA ProfApplySet ==
  ASSUME ProfInv, ApplySet PROVE ProfInv'
<1>1. UNCHANGED backups /\ apply.pc = "set" /\ apply # NoApply /\ apply' = NoApply
  BY DEF ApplySet, NoApply
<1> HIDE DEF Config
<1>2. /\ apply \in [pc : {"backup", "set", "done"}, name : ProfilesApplied, dry : BOOLEAN, new : Config]
      /\ cfgFile \in Elements(backups)
  BY <1>1 DEF ProfInv, Applying
<1>3. PICK base \in Config : Agrees(base, cfgFile) /\ apply.new \in Transform(apply.name, base)
  BY <1>1 DEF ProfInv, Applying
<1>4. cfgFile \in Config
  BY <1>3 DEF Agrees
<1>5. Applying'
  BY <1>1 DEF Applying
<1>6. CASE /\ cfgFile' = MergedConfig(cfgFile, apply.new)
           /\ cfgMem' = IF cfgMem = NoCfgFile THEN NoCfgFile ELSE apply.new
           /\ applied' = Append(applied, [name |-> apply.name, before |-> cfgFile])
  <2>1. PICK new \in Config : new = apply.new
    BY <1>2
  <2>2. PICK e \in Edits : e = [name |-> apply.name, before |-> cfgFile]
    BY <1>2, <1>4 DEF Edits
  <2>3. cfgFile' \in Config /\ Agrees(new, cfgFile')
    BY <1>4, <1>6, <2>1, MergeIs
  <2>4. ProfileStep(e.name, e.before, cfgFile')
    BY <1>3, <1>6, <2>2 DEF ProfileStep
  <2>5. HistoryOf(applied', cfgFile') /\ BackedUp(applied', Elements(backups)')
    BY <1>1, <1>2, <1>6, <2>2, <2>4, HistoryGrows DEF ProfInv, ProfTypes
  <2>6. ProfTypes'
    BY <1>1, <1>6, <2>2, <2>3, NoCfgFileIsNone DEF ProfInv, ProfTypes
  <2>7. MemoryAgrees'
    BY <1>6, <2>1, <2>3 DEF MemoryAgrees
  <2> QED BY <1>5, <2>5, <2>6, <2>7 DEF ProfInv
<1>7. CASE UNCHANGED <<cfgFile, cfgMem, applied>>
  BY <1>1, <1>5, <1>7 DEF ProfInv, ProfTypes, MemoryAgrees
<1> QED BY <1>6, <1>7 DEF ApplySet

LEMMA ProfApplyDry ==
  ASSUME ProfInv, ApplyDry PROVE ProfInv'
BY DEF ApplyDry, ProfInv, ProfTypes, MemoryAgrees, Applying

LEMMA ProfReversible == ProfInv => ProfilesReversible
<1> SUFFICES ASSUME ProfInv PROVE ProfilesReversible
  OBVIOUS
<1>1. MemoryFollowsFile
  BY DEF MemoryFollowsFile, ProfInv, MemoryAgrees, Agrees
<1>2. BackupBefore
  BY DEF BackupBefore, ProfInv, BackedUp
<1>3. ASSUME NEW p, NEW q, Reverted(p, q), p # "user", q # "user",
             \A B0, B1, F : ProfileStep(p, B0, B1) /\ ProfileStep(q, B1, F) => F \in Transform(q, B0)
      PROVE  Meaning(cfgFile) = RevertedTo
  <2>1. PICK n \in Nat : n = Len(applied) /\ n >= 2
    BY <1>3 DEF Reverted, ProfInv, ProfTypes
  <2>2. n \in 1 .. n /\ n - 1 \in 1 .. n /\ n - 1 # n /\ (n - 1) + 1 = n
    BY <2>1
  <2>3. applied[n - 1].name = p /\ applied[n].name = q
    BY <1>3, <2>1 DEF Reverted
  <2>4. \A i \in 1 .. n : applied[i].name # "user" =>
          ProfileStep(applied[i].name, applied[i].before, IF i = n THEN cfgFile ELSE applied[i + 1].before)
    BY <2>1 DEF ProfInv, HistoryOf
  <2>5. ProfileStep(p, applied[n - 1].before, applied[n].before)
    BY <1>3, <2>2, <2>3, <2>4
  <2>6. ProfileStep(q, applied[n].before, cfgFile)
    BY <1>3, <2>2, <2>3, <2>4
  <2>7. cfgFile \in Transform(q, applied[n - 1].before)
    BY <1>3, <2>5, <2>6
  <2>8. \A c \in Transform(q, applied[n - 1].before) : Meaning(c) = RevertedTo
    BY <1>3, <2>1, Zenon DEF Reverted, RevertedTo
  <2> QED BY <2>7, <2>8, Zenon
<1>4. RevertRestores
  <2>1. Reverted("server", "local-discovery") => Meaning(cfgFile) = RevertedTo
    BY <1>3, LanTwice, TransformIs
  <2>2. Reverted("announce-off", "announce-on") => Meaning(cfgFile) = RevertedTo
    BY <1>3, AnnounceTwice, TransformIs
  <2>3. ASSUME NEW pair \in {<<"server", "local-discovery">>, <<"announce-off", "announce-on">>}, Reverted(pair[1], pair[2])
        PROVE  Meaning(cfgFile) = RevertedTo
    <3>1. CASE pair[1] = "server" /\ pair[2] = "local-discovery"
      BY <2>1, <2>3, <3>1, Zenon
    <3>2. CASE pair[1] = "announce-off" /\ pair[2] = "announce-on"
      BY <2>2, <2>3, <3>2, Zenon
    <3>3. (pair[1] = "server" /\ pair[2] = "local-discovery") \/ (pair[1] = "announce-off" /\ pair[2] = "announce-on")
      BY <2>3
    <3> QED BY <3>1, <3>2, <3>3
  <2> QED BY <2>3, Zenon DEF RevertRestores
<1> QED BY <1>1, <1>2, <1>4 DEF ProfilesReversible

\* The invariant of the config profiles: a file that was read agrees with the config of the
\* daemon, a profile is applied to a config that agrees with the file, and each edit so far
\* is what its profile makes of the file before it (config/profile.go, config.go:476).
THEOREM ProfilesInvariant == ProfilesSpec => []ProfInv
<1>1. ProfilesInit => ProfInv
  BY ProfilesInitInv
<1>2. ProfInv /\ [ProfilesNext]_pfVars => ProfInv'
  <2> SUFFICES ASSUME ProfInv, [ProfilesNext]_pfVars PROVE ProfInv'
    OBVIOUS
  <2>1. CASE ProfilesNext
    BY <2>1, ProfDoInit, ProfDaemon, ProfUserFilter, ProfApplyStart, ProfApplyBackup, ProfApplySet, ProfApplyDry
       DEF ProfilesNext
  <2>2. CASE UNCHANGED pfVars
    BY <2>2 DEF pfVars, ProfInv, ProfTypes, MemoryAgrees, Applying
  <2> QED BY <2>1, <2>2
<1> QED BY <1>1, <1>2, PTL DEF ProfilesSpec

\* ProfilesReversible for every list of filters, every set of profiles and any number of
\* edits: server is taken back by local-discovery and announce-off by announce-on,
\* whatever the file held; a backup of just the file a profile met is there.
THEOREM ProfilesCanBeTakenBack == ProfilesSpec => []ProfilesReversible
BY ProfilesInvariant, ProfReversible, PTL

-----------------------------------------------------------------------------
(***************************************************************************)
(* `ipfs refs` lists what it was asked for.  The invariant of the walk     *)
(* without --unique is a count: what was emitted and what the calls on the *)
(* stack have left to emit make up the ways from the arguments so far.     *)
(* With --unique it says of every CID that was met at a depth that all its *)
(* links were met one deeper, or that a call at most as deep still has     *)
(* them before it: so nothing stays hidden behind a pruned branch.         *)
(***************************************************************************)
\* The sums of a sequence's first numbers, as the function that the recursion defines.
LEMMA SumIs ==
  ASSUME NEW n \in Nat, NEW s \in [1 .. n -> Int]
  PROVE  \E sums \in [Nat -> Int] :
           /\ sums[0] = 0 /\ \A j \in 0 .. n - 1 : sums[j + 1] = sums[j] + s[j + 1]
           /\ \A k \in 0 .. n : SumTo(s, k) = sums[k]
<1> DEFINE add == [j \in Nat |-> [x \in Int |-> IF j < n THEN x + s[j + 1] ELSE x]]
           F(i, z) == IF i = 0 THEN 0 ELSE z[i - 1] + s[i]
<1>1. add \in Steps(Int)
  <2>1. \A j \in Nat, x \in Int : (IF j < n THEN x + s[j + 1] ELSE x) \in Int
    OBVIOUS
  <2> QED BY <2>1 DEF Steps
<1>2. PICK sums \in [Nat -> Int] : Iterates(sums, 0, add)
  <2> HIDE DEF add
  <2>1. 0 \in Int
    OBVIOUS
  <2> QED BY <1>1, <2>1, NatRecursion, Zenon
<1>3. sums[0] = 0 /\ \A j \in 0 .. n - 1 : sums[j + 1] = sums[j] + s[j + 1]
  <2>1. sums[0] = 0 /\ \A j \in Nat : sums[j + 1] = add[j][sums[j]]
    <3> HIDE DEF add
    <3> QED BY <1>2 DEF Iterates
  <2>2. sums[0] = 0
    BY <2>1
  <2>3. ASSUME NEW j \in 0 .. n - 1 PROVE sums[j + 1] = sums[j] + s[j + 1]
    <3>1. j \in Nat /\ j < n /\ sums[j] \in Int
      OBVIOUS
    <3>2. add[j][sums[j]] = sums[j] + s[j + 1]
      BY <3>1
    <3>3. sums[j + 1] = add[j][sums[j]]
      BY <2>1, <3>1, Zenon
    <3> QED BY <3>2, <3>3, Zenon
  <2> QED BY <2>2, <2>3
<1>4. ASSUME NEW k \in 0 .. n PROVE SumTo(s, k) = sums[k]
  <2> DEFINE h == [i \in 0 .. k |-> sums[i]]
             z == CHOOSE z : z = [i \in 0 .. k |-> F(i, z)]
  <2>1. \A i \in 0 .. k : h[i] = F(i, h)
    <3> TAKE i \in 0 .. k
    <3>1. CASE i = 0
      BY <1>3, <3>1
    <3>2. CASE i # 0
      <4>1. i - 1 \in 0 .. n - 1 /\ i - 1 \in 0 .. k /\ (i - 1) + 1 = i
        BY <3>2
      <4>2. sums[(i - 1) + 1] = sums[i - 1] + s[(i - 1) + 1]
        BY <1>3, <4>1
      <4> QED BY <3>2, <4>1, <4>2
    <3> QED BY <3>1, <3>2
  <2>2. h = [i \in 0 .. k |-> F(i, h)]
    <3>1. h = [i \in 0 .. k |-> h[i]]
      OBVIOUS
    <3> HIDE DEF F, h
    <3> QED BY <2>1, <3>1
  <2>3. z = [i \in 0 .. k |-> F(i, z)]
    <3> HIDE DEF F, h
    <3> QED BY <2>2, Zenon
  <2>4. SumTo(s, k) = z[k]
    BY Zenon DEF SumTo
  <2> HIDE DEF z
  <2> DEFINE P == {i \in Nat : i <= k => z[i] = sums[i]}
  <2>5. 0 \in P
    BY <1>3, <2>3
  <2>6. ASSUME NEW i \in Nat, i \in P PROVE i + 1 \in P
    <3> SUFFICES ASSUME i + 1 <= k PROVE z[i + 1] = sums[i + 1]
      OBVIOUS
    <3>1. i + 1 \in 0 .. k /\ (i + 1) - 1 = i /\ i + 1 # 0 /\ i \in 0 .. n - 1
      OBVIOUS
    <3>2. z[i + 1] = z[i] + s[i + 1]
      BY <2>3, <3>1
    <3> QED BY <1>3, <2>6, <3>1, <3>2
  <2>7. Nat \subseteq P
    <3> HIDE DEF P
    <3> QED BY <2>5, <2>6, NatSetInduction
  <2> QED BY <2>4, <2>7
<1> QED BY <1>3, <1>4

LEMMA SumLaw ==
  ASSUME NEW n \in Nat, NEW s \in [1 .. n -> Int]
  PROVE  /\ SumTo(s, 0) = 0 /\ \A k \in 0 .. n : SumTo(s, k) \in Int
         /\ \A k \in 0 .. n - 1 : SumTo(s, k + 1) = SumTo(s, k) + s[k + 1]
<1>1. PICK sums \in [Nat -> Int] :
        /\ sums[0] = 0 /\ \A j \in 0 .. n - 1 : sums[j + 1] = sums[j] + s[j + 1]
        /\ \A k \in 0 .. n : SumTo(s, k) = sums[k]
  BY SumIs
<1> QED BY <1>1

\* Of natural numbers: the sum is one, and positive if one of them is.
LEMMA SumPositive ==
  ASSUME NEW n \in Nat, NEW s \in [1 .. n -> Nat]
  PROVE  \A k \in 0 .. n : SumTo(s, k) \in Nat /\ (SumTo(s, k) > 0 <=> \E i \in 1 .. k : s[i] > 0)
<1> DEFINE P == {k \in Nat : k <= n => SumTo(s, k) \in Nat /\ (SumTo(s, k) > 0 <=> \E i \in 1 .. k : s[i] > 0)}
<1>0. s \in [1 .. n -> Int]
  OBVIOUS
<1>1. 0 \in P
  BY <1>0, SumLaw
<1>2. ASSUME NEW k \in Nat, k \in P PROVE k + 1 \in P
  <2> SUFFICES ASSUME k + 1 <= n
               PROVE  SumTo(s, k + 1) \in Nat /\ (SumTo(s, k + 1) > 0 <=> \E i \in 1 .. k + 1 : s[i] > 0)
    OBVIOUS
  <2>1. SumTo(s, k) \in Nat /\ (SumTo(s, k) > 0 <=> \E i \in 1 .. k : s[i] > 0)
    BY <1>2
  <2>2. SumTo(s, k + 1) = SumTo(s, k) + s[k + 1] /\ s[k + 1] \in Nat
    BY <1>0, SumLaw
  <2>3. \A i \in 1 .. k + 1 : i \in 1 .. k \/ i = k + 1
    OBVIOUS
  <2> QED BY <2>1, <2>2, <2>3
<1>3. Nat \subseteq P
  <2> HIDE DEF P
  <2> QED BY <1>1, <1>2, NatSetInduction
<1> QED BY <1>3

\* One more number, which changes no sum of those before.
LEMMA SumSame ==
  ASSUME NEW n \in Nat, NEW s \in [1 .. n -> Int], NEW m \in Nat, NEW t \in [1 .. m -> Int],
         NEW l \in 0 .. n, l <= m, \A i \in 1 .. l : s[i] = t[i]
  PROVE  SumTo(s, l) = SumTo(t, l)
<1> DEFINE P == {k \in Nat : k <= l => SumTo(s, k) = SumTo(t, k)}
<1>1. 0 \in P
  BY SumLaw
<1>2. ASSUME NEW k \in Nat, k \in P PROVE k + 1 \in P
  <2> SUFFICES ASSUME k + 1 <= l PROVE SumTo(s, k + 1) = SumTo(t, k + 1)
    OBVIOUS
  <2>1. SumTo(s, k) = SumTo(t, k) /\ s[k + 1] = t[k + 1]
    BY <1>2
  <2>2. k \in 0 .. n - 1 /\ k \in 0 .. m - 1
    OBVIOUS
  <2>3. SumTo(s, k + 1) = SumTo(s, k) + s[k + 1]
    BY <2>2, SumLaw
  <2>4. SumTo(t, k + 1) = SumTo(t, k) + t[k + 1]
    BY <2>2, SumLaw
  <2> QED BY <2>1, <2>3, <2>4
<1>3. Nat \subseteq P
  <2> HIDE DEF P
  <2> QED BY <1>1, <1>2, NatSetInduction
<1> QED BY <1>3

-----------------------------------------------------------------------------
\* The ways from node to node.
Dags == [RefNodes -> Seq(RefNodes)]
Counts == [RefNodes -> [RefNodes -> Nat]]

LEMMA WaysOverAre ==
  ASSUME NEW g \in Dags, NEW ways \in Counts, NEW n \in RefNodes, NEW c \in RefNodes
  PROVE  /\ Len(g[n]) \in Nat /\ WaysOver(g, ways, n, c) \in [1 .. Len(g[n]) -> Nat]
         /\ WaysOver(g, ways, n, c) \in [1 .. Len(g[n]) -> Int]
         /\ \A i \in 1 .. Len(g[n]) :
              /\ g[n][i] \in RefNodes
              /\ WaysOver(g, ways, n, c)[i] = (IF g[n][i] = c THEN 1 ELSE 0) + ways[g[n][i]][c]
<1>1. g[n] \in Seq(RefNodes)
  BY DEF Dags
<1>2. PICK l \in Nat : l = Len(g[n])
  BY <1>1
<1>3. \A i \in 1 .. l : g[n][i] \in RefNodes /\ ways[g[n][i]][c] \in Nat
  <2> TAKE i \in 1 .. l
  <2>1. g[n][i] \in RefNodes
    BY <1>1, <1>2, ElementOfSeq
  <2> QED BY <2>1 DEF Counts
<1>4. \A i \in 1 .. l : (IF g[n][i] = c THEN 1 ELSE 0) + ways[g[n][i]][c] \in Nat
  BY <1>3
<1> QED BY <1>2, <1>3, <1>4 DEF WaysOver

LEMMA OneFurtherIs ==
  ASSUME NEW g \in Dags, NEW ways \in Counts
  PROVE  /\ OneFurther(g, ways) \in Counts
         /\ \A n \in RefNodes, c \in RefNodes :
              OneFurther(g, ways)[n][c] = SumTo(WaysOver(g, ways, n, c), Len(g[n]))
<1>1. ASSUME NEW n \in RefNodes, NEW c \in RefNodes
      PROVE  SumTo(WaysOver(g, ways, n, c), Len(g[n])) \in Nat
  <2>1. PICK l \in Nat : l = Len(g[n]) /\ WaysOver(g, ways, n, c) \in [1 .. l -> Nat]
    BY WaysOverAre
  <2> QED BY <2>1, SumPositive
<1> QED BY <1>1 DEF OneFurther, Counts

LEMMA WaysLaw ==
  ASSUME NEW g \in Dags
  PROVE  /\ WaysFrom(g, 0) = NoWays
         /\ \A d \in Nat : WaysFrom(g, d) \in Counts /\ WaysFrom(g, d + 1) = OneFurther(g, WaysFrom(g, d))
<1> DEFINE more == [d \in Nat |-> [w \in Counts |-> OneFurther(g, w)]]
           F(d, z) == IF d = 0 THEN NoWays ELSE OneFurther(g, z[d - 1])
<1>1. NoWays \in Counts
  BY DEF NoWays, Counts
<1>2. more \in Steps(Counts)
  <2>1. \A w \in Counts : OneFurther(g, w) \in Counts
    BY OneFurtherIs
  <2> QED BY <2>1 DEF Steps
<1>3. PICK all \in [Nat -> Counts] : Iterates(all, NoWays, more)
  <2> HIDE DEF more
  <2> QED BY <1>1, <1>2, NatRecursion
<1>4. all[0] = NoWays /\ \A d \in Nat : all[d + 1] = OneFurther(g, all[d])
  <2>1. all[0] = NoWays /\ \A d \in Nat : all[d + 1] = more[d][all[d]]
    <3> HIDE DEF more
    <3> QED BY <1>3 DEF Iterates
  <2> QED BY <2>1
<1>5. ASSUME NEW k \in Nat PROVE WaysFrom(g, k) = all[k]
  <2> DEFINE h == [d \in 0 .. k |-> all[d]]
             z == CHOOSE z : z = [d \in 0 .. k |-> F(d, z)]
  <2>1. \A d \in 0 .. k : h[d] = F(d, h)
    <3> TAKE d \in 0 .. k
    <3>1. CASE d = 0
      BY <1>4, <3>1
    <3>2. CASE d # 0
      <4>1. d - 1 \in Nat /\ d - 1 \in 0 .. k /\ (d - 1) + 1 = d
        BY <3>2
      <4>2. all[(d - 1) + 1] = OneFurther(g, all[d - 1])
        BY <1>4, <4>1
      <4> QED BY <3>2, <4>1, <4>2
    <3> QED BY <3>1, <3>2
  <2>2. h = [d \in 0 .. k |-> F(d, h)]
    <3>1. h = [d \in 0 .. k |-> h[d]]
      OBVIOUS
    <3> HIDE DEF F, h
    <3> QED BY <2>1, <3>1
  <2>3. z = [d \in 0 .. k |-> F(d, z)]
    <3> HIDE DEF F, h
    <3> QED BY <2>2, Zenon
  <2>4. WaysFrom(g, k) = z[k]
    BY Zenon DEF WaysFrom
  <2> HIDE DEF z
  <2> DEFINE P == {d \in Nat : d <= k => z[d] = all[d]}
  <2>5. 0 \in P
    BY <1>4, <2>3
  <2>6. ASSUME NEW d \in Nat, d \in P PROVE d + 1 \in P
    <3> SUFFICES ASSUME d + 1 <= k PROVE z[d + 1] = all[d + 1]
      OBVIOUS
    <3>1. d + 1 \in 0 .. k /\ (d + 1) - 1 = d /\ d + 1 # 0
      OBVIOUS
    <3>2. z[d + 1] = OneFurther(g, z[d])
      BY <2>3, <3>1
    <3> QED BY <1>4, <2>6, <3>1, <3>2
  <2>7. Nat \subseteq P
    <3> HIDE DEF P
    <3> QED BY <2>5, <2>6, NatSetInduction
  <2> QED BY <2>4, <2>7
<1>6. \A d \in Nat : d + 1 \in Nat
  OBVIOUS
<1> QED BY <1>4, <1>5, <1>6

\* Whether some way of at most d links leads from n to c.
Leads(g, d, n, c) == WaysFrom(g, d)[n][c] > 0

LEMMA LeadsLaw ==
  ASSUME NEW g \in Dags
  PROVE  /\ \A n \in RefNodes, c \in RefNodes : ~Leads(g, 0, n, c)
         /\ \A d \in Nat, n \in RefNodes, c \in RefNodes :
              Leads(g, d + 1, n, c) <=> \E i \in 1 .. Len(g[n]) : g[n][i] = c \/ Leads(g, d, g[n][i], c)
<1>1. \A n \in RefNodes, c \in RefNodes : ~Leads(g, 0, n, c)
  <2>1. WaysFrom(g, 0) = NoWays
    BY WaysLaw
  <2> QED BY <2>1 DEF Leads, NoWays
<1>2. ASSUME NEW d \in Nat, NEW n \in RefNodes, NEW c \in RefNodes
      PROVE  Leads(g, d + 1, n, c) <=> \E i \in 1 .. Len(g[n]) : g[n][i] = c \/ Leads(g, d, g[n][i], c)
  <2>1. PICK ways \in Counts : ways = WaysFrom(g, d)
    BY WaysLaw
  <2>2. WaysFrom(g, d + 1)[n][c] = SumTo(WaysOver(g, ways, n, c), Len(g[n]))
    <3>1. WaysFrom(g, d + 1) = OneFurther(g, ways)
      BY <2>1, WaysLaw
    <3>2. OneFurther(g, ways)[n][c] = SumTo(WaysOver(g, ways, n, c), Len(g[n]))
      BY OneFurtherIs
    <3> QED BY <3>1, <3>2
  <2>3. PICK l \in Nat : l = Len(g[n])
    BY WaysOverAre, <2>1
  <2>4. PICK over \in [1 .. l -> Nat] : over = WaysOver(g, ways, n, c)
    BY <2>3, WaysOverAre
  <2>5. SumTo(over, l) > 0 <=> \E i \in 1 .. l : over[i] > 0
    BY SumPositive
  <2>6. \A i \in 1 .. l : g[n][i] \in RefNodes /\ over[i] = (IF g[n][i] = c THEN 1 ELSE 0) + ways[g[n][i]][c]
    BY <2>3, <2>4, WaysOverAre
  <2>7. ASSUME NEW i \in 1 .. l PROVE over[i] > 0 <=> g[n][i] = c \/ ways[g[n][i]][c] > 0
    <3>1. ways[g[n][i]][c] \in Nat
      BY <2>6 DEF Counts
    <3> QED BY <2>6, <3>1
  <2> QED BY <2>1, <2>2, <2>3, <2>4, <2>5, <2>7 DEF Leads
<1> QED BY <1>1, <1>2

\* More links lead to no less, and the links of where some lead, one further.
LEMMA LeadsFurther ==
  ASSUME NEW g \in Dags, NEW d \in Nat, NEW n \in RefNodes, NEW c \in RefNodes, Leads(g, d, n, c)
  PROVE  /\ Leads(g, d + 1, n, c)
         /\ \A i \in 1 .. Len(g[c]) : Leads(g, d + 1, n, g[c][i])
<1> DEFINE Further(k, m) == /\ Leads(g, k + 1, m, c)
                            /\ \A i \in 1 .. Len(g[c]) : Leads(g, k + 1, m, g[c][i])
           P == {k \in Nat : \A m \in RefNodes : Leads(g, k, m, c) => Further(k, m)}
<1>0. \A m \in RefNodes : \A i \in 1 .. Len(g[m]) : g[m][i] \in RefNodes
  <2> TAKE m \in RefNodes
  <2>1. g[m] \in Seq(RefNodes)
    BY DEF Dags
  <2> QED BY <2>1, ElementOfSeq
<1>1. 0 \in P
  BY LeadsLaw
<1>2. ASSUME NEW k \in Nat, k \in P PROVE k + 1 \in P
  <2> SUFFICES ASSUME NEW m \in RefNodes, Leads(g, k + 1, m, c) PROVE Further(k + 1, m)
    OBVIOUS
  <2>1. PICK j \in 1 .. Len(g[m]) : g[m][j] = c \/ Leads(g, k, g[m][j], c)
    BY LeadsLaw
  <2>2. g[m][j] \in RefNodes
    BY <1>0
  <2>3. \A x \in RefNodes : g[m][j] = x \/ Leads(g, k + 1, g[m][j], x) => Leads(g, (k + 1) + 1, m, x)
    <3>1. k + 1 \in Nat
      OBVIOUS
    <3>2. \A x \in RefNodes :
            Leads(g, (k + 1) + 1, m, x) <=> \E i \in 1 .. Len(g[m]) : g[m][i] = x \/ Leads(g, k + 1, g[m][i], x)
      BY <3>1, LeadsLaw, Zenon
    <3> QED BY <3>2, Zenon
  <2>4. CASE g[m][j] = c
    <3>1. \A i \in 1 .. Len(g[c]) : Leads(g, k + 1, c, g[c][i])
      BY <1>0, LeadsLaw
    <3> QED BY <1>0, <2>3, <2>4, <3>1
  <2>5. CASE Leads(g, k, g[m][j], c)
    <3>1. Further(k, g[m][j])
      BY <1>2, <2>2, <2>5
    <3> QED BY <1>0, <2>3, <3>1
  <2> QED BY <2>1, <2>4, <2>5
<1>3. Nat \subseteq P
  <2> HIDE DEF P
  <2> QED BY <1>1, <1>2, NatSetInduction
<1> QED BY <1>3

LEMMA LeadsWithin ==
  ASSUME NEW g \in Dags, NEW n \in RefNodes, NEW c \in RefNodes, NEW d \in Nat, Leads(g, d, n, c)
  PROVE  \A e \in Nat : d <= e => Leads(g, e, n, c)
<1> DEFINE P == {k \in Nat : d <= k => Leads(g, k, n, c)}
<1>1. 0 \in P
  BY LeadsLaw
<1>2. ASSUME NEW k \in Nat, k \in P PROVE k + 1 \in P
  <2>1. CASE d <= k
    <3>1. Leads(g, k, n, c)
      BY <1>2, <2>1
    <3> QED BY <3>1, LeadsFurther
  <2>2. CASE d = k + 1
    BY <2>2
  <2> QED BY <2>1, <2>2
<1>3. Nat \subseteq P
  <2> HIDE DEF P
  <2> QED BY <1>1, <1>2, NatSetInduction
<1> QED BY <1>3

-----------------------------------------------------------------------------
\* Where the walk is.
RefFrame == [node : RefNodes, link : Nat \ {0}, depth : Nat]
BelowNode(n) == {m \in RefNodes : m < n}
ArgsDone == Len(allArgs) - Len(refArgs)

RefsTypes ==
  /\ dag \in RefDags /\ unique \in BOOLEAN /\ maxDepth \in Int /\ missing \subseteq RefNodes
  /\ allArgs \in Seq(RefNodes) /\ refArgs \in Seq(RefNodes) /\ walk \in Seq(RefFrame)
  /\ DOMAIN seen \subseteq RefNodes /\ seen \in [DOMAIN seen -> Nat]
  /\ refsOut \in Seq(RefNodes \X RefNodes) /\ refErrors \in Nat

\* The arguments that are left are the last ones.
ArgsInOrder ==
  /\ ArgsDone \in 0 .. Len(allArgs)
  /\ \A i \in 1 .. Len(refArgs) : refArgs[i] = allArgs[ArgsDone + i]

\* No call is deeper than asked for, or than there are nodes.
FrameShallow(f) ==
  /\ f.link <= Len(dag[f.node]) + 1 /\ f.depth <= RefsDepth
  /\ maxDepth < 0 => f.depth <= Cardinality(BelowNode(f.node))
WalkShallow == \A k \in 1 .. Len(walk) : FrameShallow(walk[k])

RefsPlace == RefsTypes /\ ArgsInOrder /\ WalkShallow

LEMMA RefsDepthIs ==
  ASSUME maxDepth \in Int
  PROVE  /\ RefsDepth \in Nat /\ (maxDepth >= 0 => RefsDepth = maxDepth) /\ (maxDepth < 0 => RefsDepth = Cardinality(RefNodes))
<1>1. Cardinality(RefNodes) \in Nat
  BY RefsConstants, FS_CardinalityType
<1> QED BY <1>1 DEF RefsDepth, Longest

\* A link leads to a node that has more nodes below it.
LEMMA LinkRises ==
  ASSUME NEW n \in RefNodes, NEW c \in RefNodes, c > n
  PROVE  /\ Cardinality(BelowNode(n)) \in Nat /\ Cardinality(BelowNode(c)) \in Nat
         /\ Cardinality(BelowNode(n)) + 1 <= Cardinality(BelowNode(c))
         /\ Cardinality(BelowNode(c)) + 1 <= Cardinality(RefNodes)
<1>0. /\ RefNodes \subseteq Nat /\ IsFiniteSet(RefNodes)
      /\ BelowNode(n) \subseteq RefNodes /\ BelowNode(c) \subseteq RefNodes
  BY RefsConstants DEF BelowNode
<1>1. IsFiniteSet(BelowNode(n)) /\ IsFiniteSet(BelowNode(c))
  BY <1>0, FS_Subset
<1>2. PICK i, j, k \in Nat : i = Cardinality(BelowNode(n)) /\ j = Cardinality(BelowNode(c)) /\ k = Cardinality(RefNodes)
  BY <1>0, <1>1, FS_CardinalityType
<1>3. BelowNode(n) \subseteq BelowNode(c) /\ BelowNode(n) # BelowNode(c)
  <2>1. n \in BelowNode(c) /\ n \notin BelowNode(n)
    BY <1>0 DEF BelowNode
  <2>2. ASSUME NEW m \in BelowNode(n) PROVE m \in BelowNode(c)
    <3>1. m \in RefNodes /\ m < n /\ m \in Nat /\ n \in Nat /\ c \in Nat
      BY <1>0 DEF BelowNode
    <3> QED BY <3>1 DEF BelowNode
  <2> QED BY <2>1, <2>2
<1>4. c \notin BelowNode(c)
  BY <1>0 DEF BelowNode
<1>5. i < j
  BY <1>1, <1>2, <1>3, FS_Subset
<1>6. j < k
  <2>1. BelowNode(c) # RefNodes
    BY <1>4
  <2> QED BY <1>0, <1>2, <2>1, FS_Subset
<1> QED BY <1>2, <1>5, <1>6

\* A walk that is not empty is its top on what is below.
LEMMA TopOfWalk ==
  ASSUME NEW w \in Seq(RefFrame), w # <<>>
  PROVE  \E b \in Seq(RefFrame), f \in RefFrame :
           /\ w = Append(b, f) /\ w[Len(w)] = f /\ SubSeq(w, 1, Len(w) - 1) = b
           /\ Len(b) \in Nat /\ Len(w) = Len(b) + 1 /\ \A k \in 1 .. Len(b) : w[k] = b[k]
<1> HIDE DEF RefFrame
<1>1. PICK l \in Nat : l = Len(w) /\ l >= 1
  BY EmptySeq
<1>2. \A k \in 1 .. l : w[k] \in RefFrame
  BY <1>1, ElementOfSeq
<1> DEFINE b == SubSeq(w, 1, l - 1)
<1>3. /\ b \in Seq(RefFrame) /\ Len(b) = l - 1 /\ \A k \in 1 .. l - 1 : b[k] = w[k]
  <2>1. \A k \in 1 .. l - 1 : w[k] \in RefFrame
    BY <1>2
  <2>2. /\ b \in Seq(RefFrame) /\ Len(b) = (IF 1 <= l - 1 THEN l - 1 - 1 + 1 ELSE 0)
        /\ \A k \in 1 .. l - 1 - 1 + 1 : b[k] = w[1 + k - 1]
    BY <1>1, <2>1, SubSeqProperties
  <2> HIDE DEF b
  <2>3. \A k \in 1 .. l - 1 : k \in 1 .. l - 1 - 1 + 1 /\ 1 + k - 1 = k
    BY <1>1
  <2> QED BY <1>1, <2>2, <2>3
<1> HIDE DEF b
<1>4. w = Append(b, w[l])
  <2>1. PICK a \in Seq(RefFrame) : a = Append(b, w[l]) /\ Len(a) = l /\ a[l] = w[l] /\ \A k \in 1 .. l - 1 : a[k] = b[k]
    <3>1. w[l] \in RefFrame
      BY <1>1, <1>2
    <3> QED BY <1>1, <1>3, <3>1, AppendProperties
  <2>2. \A k \in 1 .. l : a[k] = w[k]
    <3> TAKE k \in 1 .. l
    <3>1. k = l \/ k \in 1 .. l - 1
      BY <1>1
    <3> QED BY <1>3, <2>1, <3>1
  <2> QED BY <1>1, <2>1, <2>2, SeqEqual
<1>5. w[Len(w)] = w[l] /\ SubSeq(w, 1, Len(w) - 1) = b /\ Len(b) \in Nat /\ Len(w) = Len(b) + 1
  <2>1. SubSeq(w, 1, Len(w) - 1) = b
    BY <1>1 DEF b
  <2> QED BY <1>1, <1>3, <2>1
<1>6. \A k \in 1 .. Len(b) : w[k] = b[k]
  BY <1>1, <1>3
<1>7. w[l] \in RefFrame
  BY <1>1, <1>2
<1> QED BY <1>3, <1>4, <1>5, <1>6, <1>7, Zenon

LEMMA WalkWith ==
  ASSUME NEW b \in Seq(RefFrame), NEW f \in RefFrame
  PROVE  /\ Append(b, f) \in Seq(RefFrame) /\ Len(b) \in Nat /\ Len(Append(b, f)) = Len(b) + 1
         /\ Append(b, f)[Len(b) + 1] = f /\ \A k \in 1 .. Len(b) : Append(b, f)[k] = b[k] /\ b[k] \in RefFrame
         /\ \A k \in 1 .. Len(Append(b, f)) : k = Len(b) + 1 \/ k \in 1 .. Len(b)
<1> HIDE DEF RefFrame
<1>1. Append(b, f) \in Seq(RefFrame) /\ Len(b) \in Nat /\ Len(Append(b, f)) = Len(b) + 1
  BY AppendProperties
<1>2. Append(b, f)[Len(b) + 1] = f /\ \A k \in 1 .. Len(b) : Append(b, f)[k] = b[k] /\ b[k] \in RefFrame
  BY AppendProperties, ElementOfSeq
<1> QED BY <1>1, <1>2

\* The steps of the walk: a link of the innermost call.
NextLink(f, on) == on \in RefFrame /\ on.node = f.node /\ on.link = f.link + 1 /\ on.depth = f.depth
AtLink(b, f, on, c) ==
  /\ b \in Seq(RefFrame) /\ f \in RefFrame /\ walk = Append(b, f) /\ NextLink(f, on)
  /\ f.link \in 1 .. Len(dag[f.node]) /\ c = dag[f.node][f.link] /\ c \in RefNodes /\ c > f.node
LinkPruned(b, on, c, d) == Pruned(c, d) /\ walk' = Append(b, on) /\ UNCHANGED <<seen, refsOut, refErrors>>
LinkMissing(c, d) == ~Pruned(c, d) /\ walk' = <<>> /\ seen' = RefSeen(c, d) /\ refErrors' = refErrors + 1 /\ UNCHANGED refsOut
LinkVisited(b, n, on, c, d) ==
  /\ ~Pruned(c, d) /\ c \notin missing /\ seen' = RefSeen(c, d) /\ UNCHANGED refErrors
  /\ refsOut' = IF ~unique \/ c \notin DOMAIN seen THEN Append(refsOut, <<n, c>>) ELSE refsOut
  /\ walk' = IF AtMaxDepth(d) THEN Append(b, on) ELSE Append(Append(b, on), Call(c, d))
LinkTaken(b, f, on, c) ==
  \/ LinkPruned(b, on, c, f.depth + 1)
  \/ LinkMissing(c, f.depth + 1)
  \/ LinkVisited(b, f.node, on, c, f.depth + 1)

LEMMA LinkSteps ==
  ASSUME RefsTypes, RefLink
  PROVE  /\ refArgs' = refArgs /\ RefsGiven
         /\ \E b, f, on, c : AtLink(b, f, on, c) /\ LinkTaken(b, f, on, c)
<1>1. PICK b \in Seq(RefFrame), f \in RefFrame :
        walk = Append(b, f) /\ WalkTop = f /\ WalkBelow = b
  <2>1. walk \in Seq(RefFrame) /\ walk # <<>>
    BY DEF RefsTypes, RefLink
  <2> QED BY <2>1, TopOfWalk DEF WalkTop, WalkBelow
<1>2. PICK on : on = [f EXCEPT !.link = @ + 1]
  OBVIOUS
<1>3. NextLink(f, on)
  BY <1>1, <1>2 DEF NextLink, RefFrame
<1>4. PICK n, c, d : n = f.node /\ c = dag[n][f.link] /\ d = f.depth + 1
  OBVIOUS
<1>5. f.link \in 1 .. Len(dag[n]) /\ c \in RefNodes /\ c > n
  <2>1. dag \in RefDags /\ dag \in [RefNodes -> Seq(RefNodes)] /\ n \in RefNodes
    BY <1>1, <1>4, RefsConstants DEF RefsTypes, RefFrame
  <2>2. f.link \in 1 .. Len(dag[n])
    <3>1. f.link \in Nat \ {0} /\ f.link <= Len(dag[n])
      BY <1>1, <1>4 DEF RefLink, RefFrame
    <3>2. Len(dag[n]) \in Nat
      BY <2>1
    <3> QED BY <3>1, <3>2
  <2>3. dag[n] \in Seq(RefNodes)
    BY <2>1
  <2>4. c \in RefNodes
    BY <1>4, <2>2, <2>3, ElementOfSeq
  <2>5. c > n
    BY <1>4, <2>1, <2>2, RefsConstants
  <2> QED BY <2>2, <2>4, <2>5
<1>6. AtLink(b, f, on, c)
  BY <1>1, <1>3, <1>4, <1>5 DEF AtLink
<1>7. LinkPruned(b, on, c, d) \/ LinkMissing(c, d) \/ LinkVisited(b, n, on, c, d)
  BY <1>1, <1>2, <1>4 DEF RefLink, RefVisit, LinkPruned, LinkMissing, LinkVisited, RefArgumentFails, GetSucceeds
<1> QED BY <1>4, <1>6, <1>7 DEF RefLink, LinkTaken

-----------------------------------------------------------------------------
\* The walk stays within what was asked for.
LEMMA ArgTaken ==
  ASSUME RefsTypes, ArgsInOrder, WriteRefs
  PROVE  /\ Head(refArgs) \in RefNodes /\ Head(refArgs) = allArgs[ArgsDone + 1]
         /\ ArgsDone + 1 \in 1 .. Len(allArgs) /\ ArgsDone' = ArgsDone + 1
         /\ refArgs' \in Seq(RefNodes) /\ ArgsInOrder'
<1>1. refArgs \in Seq(RefNodes) /\ refArgs # <<>> /\ refArgs' = Tail(refArgs) /\ allArgs' = allArgs
  BY DEF RefsTypes, WriteRefs, RefsGiven
<1>2. PICK l \in Nat : l = Len(refArgs) /\ l >= 1
  BY <1>1, EmptySeq
<1>3. PICK a \in Nat : a = Len(allArgs)
  BY SMTT(30) DEF RefsTypes
<1>4. /\ Head(refArgs) \in RefNodes /\ Head(refArgs) = refArgs[1]
      /\ Tail(refArgs) \in Seq(RefNodes) /\ Len(Tail(refArgs)) = l - 1
      /\ \A i \in 1 .. l - 1 : Tail(refArgs)[i] = refArgs[i + 1]
  <2>1. \A i \in 1 .. l : refArgs[i] \in RefNodes
    BY <1>1, <1>2, ElementOfSeq
  <2> QED BY <1>1, <1>2, <2>1, HeadTailProperties
<1>5. \A i \in 1 .. l : refArgs[i] = allArgs[a - l + i]
  BY <1>2, <1>3 DEF ArgsInOrder, ArgsDone
<1>6. a - l \in 0 .. a
  BY <1>2, <1>3 DEF ArgsInOrder, ArgsDone
<1>7. ArgsDone = a - l /\ ArgsDone' = a - (l - 1)
  BY <1>1, <1>2, <1>3, <1>4 DEF ArgsDone
<1>8. \A i \in 1 .. l - 1 : Tail(refArgs)[i] = allArgs[a - (l - 1) + i]
  <2> TAKE i \in 1 .. l - 1
  <2>1. i + 1 \in 1 .. l /\ a - l + (i + 1) = a - (l - 1) + i
    BY <1>2, <1>3
  <2> QED BY <1>4, <1>5, <2>1
<1>9. ArgsInOrder'
  BY <1>1, <1>2, <1>3, <1>4, <1>6, <1>7, <1>8 DEF ArgsInOrder
<1>10. Head(refArgs) = allArgs[ArgsDone + 1] /\ ArgsDone + 1 \in 1 .. a /\ ArgsDone' = ArgsDone + 1
  <2>1. refArgs[1] = allArgs[a - l + 1]
    BY <1>2, <1>5
  <2> QED BY <1>2, <1>3, <1>4, <1>6, <1>7, <2>1
<1> QED BY <1>1, <1>3, <1>4, <1>9, <1>10

LEMMA CallIs ==
  ASSUME NEW n \in RefNodes, NEW d \in Nat
  PROVE  Call(n, d) \in RefFrame /\ Call(n, d).node = n /\ Call(n, d).link = 1 /\ Call(n, d).depth = d
BY DEF Call, RefFrame

LEMMA GivenStays ==
  ASSUME RefsGiven
  PROVE  /\ RefsDepth' = RefsDepth /\ dag' = dag /\ unique' = unique /\ maxDepth' = maxDepth
         /\ missing' = missing /\ allArgs' = allArgs
<1>1. dag' = dag /\ unique' = unique /\ maxDepth' = maxDepth /\ missing' = missing /\ allArgs' = allArgs
  BY DEF RefsGiven
<1>2. RefsDepth' = RefsDepth
  BY <1>1 DEF RefsDepth
<1> QED BY <1>1, <1>2

LEMMA DagIs ==
  ASSUME RefsTypes
  PROVE  /\ dag \in Dags /\ \A n \in RefNodes : /\ dag[n] \in Seq(RefNodes) /\ Len(dag[n]) \in Nat
                                               /\ \A i \in 1 .. Len(dag[n]) : dag[n][i] \in RefNodes
<1>1. dag \in [RefNodes -> Seq(RefNodes)]
  BY RefsConstants DEF RefsTypes
<1>2. \A n \in RefNodes : /\ dag[n] \in Seq(RefNodes) /\ Len(dag[n]) \in Nat
                           /\ \A i \in 1 .. Len(dag[n]) : dag[n][i] \in RefNodes
  <2> TAKE n \in RefNodes
  <2>1. dag[n] \in Seq(RefNodes)
    BY <1>1
  <2> QED BY <2>1, ElementOfSeq
<1> QED BY <1>1, <1>2 DEF Dags

\* What the link of a call that fits leads to fits too, unless it is over the depth.
LEMMA LinkFits ==
  ASSUME RefsTypes, NEW f \in RefFrame, FrameShallow(f), f.link \in 1 .. Len(dag[f.node]),
         NEW on, NextLink(f, on), NEW c \in RefNodes, c > f.node
  PROVE  /\ FrameShallow(on)
         /\ OverMaxDepth(f.depth + 1) => f.depth = RefsDepth
         /\ ~OverMaxDepth(f.depth + 1) => f.depth + 1 \in 1 .. RefsDepth /\ FrameShallow(Call(c, f.depth + 1))
<1>1. f.depth \in Nat /\ f.node \in RefNodes /\ f.link \in Nat
  BY DEF RefFrame
<1>2. /\ RefsDepth \in Nat /\ maxDepth \in Int /\ (maxDepth >= 0 => RefsDepth = maxDepth)
      /\ (maxDepth < 0 => RefsDepth = Cardinality(RefNodes))
  BY RefsDepthIs DEF RefsTypes
<1>3. Len(dag[f.node]) \in Nat /\ Len(dag[c]) \in Nat
  BY <1>1, DagIs
<1>4. FrameShallow(on)
  BY <1>1, <1>3 DEF FrameShallow, NextLink
<1>5. ASSUME OverMaxDepth(f.depth + 1) PROVE f.depth = RefsDepth
  BY <1>1, <1>2, <1>5 DEF OverMaxDepth, FrameShallow
<1>6. PICK i, j, k \in Nat : /\ i = Cardinality(BelowNode(f.node)) /\ j = Cardinality(BelowNode(c)) /\ k = Cardinality(RefNodes)
                             /\ i + 1 <= j /\ j + 1 <= k
  <2>1. Cardinality(RefNodes) \in Nat
    BY RefsConstants, FS_CardinalityType
  <2> QED BY <1>1, <2>1, LinkRises
<1>7. ASSUME ~OverMaxDepth(f.depth + 1)
      PROVE  f.depth + 1 \in 1 .. RefsDepth /\ FrameShallow(Call(c, f.depth + 1))
  <2>0. /\ Call(c, f.depth + 1).node = c /\ Call(c, f.depth + 1).link = 1
        /\ Call(c, f.depth + 1).depth = f.depth + 1
    BY <1>1, CallIs
  <2>1. CASE maxDepth >= 0
    <3>1. f.depth + 1 <= RefsDepth
      BY <1>1, <1>2, <1>7, <2>1 DEF OverMaxDepth
    <3> QED BY <1>1, <1>2, <1>3, <2>0, <2>1, <3>1 DEF FrameShallow
  <2>2. CASE maxDepth < 0
    <3>1. f.depth <= i /\ RefsDepth = k
      BY <1>2, <1>6, <2>2 DEF FrameShallow
    <3>2. f.depth + 1 <= j /\ f.depth + 1 <= RefsDepth
      BY <1>1, <1>6, <3>1
    <3> QED BY <1>1, <1>2, <1>3, <1>6, <2>0, <2>2, <3>2, SMTT(30) DEF FrameShallow
  <2> QED BY <1>2, <2>1, <2>2
<1> QED BY <1>4, <1>5, <1>7

LEMMA PlaceInit == RefsInit => RefsPlace
<1> SUFFICES ASSUME RefsInit PROVE RefsPlace
  OBVIOUS
<1>1. allArgs \in Seq(RefNodes) /\ refArgs = allArgs /\ walk = <<>> /\ refsOut = <<>> /\ refErrors = 0
  BY RefsConstants DEF RefsInit
<1>2. maxDepth \in Int /\ missing \subseteq RefNodes /\ dag \in RefDags /\ unique \in BOOLEAN
  BY RefsConstants DEF RefsInit, RefsRun
<1>3. DOMAIN seen \subseteq RefNodes /\ seen \in [DOMAIN seen -> Nat]
  BY DEF RefsInit
<1>4. RefsTypes
  <2>1. walk \in Seq(RefFrame) /\ refsOut \in Seq(RefNodes \X RefNodes)
    BY <1>1, EmptySeq
  <2> QED BY <1>1, <1>2, <1>3, <2>1 DEF RefsTypes
<1>5. ArgsInOrder
  <2>1. PICK a \in Nat : a = Len(allArgs)
    BY <1>1
  <2>2. ArgsDone = 0
    BY <1>1, <2>1 DEF ArgsDone
  <2> QED BY <1>1, <2>1, <2>2 DEF ArgsInOrder
<1>6. WalkShallow
  BY <1>1 DEF WalkShallow
<1> QED BY <1>4, <1>5, <1>6 DEF RefsPlace

\* A walk whose innermost call is exchanged, or gets one more, stays shallow.
LEMMA ShallowWith ==
  ASSUME NEW b \in Seq(RefFrame), NEW f \in RefFrame, RefsGiven,
         \A k \in 1 .. Len(b) : FrameShallow(b[k]), FrameShallow(f), walk' = Append(b, f)
  PROVE  walk' \in Seq(RefFrame) /\ WalkShallow'
<1>2. \A k \in 1 .. Len(walk') : FrameShallow(walk'[k])
  <2> TAKE k \in 1 .. Len(walk')
  <2>1. k = Len(b) + 1 \/ k \in 1 .. Len(b)
    BY WalkWith
  <2> QED BY <2>1, WalkWith
<1>3. WalkShallow'
  BY <1>2, GivenStays DEF WalkShallow, FrameShallow
<1> QED BY <1>3, WalkWith

LEMMA ArgPlace ==
  ASSUME RefsPlace, WriteRefs
  PROVE  RefsPlace'
<1>0. RefsTypes /\ ArgsInOrder /\ RefsGiven /\ UNCHANGED <<seen, refsOut>>
  BY DEF RefsPlace, WriteRefs
<1>1. Head(refArgs) \in RefNodes /\ refArgs' \in Seq(RefNodes) /\ ArgsInOrder'
  BY <1>0, ArgTaken
<1>2. walk' \in Seq(RefFrame) /\ WalkShallow' /\ refErrors' \in Nat
  <2>1. refErrors \in Nat
    BY <1>0 DEF RefsTypes
  <2>2. CASE Head(refArgs) \in missing
    <3>1. walk' = <<>> /\ refErrors' = refErrors + 1
      BY <2>2 DEF WriteRefs, RefArgumentFails
    <3> QED BY <2>1, <3>1, EmptySeq DEF WalkShallow
  <2>3. CASE Head(refArgs) \notin missing
    <3>1. PICK f : f = Call(Head(refArgs), 0)
      OBVIOUS
    <3>2. walk' = <<f>> /\ refErrors' = refErrors
      BY <2>3, <3>1 DEF WriteRefs
    <3>3. f \in RefFrame /\ f.node = Head(refArgs) /\ f.link = 1 /\ f.depth = 0
      BY <1>1, <3>1, CallIs
    <3>4. FrameShallow(f)
      <4>1. RefsDepth \in Nat
        BY <1>0, RefsDepthIs DEF RefsTypes
      <4>2. Len(dag[Head(refArgs)]) \in Nat
        BY <1>0, <1>1, DagIs
      <4>3. Cardinality(BelowNode(Head(refArgs))) \in Nat
        BY RefsConstants, FS_Subset, FS_CardinalityType DEF BelowNode
      <4> QED BY <3>3, <4>1, <4>2, <4>3 DEF FrameShallow
    <3>5. walk' = Append(<<>>, f) /\ <<>> \in Seq(RefFrame) /\ Len(<<>>) = 0
      BY <3>2, EmptySeq
    <3>6. \A k \in 1 .. Len(<<>>) : FrameShallow(<<>>[k])
      BY <3>5
    <3>7. walk' \in Seq(RefFrame) /\ WalkShallow'
      BY <1>0, <3>3, <3>4, <3>5, <3>6, ShallowWith
    <3> QED BY <2>1, <3>2, <3>7
  <2> QED BY <2>2, <2>3
<1>3. RefsTypes'
  BY <1>0, <1>1, <1>2 DEF RefsTypes, RefsGiven
<1> QED BY <1>1, <1>2, <1>3 DEF RefsPlace

LEMMA SeenIs ==
  ASSUME RefsTypes, NEW c \in RefNodes, NEW d \in Nat, seen' = RefSeen(c, d)
  PROVE  /\ DOMAIN seen' \subseteq RefNodes /\ seen' \in [DOMAIN seen' -> Nat]
         /\ unique => /\ DOMAIN seen' = DOMAIN seen \union {c} /\ seen'[c] = d
                      /\ \A x \in DOMAIN seen : x # c => seen'[x] = seen[x]
<1>1. DOMAIN seen \subseteq RefNodes /\ seen \in [DOMAIN seen -> Nat]
  BY DEF RefsTypes
<1>2. CASE unique
  <2>1. PICK X : X = DOMAIN seen
    OBVIOUS
  <2>2. seen' = [x \in X \union {c} |-> IF x = c THEN d ELSE seen[x]]
    BY <1>2, <2>1 DEF RefSeen
  <2>3. \A x \in X \union {c} : (IF x = c THEN d ELSE seen[x]) \in Nat
    BY <1>1, <2>1
  <2> QED BY <1>1, <2>1, <2>2, <2>3
<1>3. CASE ~unique
  BY <1>1, <1>3 DEF RefSeen
<1> QED BY <1>2, <1>3

LEMMA LinkPlace ==
  ASSUME RefsPlace, RefsGiven, refArgs' = refArgs, NEW b, NEW f, NEW on, NEW c, AtLink(b, f, on, c), LinkTaken(b, f, on, c)
  PROVE  RefsPlace'
<1>0. RefsTypes /\ ArgsInOrder /\ WalkShallow
  BY DEF RefsPlace
<1>1. b \in Seq(RefFrame) /\ f \in RefFrame /\ on \in RefFrame /\ c \in RefNodes /\ walk = Append(b, f)
  BY DEF AtLink, NextLink
<1>2. FrameShallow(f) /\ \A k \in 1 .. Len(b) : FrameShallow(b[k])
  <2>1. \A k \in 1 .. Len(b) + 1 : FrameShallow(walk[k])
    BY <1>0, <1>1, WalkWith DEF WalkShallow
  <2>2. Len(b) \in Nat /\ walk[Len(b) + 1] = f /\ \A k \in 1 .. Len(b) : walk[k] = b[k]
    BY <1>1, WalkWith
  <2> QED BY <2>1, <2>2
<1>3. PICK d : d = f.depth + 1
  OBVIOUS
<1>4. d \in Nat /\ f.node \in RefNodes
  BY <1>1, <1>3 DEF RefFrame
<1>5. FrameShallow(on) /\ (~OverMaxDepth(d) => d \in 1 .. RefsDepth /\ FrameShallow(Call(c, d)))
  BY <1>0, <1>1, <1>2, <1>3, LinkFits DEF AtLink
<1>6. /\ walk' \in Seq(RefFrame) /\ WalkShallow'
      /\ DOMAIN seen' \subseteq RefNodes /\ seen' \in [DOMAIN seen' -> Nat]
      /\ refsOut' \in Seq(RefNodes \X RefNodes) /\ refErrors' \in Nat
  <2>1. CASE LinkPruned(b, on, c, d)
    BY <1>0, <1>1, <1>2, <1>5, <2>1, ShallowWith DEF LinkPruned, RefsTypes
  <2>2. CASE LinkMissing(c, d)
    <3>1. walk' = <<>> /\ refErrors' = refErrors + 1 /\ refErrors \in Nat /\ refsOut' = refsOut /\ seen' = RefSeen(c, d)
      BY <1>0, <2>2 DEF LinkMissing, RefsTypes
    <3>2. walk' \in Seq(RefFrame) /\ WalkShallow'
      BY <3>1, EmptySeq DEF WalkShallow
    <3>3. DOMAIN seen' \subseteq RefNodes /\ seen' \in [DOMAIN seen' -> Nat]
      BY <1>0, <1>1, <1>4, <3>1, SeenIs
    <3> QED BY <1>0, <3>1, <3>2, <3>3 DEF RefsTypes
  <2>3. CASE LinkVisited(b, f.node, on, c, d)
    <3>1. DOMAIN seen' \subseteq RefNodes /\ seen' \in [DOMAIN seen' -> Nat]
      <4>1. seen' = RefSeen(c, d)
        BY <2>3 DEF LinkVisited
      <4> QED BY <1>0, <1>1, <1>4, <4>1, SeenIs
    <3>2. refsOut' \in Seq(RefNodes \X RefNodes) /\ refErrors' \in Nat
      <4>1. <<f.node, c>> \in RefNodes \X RefNodes /\ refsOut \in Seq(RefNodes \X RefNodes)
        BY <1>0, <1>1, <1>4 DEF RefsTypes
      <4>2. Append(refsOut, <<f.node, c>>) \in Seq(RefNodes \X RefNodes)
        BY <4>1, AppendProperties
      <4> QED BY <1>0, <2>3, <4>1, <4>2 DEF LinkVisited, RefsTypes
    <3>3. walk' \in Seq(RefFrame) /\ WalkShallow'
      <4>1. CASE AtMaxDepth(d)
        <5>1. walk' = Append(b, on)
          BY <2>3, <4>1 DEF LinkVisited
        <5> QED BY <1>1, <1>2, <1>5, <5>1, ShallowWith
      <4>2. CASE ~AtMaxDepth(d)
        <5>1. PICK a \in Seq(RefFrame) : a = Append(b, on) /\ \A k \in 1 .. Len(a) : FrameShallow(a[k])
          <6>1. \A k \in 1 .. Len(Append(b, on)) : FrameShallow(Append(b, on)[k])
            <7> TAKE k \in 1 .. Len(Append(b, on))
            <7>1. k = Len(b) + 1 \/ k \in 1 .. Len(b)
              BY <1>1, WalkWith
            <7> QED BY <1>1, <1>2, <1>5, <7>1, WalkWith
          <6> QED BY <1>1, <6>1, WalkWith
        <5>2. PICK e \in RefFrame : e = Call(c, d)
          BY <1>1, <1>4, CallIs
        <5>3. walk' = Append(a, e)
          BY <2>3, <4>2, <5>1, <5>2 DEF LinkVisited
        <5>4. FrameShallow(e)
          <6>1. ~OverMaxDepth(d)
            BY <2>3 DEF LinkVisited, Pruned
          <6> QED BY <1>5, <5>2, <6>1
        <5> QED BY <5>1, <5>3, <5>4, ShallowWith
      <4> QED BY <4>1, <4>2
    <3> QED BY <3>1, <3>2, <3>3
  <2> QED BY <1>3, <2>1, <2>2, <2>3 DEF LinkTaken
<1>7. RefsTypes'
  BY <1>0, <1>6 DEF RefsTypes, RefsGiven
<1>8. ArgsInOrder'
  BY <1>0 DEF ArgsInOrder, ArgsDone, RefsGiven
<1> QED BY <1>6, <1>7, <1>8 DEF RefsPlace

LEMMA ReturnIs ==
  ASSUME RefsTypes, RefReturn
  PROVE  /\ RefsGiven /\ UNCHANGED <<refArgs, seen, refsOut, refErrors>>
         /\ \E b \in Seq(RefFrame), f \in RefFrame : walk = Append(b, f) /\ walk' = b /\ f.link > Len(dag[f.node])
<1>1. PICK b \in Seq(RefFrame), f \in RefFrame :
        walk = Append(b, f) /\ WalkTop = f /\ WalkBelow = b
  <2>1. walk \in Seq(RefFrame) /\ walk # <<>>
    BY DEF RefsTypes, RefReturn
  <2> QED BY <2>1, TopOfWalk DEF WalkTop, WalkBelow
<1>2. walk' = b /\ f.link > Len(dag[f.node])
  BY <1>1 DEF RefReturn
<1> QED BY <1>1, <1>2 DEF RefReturn

LEMMA ReturnPlace ==
  ASSUME RefsPlace, RefReturn
  PROVE  RefsPlace'
<1>0. RefsTypes /\ ArgsInOrder /\ WalkShallow
  BY DEF RefsPlace
<1>1. RefsGiven /\ UNCHANGED <<refArgs, seen, refsOut, refErrors>>
  BY <1>0, ReturnIs
<1>2. PICK b \in Seq(RefFrame), f \in RefFrame : walk = Append(b, f) /\ walk' = b
  BY <1>0, ReturnIs
<1>3. WalkShallow'
  <2>1. \A k \in 1 .. Len(b) : FrameShallow(b[k])
    <3> TAKE k \in 1 .. Len(b)
    <3>1. walk[k] = b[k] /\ k \in 1 .. Len(walk)
      BY <1>2, WalkWith
    <3> QED BY <1>0, <3>1 DEF WalkShallow
  <2> QED BY <1>1, <1>2, <2>1, GivenStays DEF WalkShallow, FrameShallow
<1>4. RefsTypes'
  BY <1>0, <1>1, <1>2 DEF RefsTypes, RefsGiven
<1>5. ArgsInOrder'
  BY <1>0, <1>1 DEF ArgsInOrder, ArgsDone, RefsGiven
<1> QED BY <1>3, <1>4, <1>5 DEF RefsPlace

LEMMA PlaceStep == RefsPlace /\ RefsNext => RefsPlace'
<1> SUFFICES ASSUME RefsPlace, RefsNext PROVE RefsPlace'
  OBVIOUS
<1>1. CASE WriteRefs
  BY <1>1, ArgPlace
<1>2. CASE RefLink
  <2>1. RefsTypes
    BY DEF RefsPlace
  <2>2. PICK b, f, on, c : AtLink(b, f, on, c) /\ LinkTaken(b, f, on, c)
    BY <1>2, <2>1, LinkSteps
  <2> QED BY <1>2, <2>1, <2>2, LinkSteps, LinkPlace
<1>3. CASE RefReturn
  BY <1>3, ReturnPlace
<1> QED BY <1>1, <1>2, <1>3 DEF RefsNext

-----------------------------------------------------------------------------
\* Without --unique: what was emitted, and what the calls still have to emit.
LeftOf(g, depth, c, f) ==
  IF f.depth = depth THEN 0
  ELSE LET over == WaysOver(g, WaysFrom(g, depth - f.depth - 1), f.node, c)
       IN SumTo(over, Len(g[f.node])) - SumTo(over, f.link - 1)
LeftOfEach(g, depth, c, w) == [k \in 1 .. Len(w) |-> LeftOf(g, depth, c, w[k])]
WalkLeft(g, depth, c, w) == SumTo(LeftOfEach(g, depth, c, w), Len(w))

\* A call that fits a depth.
Fits(g, depth, f) == f \in RefFrame /\ f.link \in 1 .. Len(g[f.node]) + 1 /\ f.depth \in 0 .. depth

LEMMA LeftIs ==
  ASSUME NEW g \in Dags, NEW depth \in Nat, NEW c \in RefNodes, NEW f, Fits(g, depth, f)
  PROVE  /\ LeftOf(g, depth, c, f) \in Int
         /\ f.link = Len(g[f.node]) + 1 => LeftOf(g, depth, c, f) = 0
         /\ f.depth = depth => LeftOf(g, depth, c, f) = 0
<1>1. PICK n \in RefNodes, l \in Nat, d \in 0 .. depth : n = f.node /\ l = f.link /\ d = f.depth
  BY DEF Fits, RefFrame
<1>2. CASE d = depth
  BY <1>1, <1>2 DEF LeftOf
<1>3. CASE d # depth
  <2>1. depth - d - 1 \in Nat
    BY <1>1, <1>3
  <2>2. PICK ways \in Counts : ways = WaysFrom(g, depth - d - 1)
    BY <2>1, WaysLaw
  <2>3. PICK m \in Nat : m = Len(g[n]) /\ l \in 1 .. m + 1
    BY <1>1, <2>2, WaysOverAre DEF Fits
  <2>4. PICK over \in [1 .. m -> Int] : over = WaysOver(g, ways, n, c)
    BY <2>3, WaysOverAre
  <2>5. LeftOf(g, depth, c, f) = SumTo(over, m) - SumTo(over, l - 1)
    BY <1>1, <1>3, <2>2, <2>3, <2>4 DEF LeftOf
  <2>6. SumTo(over, m) \in Int /\ SumTo(over, l - 1) \in Int
    <3>1. m \in 0 .. m /\ l - 1 \in 0 .. m
      BY <2>3
    <3> QED BY <3>1, SumLaw
  <2>7. l = m + 1 => SumTo(over, l - 1) = SumTo(over, m)
    <3>1. l = m + 1 => l - 1 = m
      OBVIOUS
    <3> QED BY <3>1, Zenon
  <2>8. f.depth # depth /\ Len(g[f.node]) = m
    BY <1>1, <1>3, <2>3
  <2> QED BY <1>1, <2>5, <2>6, <2>7, <2>8
<1> QED BY <1>2, <1>3

\* A link that is taken counts as itself and the ways from where it leads.
LEMMA LeftAtLink ==
  ASSUME NEW g \in Dags, NEW depth \in Nat, NEW c \in RefNodes, NEW f, Fits(g, depth, f), f.link <= Len(g[f.node]),
         f.depth # depth, NEW on, on \in RefFrame, NextLink(f, on), NEW to, to = g[f.node][f.link]
  PROVE  LeftOf(g, depth, c, f)
           = (IF to = c THEN 1 ELSE 0) + WaysFrom(g, depth - (f.depth + 1))[to][c] + LeftOf(g, depth, c, on)
<1>1. PICK n \in RefNodes, l \in Nat, d \in 0 .. depth : n = f.node /\ l = f.link /\ d = f.depth
  BY DEF Fits, RefFrame
<1>2. on.node = n /\ on.link = l + 1 /\ on.depth = d
  BY <1>1 DEF NextLink
<1>3. depth - d - 1 \in Nat /\ depth - (d + 1) = depth - d - 1
  BY <1>1
<1>4. PICK ways \in Counts : ways = WaysFrom(g, depth - d - 1)
  BY <1>3, WaysLaw
<1>5. PICK m \in Nat : m = Len(g[n]) /\ l \in 1 .. m
  BY <1>1, <1>4, WaysOverAre DEF Fits
<1>6. PICK over \in [1 .. m -> Int] : over = WaysOver(g, ways, n, c)
  BY <1>5, WaysOverAre
<1>7. LeftOf(g, depth, c, f) = SumTo(over, m) - SumTo(over, l - 1)
  BY <1>1, <1>4, <1>5, <1>6 DEF LeftOf
<1>8. LeftOf(g, depth, c, on) = SumTo(over, m) - SumTo(over, l)
  <2>1. on.depth # depth /\ (l + 1) - 1 = l
    BY <1>1, <1>2
  <2> QED BY <1>2, <1>4, <1>5, <1>6, <2>1 DEF LeftOf
<1>9. SumTo(over, l) = SumTo(over, l - 1) + over[l]
  <2>1. l - 1 \in 0 .. m - 1 /\ (l - 1) + 1 = l
    BY <1>5
  <2> QED BY <2>1, SumLaw
<1>10. over[l] = (IF to = c THEN 1 ELSE 0) + ways[to][c]
  BY <1>1, <1>5, <1>6, WaysOverAre
<1>11. SumTo(over, m) \in Int /\ SumTo(over, l) \in Int /\ SumTo(over, l - 1) \in Int /\ over[l] \in Int
  <2>1. m \in 0 .. m /\ l \in 0 .. m /\ l - 1 \in 0 .. m
    BY <1>5
  <2> QED BY <1>5, <2>1, SumLaw
<1>12. LeftOf(g, depth, c, f) = over[l] + LeftOf(g, depth, c, on)
  BY <1>7, <1>8, <1>9, <1>11
<1> QED BY <1>1, <1>3, <1>4, <1>10, <1>12

\* A call that begins has all ways before it.
LEMMA LeftOfCall ==
  ASSUME NEW g \in Dags, NEW depth \in Nat, NEW c \in RefNodes, NEW n \in RefNodes, NEW d \in 0 .. depth
  PROVE  /\ Fits(g, depth, Call(n, d))
         /\ LeftOf(g, depth, c, Call(n, d)) = WaysFrom(g, depth - d)[n][c]
<1>1. PICK f \in RefFrame : f = Call(n, d) /\ f.node = n /\ f.link = 1 /\ f.depth = d
  BY CallIs
<1>2. PICK m \in Nat : m = Len(g[n])
  BY DEF Dags
<1>3. Fits(g, depth, f)
  BY <1>1, <1>2 DEF Fits
<1>4. LeftOf(g, depth, c, f) = WaysFrom(g, depth - d)[n][c]
  <2>1. CASE d = depth
    <3>1. depth - d = 0
      BY <2>1
    <3>2. WaysFrom(g, depth - d)[n][c] = 0
      BY <3>1, WaysLaw DEF NoWays
    <3> QED BY <1>1, <2>1, <3>2 DEF LeftOf
  <2>2. CASE d # depth
    <3>1. depth - d - 1 \in Nat /\ (depth - d - 1) + 1 = depth - d /\ f.link - 1 = 0
      BY <1>1, <2>2
    <3>2. PICK ways \in Counts : ways = WaysFrom(g, depth - d - 1)
      BY <3>1, WaysLaw
    <3>3. PICK over \in [1 .. m -> Int] : over = WaysOver(g, ways, n, c)
      BY <1>2, <3>2, WaysOverAre
    <3>4. LeftOf(g, depth, c, f) = SumTo(over, m) - SumTo(over, 0)
      BY <1>1, <1>2, <2>2, <3>1, <3>2, <3>3 DEF LeftOf
    <3>5. SumTo(over, 0) = 0 /\ SumTo(over, m) \in Int
      BY SumLaw
    <3>6. WaysFrom(g, depth - d)[n][c] = SumTo(over, m)
      <4>1. WaysFrom(g, depth - d) = OneFurther(g, ways)
        BY <3>1, <3>2, WaysLaw
      <4> QED BY <1>2, <3>3, <4>1, OneFurtherIs
    <3> QED BY <3>4, <3>5, <3>6
  <2> QED BY <2>1, <2>2
<1> QED BY <1>1, <1>3, <1>4

LEMMA WalkLeftLaw ==
  ASSUME NEW g \in Dags, NEW depth \in Nat, NEW c \in RefNodes
  PROVE  /\ WalkLeft(g, depth, c, <<>>) = 0
         /\ \A b \in Seq(RefFrame), f \in RefFrame :
              Fits(g, depth, f) /\ (\A k \in 1 .. Len(b) : Fits(g, depth, b[k])) =>
                /\ WalkLeft(g, depth, c, b) \in Int
                /\ WalkLeft(g, depth, c, Append(b, f)) = WalkLeft(g, depth, c, b) + LeftOf(g, depth, c, f)
<1>1. WalkLeft(g, depth, c, <<>>) = 0
  <2>1. PICK w : w = LeftOfEach(g, depth, c, <<>>)
    OBVIOUS
  <2>2. w \in [1 .. 0 -> Int]
    BY <2>1 DEF LeftOfEach
  <2>3. SumTo(w, 0) = 0
    BY <2>2, SumLaw
  <2> QED BY <2>1, <2>3 DEF WalkLeft
<1>2. ASSUME NEW b \in Seq(RefFrame), NEW f \in RefFrame,
             Fits(g, depth, f), \A k \in 1 .. Len(b) : Fits(g, depth, b[k])
      PROVE  /\ WalkLeft(g, depth, c, b) \in Int
             /\ WalkLeft(g, depth, c, Append(b, f)) = WalkLeft(g, depth, c, b) + LeftOf(g, depth, c, f)
  <2>1. PICK l \in Nat : l = Len(b)
    BY WalkWith
  <2>2. PICK a : a = Append(b, f) /\ Len(a) = l + 1 /\ a[l + 1] = f /\ \A k \in 1 .. l : a[k] = b[k]
    <3>1. Len(Append(b, f)) = l + 1 /\ Append(b, f)[l + 1] = f /\ \A k \in 1 .. l : Append(b, f)[k] = b[k]
      BY <2>1, WalkWith
    <3> QED BY <3>1, Zenon
  <2>3. PICK s : s = LeftOfEach(g, depth, c, b)
    OBVIOUS
  <2>4. PICK t : t = LeftOfEach(g, depth, c, a)
    OBVIOUS
  <2>5. s \in [1 .. l -> Int] /\ \A k \in 1 .. l : s[k] = LeftOf(g, depth, c, b[k])
    <3>1. \A k \in 1 .. l : LeftOf(g, depth, c, b[k]) \in Int
      BY <1>2, <2>1, LeftIs
    <3> QED BY <2>1, <2>3, <3>1 DEF LeftOfEach
  <2>6. t \in [1 .. l + 1 -> Int] /\ t[l + 1] = LeftOf(g, depth, c, f) /\ \A k \in 1 .. l : t[k] = LeftOf(g, depth, c, b[k])
    <3>1. \A k \in 1 .. l + 1 : LeftOf(g, depth, c, a[k]) \in Int
      <4> TAKE k \in 1 .. l + 1
      <4>1. k = l + 1 \/ k \in 1 .. l
        BY <2>1
      <4>2. Fits(g, depth, a[k])
        BY <1>2, <2>1, <2>2, <4>1
      <4> QED BY <4>2, LeftIs
    <3>2. t = [k \in 1 .. l + 1 |-> LeftOf(g, depth, c, a[k])]
      BY <2>2, <2>4 DEF LeftOfEach
    <3>3. l + 1 \in 1 .. l + 1 /\ \A k \in 1 .. l : k \in 1 .. l + 1
      BY <2>1
    <3> QED BY <2>2, <3>1, <3>2, <3>3
  <2>7. SumTo(s, l) = SumTo(t, l)
    <3>1. l \in 0 .. l /\ l <= l + 1 /\ l + 1 \in Nat /\ \A k \in 1 .. l : s[k] = t[k]
      BY <2>1, <2>5, <2>6
    <3> QED BY <2>5, <2>6, <3>1, SumSame
  <2>8. SumTo(t, l + 1) = SumTo(t, l) + t[l + 1] /\ SumTo(s, l) \in Int
    <3>1. l \in 0 .. l /\ l \in 0 .. (l + 1) - 1 /\ l + 1 \in Nat
      BY <2>1
    <3>2. SumTo(t, l + 1) = SumTo(t, l) + t[l + 1]
      BY <2>6, <3>1, SumLaw
    <3>3. SumTo(s, l) \in Int
      BY <2>5, <3>1, SumLaw
    <3> QED BY <3>2, <3>3
  <2>9. WalkLeft(g, depth, c, b) = SumTo(s, l) /\ WalkLeft(g, depth, c, a) = SumTo(t, l + 1)
    BY <2>1, <2>2, <2>3, <2>4 DEF WalkLeft
  <2> QED BY <2>2, <2>6, <2>7, <2>8, <2>9
<1> QED BY <1>1, <1>2

\* How often a list of refs names a node.
TimesIn(s, c) == Cardinality({i \in 1 .. Len(s) : s[i][2] = c})

LEMMA TimesLaw ==
  ASSUME NEW c
  PROVE  /\ TimesIn(<<>>, c) = 0
         /\ \A s \in Seq(RefNodes \X RefNodes), e \in RefNodes \X RefNodes :
              /\ TimesIn(s, c) \in Nat /\ (TimesIn(s, c) > 0 => \E i \in 1 .. Len(s) : s[i][2] = c)
              /\ TimesIn(Append(s, e), c) = TimesIn(s, c) + (IF e[2] = c THEN 1 ELSE 0)
<1>1. TimesIn(<<>>, c) = 0
  <2>1. {i \in 1 .. Len(<<>>) : <<>>[i][2] = c} = {}
    OBVIOUS
  <2> QED BY <2>1, FS_EmptySet DEF TimesIn
<1>2. ASSUME NEW s \in Seq(RefNodes \X RefNodes), NEW e \in RefNodes \X RefNodes
      PROVE  /\ TimesIn(s, c) \in Nat /\ (TimesIn(s, c) > 0 => \E i \in 1 .. Len(s) : s[i][2] = c)
             /\ TimesIn(Append(s, e), c) = TimesIn(s, c) + (IF e[2] = c THEN 1 ELSE 0)
  <2>1. PICK l \in Nat : l = Len(s)
    OBVIOUS
  <2>2. PICK a : a = Append(s, e) /\ Len(a) = l + 1 /\ a[l + 1] = e /\ \A k \in 1 .. l : a[k] = s[k]
    <3>1. Len(Append(s, e)) = l + 1 /\ Append(s, e)[l + 1] = e /\ \A k \in 1 .. l : Append(s, e)[k] = s[k]
      BY <2>1, AppendProperties
    <3> QED BY <3>1, Zenon
  <2>3. PICK A : A = {i \in 1 .. l : s[i][2] = c}
    OBVIOUS
  <2>4. IsFiniteSet(A) /\ Cardinality(A) \in Nat
    <3>1. IsFiniteSet(1 .. l) /\ A \subseteq 1 .. l
      BY <2>1, <2>3, FS_Interval
    <3> QED BY <3>1, FS_Subset, FS_CardinalityType
  <2>5. TimesIn(s, c) = Cardinality(A)
    BY <2>1, <2>3 DEF TimesIn
  <2>6. {i \in 1 .. Len(a) : a[i][2] = c} = IF e[2] = c THEN A \union {l + 1} ELSE A
    <3>1. ASSUME NEW i \in 1 .. l + 1
          PROVE  a[i][2] = c <=> (i = l + 1 /\ e[2] = c) \/ i \in A
      <4>1. i = l + 1 \/ i \in 1 .. l
        BY <2>1
      <4>2. l + 1 \notin A
        BY <2>1, <2>3
      <4> QED BY <2>2, <2>3, <4>1, <4>2
    <3>2. A \subseteq 1 .. l + 1 /\ l + 1 \in 1 .. l + 1
      BY <2>1, <2>3
    <3> QED BY <2>2, <3>1, <3>2
  <2>7. Cardinality(A \union {l + 1}) = Cardinality(A) + 1
    <3>1. l + 1 \notin A
      BY <2>1, <2>3
    <3> QED BY <2>4, <3>1, FS_AddElement
  <2>8. TimesIn(a, c) = Cardinality(A) + (IF e[2] = c THEN 1 ELSE 0)
    <3>1. PICK B : B = {i \in 1 .. Len(a) : a[i][2] = c}
      OBVIOUS
    <3>2. TimesIn(a, c) = Cardinality(B)
      BY <3>1 DEF TimesIn
    <3>3. B = IF e[2] = c THEN A \union {l + 1} ELSE A
      BY <2>6, <3>1, Zenon
    <3>4. e[2] = c => Cardinality(B) = Cardinality(A) + 1
      <4>1. e[2] = c => B = A \union {l + 1}
        BY <3>3
      <4> QED BY <2>7, <4>1, Zenon
    <3>5. e[2] # c => Cardinality(B) = Cardinality(A)
      BY <3>3
    <3> QED BY <2>4, <3>2, <3>4, <3>5
  <2>9. Cardinality(A) > 0 => A # {}
    <3>1. A = {} => Cardinality(A) = 0
      BY FS_EmptySet
    <3> QED BY <2>4, <3>1
  <2> QED BY <2>1, <2>2, <2>3, <2>4, <2>5, <2>8, <2>9
<1> QED BY <1>1, <1>2

\* The ways from the arguments.
ArgWays(c) == [i \in 1 .. Len(allArgs) |-> WaysFrom(dag, RefsDepth)[allArgs[i]][c]]
Emitted(c) == SumTo(ArgWays(c), ArgsDone)

LEMMA ArgWaysAre ==
  ASSUME RefsPlace, NEW c \in RefNodes
  PROVE  /\ Len(allArgs) \in Nat /\ ArgWays(c) \in [1 .. Len(allArgs) -> Nat] /\ ArgWays(c) \in [1 .. Len(allArgs) -> Int]
         /\ \A i \in 1 .. Len(allArgs) : allArgs[i] \in RefNodes /\ ArgWays(c)[i] = WaysFrom(dag, RefsDepth)[allArgs[i]][c]
         /\ WaysTo(WaysFrom(dag, RefsDepth), c) = SumTo(ArgWays(c), Len(allArgs))
<1>1. RefsTypes /\ allArgs \in Seq(RefNodes) /\ RefsDepth \in Nat /\ dag \in Dags
  BY RefsDepthIs, DagIs DEF RefsPlace, RefsTypes
<1>2. PICK l \in Nat : l = Len(allArgs)
  BY <1>1
<1>3. PICK ways \in Counts : ways = WaysFrom(dag, RefsDepth)
  BY <1>1, WaysLaw
<1>4. \A i \in 1 .. l : allArgs[i] \in RefNodes /\ ways[allArgs[i]][c] \in Nat
  <2> TAKE i \in 1 .. l
  <2>1. allArgs[i] \in RefNodes
    BY <1>1, <1>2, ElementOfSeq
  <2> QED BY <2>1 DEF Counts
<1>5. PICK s : s = ArgWays(c)
  OBVIOUS
<1>6. s = [i \in 1 .. l |-> ways[allArgs[i]][c]]
  BY <1>2, <1>3, <1>5 DEF ArgWays
<1>7. WaysTo(ways, c) = SumTo(s, l)
  BY <1>2, <1>6 DEF WaysTo
<1> QED BY <1>2, <1>3, <1>4, <1>5, <1>6, <1>7

\* Every ref so far, and those the calls have left: the ways from the arguments so far.
CountInv ==
  ~unique /\ refErrors = 0 =>
    \A c \in RefNodes : TimesIn(refsOut, c) + WalkLeft(dag, RefsDepth, c, walk) = Emitted(c)

LEMMA CallFits ==
  ASSUME RefsTypes, NEW f \in RefFrame, FrameShallow(f)
  PROVE  Fits(dag, RefsDepth, f)
<1>1. f.node \in RefNodes /\ f.link \in Nat \ {0} /\ f.depth \in Nat
  BY DEF RefFrame
<1>2. RefsDepth \in Nat /\ Len(dag[f.node]) \in Nat
  BY <1>1, RefsDepthIs, DagIs DEF RefsTypes
<1> QED BY <1>1, <1>2 DEF Fits, FrameShallow

LEMMA WalkFits ==
  ASSUME RefsPlace, NEW b \in Seq(RefFrame), NEW f \in RefFrame, walk = Append(b, f)
  PROVE  /\ FrameShallow(f) /\ Fits(dag, RefsDepth, f)
         /\ \A k \in 1 .. Len(b) : FrameShallow(b[k]) /\ Fits(dag, RefsDepth, b[k])
<1>1. \A k \in 1 .. Len(b) + 1 : FrameShallow(walk[k])
  BY WalkWith DEF RefsPlace, WalkShallow
<1>2. Len(b) \in Nat /\ walk[Len(b) + 1] = f /\ \A k \in 1 .. Len(b) : walk[k] = b[k] /\ b[k] \in RefFrame
  BY WalkWith
<1>3. FrameShallow(f) /\ \A k \in 1 .. Len(b) : FrameShallow(b[k]) /\ b[k] \in RefFrame
  BY <1>1, <1>2
<1> QED BY <1>3, CallFits DEF RefsPlace

LEMMA CountInit == RefsInit => CountInv
<1> SUFFICES ASSUME RefsInit, NEW c \in RefNodes
             PROVE  TimesIn(refsOut, c) + WalkLeft(dag, RefsDepth, c, walk) = Emitted(c)
  BY DEF CountInv
<1>1. RefsPlace /\ refsOut = <<>> /\ walk = <<>> /\ refArgs = allArgs
  BY PlaceInit DEF RefsInit
<1>2. RefsDepth \in Nat /\ dag \in Dags
  BY <1>1, RefsDepthIs, DagIs DEF RefsPlace, RefsTypes
<1>3. TimesIn(<<>>, c) = 0 /\ WalkLeft(dag, RefsDepth, c, <<>>) = 0
  BY <1>2, TimesLaw, WalkLeftLaw
<1>4. Emitted(c) = 0
  <2>1. PICK l \in Nat : l = Len(allArgs) /\ ArgWays(c) \in [1 .. l -> Int]
    BY <1>1, ArgWaysAre
  <2>2. ArgsDone = 0
    BY <1>1, <2>1 DEF ArgsDone
  <2>3. SumTo(ArgWays(c), 0) = 0
    BY <2>1, SumLaw
  <2> QED BY <2>2, <2>3 DEF Emitted
<1> QED BY <1>1, <1>3, <1>4

LEMMA ArgCounts ==
  ASSUME RefsPlace, CountInv, WriteRefs
  PROVE  CountInv'
<1>0. RefsTypes /\ ArgsInOrder /\ RefsGiven /\ refsOut' = refsOut /\ walk = <<>>
  BY DEF RefsPlace, WriteRefs
<1> SUFFICES ASSUME ~unique, refErrors' = 0, NEW c \in RefNodes
             PROVE  TimesIn(refsOut, c) + WalkLeft(dag, RefsDepth, c, walk') = SumTo(ArgWays(c), ArgsDone')
  <2>1. unique' = unique /\ dag' = dag /\ RefsDepth' = RefsDepth /\ allArgs' = allArgs
    BY <1>0, GivenStays
  <2> QED BY <1>0, <2>1 DEF CountInv, Emitted, ArgWays
<1>1. PICK h \in RefNodes : h = Head(refArgs)
  BY <1>0, ArgTaken
<1>2. h = allArgs[ArgsDone + 1] /\ ArgsDone + 1 \in 1 .. Len(allArgs) /\ ArgsDone' = ArgsDone + 1
  BY <1>0, <1>1, ArgTaken
<1>3. RefsDepth \in Nat /\ dag \in Dags
  BY <1>0, RefsDepthIs, DagIs DEF RefsTypes
<1>4. refErrors = 0 /\ walk' = Append(<<>>, Call(h, 0))
  <2>1. refErrors \in Nat
    BY <1>0 DEF RefsTypes
  <2>2. h \notin missing
    BY <1>1, <2>1 DEF WriteRefs, RefArgumentFails
  <2> QED BY <1>1, <2>2 DEF WriteRefs
<1>5. WalkLeft(dag, RefsDepth, c, walk') = WaysFrom(dag, RefsDepth)[h][c]
  <2>1. PICK f \in RefFrame : f = Call(h, 0)
    BY <1>1, CallIs
  <2>2. 0 \in 0 .. RefsDepth /\ RefsDepth - 0 = RefsDepth
    BY <1>3
  <2>3. Fits(dag, RefsDepth, f) /\ LeftOf(dag, RefsDepth, c, f) = WaysFrom(dag, RefsDepth)[h][c]
    BY <1>3, <2>1, <2>2, LeftOfCall
  <2>4. <<>> \in Seq(RefFrame) /\ \A k \in 1 .. Len(<<>>) : Fits(dag, RefsDepth, <<>>[k])
    BY EmptySeq
  <2>5. WalkLeft(dag, RefsDepth, c, <<>>) = 0 /\ LeftOf(dag, RefsDepth, c, f) \in Int
    BY <1>3, <2>3, WalkLeftLaw, LeftIs
  <2>6. WalkLeft(dag, RefsDepth, c, Append(<<>>, f)) = WalkLeft(dag, RefsDepth, c, <<>>) + LeftOf(dag, RefsDepth, c, f)
    BY <1>3, <2>3, <2>4, WalkLeftLaw
  <2> QED BY <1>4, <2>1, <2>3, <2>5, <2>6
<1>6. TimesIn(refsOut, c) = SumTo(ArgWays(c), ArgsDone)
  <2>1. TimesIn(refsOut, c) + WalkLeft(dag, RefsDepth, c, <<>>) = SumTo(ArgWays(c), ArgsDone)
    BY <1>0, <1>4 DEF CountInv, Emitted
  <2>2. WalkLeft(dag, RefsDepth, c, <<>>) = 0 /\ TimesIn(refsOut, c) \in Nat
    <3>1. <<h, h>> \in RefNodes \X RefNodes /\ refsOut \in Seq(RefNodes \X RefNodes)
      BY <1>0, <1>1 DEF RefsTypes
    <3>2. TimesIn(refsOut, c) \in Nat
      BY <3>1, TimesLaw, Zenon
    <3>3. WalkLeft(dag, RefsDepth, c, <<>>) = 0
      BY <1>3, WalkLeftLaw
    <3> QED BY <3>2, <3>3
  <2> QED BY <2>1, <2>2
<1>7. SumTo(ArgWays(c), ArgsDone + 1) = SumTo(ArgWays(c), ArgsDone) + WaysFrom(dag, RefsDepth)[h][c]
  <2>1. PICK l \in Nat : l = Len(allArgs) /\ ArgWays(c) \in [1 .. l -> Int]
    BY ArgWaysAre
  <2>2. ArgsDone \in 0 .. l - 1
    BY <1>0, <1>2, <2>1 DEF ArgsInOrder
  <2>3. ArgWays(c)[ArgsDone + 1] = WaysFrom(dag, RefsDepth)[h][c]
    BY <1>2, ArgWaysAre
  <2> QED BY <2>1, <2>2, <2>3, SumLaw
<1> QED BY <1>2, <1>5, <1>6, <1>7

LEMMA ReturnCounts ==
  ASSUME RefsPlace, CountInv, RefReturn
  PROVE  CountInv'
<1>0. RefsTypes /\ ArgsInOrder
  BY DEF RefsPlace
<1>1. RefsGiven /\ UNCHANGED <<refArgs, seen, refsOut, refErrors>>
  BY <1>0, ReturnIs
<1>2. PICK b \in Seq(RefFrame), f \in RefFrame : walk = Append(b, f) /\ walk' = b /\ f.link > Len(dag[f.node])
  BY <1>0, ReturnIs
<1>3. RefsDepth \in Nat /\ dag \in Dags
  BY <1>0, RefsDepthIs, DagIs DEF RefsTypes
<1>4. Fits(dag, RefsDepth, f) /\ \A k \in 1 .. Len(b) : Fits(dag, RefsDepth, b[k])
  BY <1>2, WalkFits
<1>5. f.link = Len(dag[f.node]) + 1
  <2>1. f.node \in RefNodes
    BY DEF RefFrame
  <2>2. Len(dag[f.node]) \in Nat
    BY <1>0, <2>1, DagIs
  <2> QED BY <1>2, <1>4, <2>2 DEF Fits
<1>6. \A c \in RefNodes : WalkLeft(dag, RefsDepth, c, b) = WalkLeft(dag, RefsDepth, c, walk)
  <2> TAKE c \in RefNodes
  <2>1. LeftOf(dag, RefsDepth, c, f) = 0
    BY <1>3, <1>4, <1>5, LeftIs
  <2>2. /\ WalkLeft(dag, RefsDepth, c, b) \in Int
        /\ WalkLeft(dag, RefsDepth, c, walk) = WalkLeft(dag, RefsDepth, c, b) + LeftOf(dag, RefsDepth, c, f)
    BY <1>2, <1>3, <1>4, WalkLeftLaw
  <2> QED BY <2>1, <2>2
<1>7. unique' = unique /\ dag' = dag /\ RefsDepth' = RefsDepth /\ allArgs' = allArgs
  BY <1>1, GivenStays
<1>8. \A c \in RefNodes : Emitted(c)' = Emitted(c)
  BY <1>1, <1>7 DEF Emitted, ArgWays, ArgsDone
<1> QED BY <1>1, <1>2, <1>6, <1>7, <1>8 DEF CountInv

LEMMA LinkCounts ==
  ASSUME RefsPlace, CountInv, RefsGiven, refArgs' = refArgs, RefsPlace',
         NEW b, NEW f, NEW on, NEW to, AtLink(b, f, on, to), LinkTaken(b, f, on, to)
  PROVE  CountInv'
<1>0. RefsTypes
  BY DEF RefsPlace
<1>1. b \in Seq(RefFrame) /\ f \in RefFrame /\ on \in RefFrame /\ to \in RefNodes /\ walk = Append(b, f)
  BY DEF AtLink, NextLink
<1>2. unique' = unique /\ dag' = dag /\ RefsDepth' = RefsDepth /\ allArgs' = allArgs /\ maxDepth' = maxDepth
  BY GivenStays
<1> SUFFICES ASSUME ~unique, refErrors' = 0, NEW c \in RefNodes
             PROVE  TimesIn(refsOut', c) + WalkLeft(dag, RefsDepth, c, walk') = Emitted(c)
  <2>1. \A c \in RefNodes : Emitted(c)' = Emitted(c)
    BY <1>2 DEF Emitted, ArgWays, ArgsDone
  <2> QED BY <1>2, <2>1 DEF CountInv
<1>3. RefsDepth \in Nat /\ dag \in Dags
  BY <1>0, RefsDepthIs, DagIs DEF RefsTypes
<1>4. FrameShallow(f) /\ Fits(dag, RefsDepth, f) /\ \A k \in 1 .. Len(b) : Fits(dag, RefsDepth, b[k])
  BY <1>1, WalkFits
<1>5. PICK d \in Nat : d = f.depth + 1 /\ d - 1 = f.depth
  BY <1>1 DEF RefFrame
<1>6. Fits(dag, RefsDepth, on)
  <2>1. FrameShallow(on)
    BY <1>0, <1>1, <1>4, LinkFits DEF AtLink
  <2> QED BY <1>0, <1>1, <2>1, CallFits
<1>7. PICK rest \in Int : rest = WalkLeft(dag, RefsDepth, c, b)
  BY <1>1, <1>3, <1>4, WalkLeftLaw
<1>8. PICK left \in Int : left = LeftOf(dag, RefsDepth, c, f)
  BY <1>3, <1>4, LeftIs
<1>9. PICK after \in Int : after = LeftOf(dag, RefsDepth, c, on)
  BY <1>3, <1>6, LeftIs
<1>10. WalkLeft(dag, RefsDepth, c, walk) = rest + left /\ WalkLeft(dag, RefsDepth, c, Append(b, on)) = rest + after
  BY <1>1, <1>3, <1>4, <1>6, <1>7, <1>8, <1>9, WalkLeftLaw
<1>11. refErrors = 0
  BY <1>0 DEF LinkTaken, LinkPruned, LinkMissing, LinkVisited, RefsTypes
<1>12. PICK times \in Nat : times = TimesIn(refsOut, c) /\ times + (rest + left) = Emitted(c)
  <2>1. refsOut \in Seq(RefNodes \X RefNodes) /\ <<to, to>> \in RefNodes \X RefNodes
    BY <1>0, <1>1 DEF RefsTypes
  <2>2. TimesIn(refsOut, c) \in Nat
    BY <2>1, TimesLaw, Zenon
  <2> QED BY <1>10, <1>11, <2>2 DEF CountInv
<1>13. CASE LinkPruned(b, on, to, d)
  <2>1. OverMaxDepth(d) /\ walk' = Append(b, on) /\ refsOut' = refsOut
    BY <1>13 DEF LinkPruned, Pruned
  <2>2. f.depth = RefsDepth /\ on.depth = RefsDepth
    BY <1>0, <1>1, <1>4, <1>5, <2>1, LinkFits DEF AtLink, NextLink
  <2>3. left = 0 /\ after = 0
    BY <1>3, <1>4, <1>6, <1>8, <1>9, <2>2, LeftIs
  <2> QED BY <1>10, <1>12, <2>1, <2>3
<1>14. ~LinkMissing(to, d)
  BY <1>11 DEF LinkMissing
<1>15. CASE LinkVisited(b, f.node, on, to, d)
  <2>1. ~OverMaxDepth(d) /\ refsOut' = Append(refsOut, <<f.node, to>>)
    BY <1>15 DEF LinkVisited, Pruned
  <2>2. d \in 1 .. RefsDepth
    BY <1>0, <1>1, <1>4, <1>5, <2>1, LinkFits DEF AtLink
  <2>3. PICK ways \in Nat : ways = WaysFrom(dag, RefsDepth - d)[to][c]
    <3>1. RefsDepth - d \in Nat
      BY <1>3, <2>2
    <3>2. WaysFrom(dag, RefsDepth - d) \in Counts
      BY <1>3, <3>1, WaysLaw
    <3> QED BY <1>1, <3>2 DEF Counts
  <2>4. left = (IF to = c THEN 1 ELSE 0) + ways + after
    <3>1. f.depth # RefsDepth /\ f.link <= Len(dag[f.node]) /\ to = dag[f.node][f.link] /\ NextLink(f, on)
      <4>1. f.link <= Len(dag[f.node])
        BY <1>0, <1>1, DagIs DEF AtLink, RefFrame
      <4>2. f.depth # RefsDepth
        BY <1>3, <1>5, <2>2
      <4> QED BY <4>1, <4>2 DEF AtLink
    <3>2. LeftOf(dag, RefsDepth, c, f)
           = (IF to = c THEN 1 ELSE 0) + WaysFrom(dag, RefsDepth - (f.depth + 1))[to][c] + LeftOf(dag, RefsDepth, c, on)
      BY <1>1, <1>3, <1>4, <3>1, LeftAtLink
    <3> QED BY <1>5, <1>8, <1>9, <2>3, <3>2
  <2>5. TimesIn(refsOut', c) = times + (IF to = c THEN 1 ELSE 0)
    <3>1. PICK e \in RefNodes \X RefNodes : e = <<f.node, to>> /\ e[2] = to
      <4>1. f.node \in RefNodes
        BY <1>1 DEF RefFrame
      <4>2. <<f.node, to>> \in RefNodes \X RefNodes /\ <<f.node, to>>[2] = to
        BY <1>1, <4>1
      <4> QED BY <4>2, Zenon
    <3>2. refsOut \in Seq(RefNodes \X RefNodes)
      BY <1>0 DEF RefsTypes
    <3>3. PICK hit : hit = IF e[2] = c THEN 1 ELSE 0
      OBVIOUS
    <3>4. TimesIn(Append(refsOut, e), c) = TimesIn(refsOut, c) + hit
      BY <3>2, <3>3, TimesLaw
    <3> QED BY <1>12, <2>1, <3>1, <3>3, <3>4
  <2>6. WalkLeft(dag, RefsDepth, c, walk') = rest + after + ways
    <3>1. CASE AtMaxDepth(d)
      <4>1. walk' = Append(b, on)
        BY <1>15, <3>1 DEF LinkVisited
      <4>2. RefsDepth - d = 0
        BY <1>0, <1>3, <3>1, RefsDepthIs DEF AtMaxDepth, RefsTypes
      <4>3. ways = 0
        BY <1>1, <1>3, <2>3, <4>2, WaysLaw DEF NoWays
      <4> QED BY <1>10, <4>1, <4>3
    <3>2. CASE ~AtMaxDepth(d)
      <4>1. PICK a \in Seq(RefFrame) : a = Append(b, on) /\ \A k \in 1 .. Len(a) : Fits(dag, RefsDepth, a[k])
        <5>1. \A k \in 1 .. Len(Append(b, on)) : Fits(dag, RefsDepth, Append(b, on)[k])
          <6> TAKE k \in 1 .. Len(Append(b, on))
          <6>1. k = Len(b) + 1 \/ k \in 1 .. Len(b)
            BY <1>1, WalkWith
          <6> QED BY <1>1, <1>4, <1>6, <6>1, WalkWith
        <5> QED BY <1>1, <5>1, WalkWith
      <4>2. PICK e \in RefFrame : e = Call(to, d)
        BY <1>1, CallIs
      <4>3. walk' = Append(a, e)
        BY <1>15, <3>2, <4>1, <4>2 DEF LinkVisited
      <4>4. Fits(dag, RefsDepth, e) /\ LeftOf(dag, RefsDepth, c, e) = ways
        <5>1. d \in 0 .. RefsDepth
          BY <2>2
        <5> QED BY <1>1, <1>3, <2>3, <4>2, <5>1, LeftOfCall
      <4>5. WalkLeft(dag, RefsDepth, c, Append(a, e)) = WalkLeft(dag, RefsDepth, c, a) + LeftOf(dag, RefsDepth, c, e)
        BY <1>3, <4>1, <4>4, WalkLeftLaw
      <4> QED BY <1>10, <4>1, <4>3, <4>4, <4>5
    <3> QED BY <3>1, <3>2
  <2> QED BY <1>12, <2>4, <2>5, <2>6
<1> QED BY <1>5, <1>13, <1>14, <1>15 DEF LinkTaken

LEMMA CountStep == RefsPlace /\ CountInv /\ RefsNext => CountInv'
<1> SUFFICES ASSUME RefsPlace, CountInv, RefsNext PROVE CountInv'
  OBVIOUS
<1>1. CASE WriteRefs
  BY <1>1, ArgCounts
<1>2. CASE RefLink
  <2>1. RefsTypes /\ RefsPlace'
    BY PlaceStep DEF RefsPlace
  <2>2. PICK b, f, on, c : AtLink(b, f, on, c) /\ LinkTaken(b, f, on, c)
    BY <1>2, <2>1, LinkSteps
  <2> QED BY <1>2, <2>1, <2>2, LinkSteps, LinkCounts
<1>3. CASE RefReturn
  BY <1>3, ReturnCounts
<1> QED BY <1>1, <1>2, <1>3 DEF RefsNext

LEMMA CountsTrue ==
  ASSUME RefsPlace, CountInv, RefsDone, refErrors = 0, ~unique, NEW c \in RefNodes
  PROVE  Times(c) = WaysTo(WaysFrom(dag, RefsDepth), c)
<1>1. RefsDepth \in Nat /\ dag \in Dags /\ RefsTypes
  BY RefsDepthIs, DagIs DEF RefsPlace, RefsTypes
<1>2. TimesIn(refsOut, c) + WalkLeft(dag, RefsDepth, c, <<>>) = Emitted(c)
  BY DEF CountInv, RefsDone
<1>3. WalkLeft(dag, RefsDepth, c, <<>>) = 0
  BY <1>1, WalkLeftLaw
<1>4. TimesIn(refsOut, c) \in Nat /\ TimesIn(refsOut, c) = Times(c)
  <2>1. refsOut \in Seq(RefNodes \X RefNodes) /\ <<c, c>> \in RefNodes \X RefNodes
    BY <1>1 DEF RefsTypes
  <2>2. TimesIn(refsOut, c) \in Nat
    BY <2>1, TimesLaw, Zenon
  <2> QED BY <2>2 DEF TimesIn, Times
<1>5. ArgsDone = Len(allArgs)
  <2>1. Len(allArgs) \in Nat /\ Len(<<>>) = 0
    BY ArgWaysAre
  <2> QED BY <2>1 DEF ArgsDone, RefsDone
<1>6. Emitted(c) = WaysTo(WaysFrom(dag, RefsDepth), c)
  BY <1>5, ArgWaysAre DEF Emitted
<1> QED BY <1>2, <1>3, <1>4, <1>6

-----------------------------------------------------------------------------
\* With --unique: what was met is where it was met, and so are its links, or a call
\* that is no deeper still has them before it.
Reached(g, args, x, d) == \E a \in 1 .. Len(args) : (d = 0 /\ args[a] = x) \/ Leads(g, d, args[a], x)
Above(s) == maxDepth >= 0 => s < maxDepth
SeenAt(limit, met, y, s) == y \in DOMAIN met /\ (limit >= 0 => met[y] <= s)
Pending(w, x, s, i) == \E k \in 1 .. Len(w) : w[k].node = x /\ w[k].depth <= s /\ w[k].link <= i
Covered(g, limit, met, w, x, s) == \A i \in 1 .. Len(g[x]) : SeenAt(limit, met, g[x][i], s + 1) \/ Pending(w, x, s, i)

OnceEach == \A c \in RefNodes : TimesIn(refsOut, c) = IF c \in DOMAIN seen THEN 1 ELSE 0
SeenReached == \A x \in DOMAIN seen : seen[x] \in 1 .. RefsDepth /\ Reached(dag, allArgs, x, seen[x])
WalkReached == \A k \in 1 .. Len(walk) : Reached(dag, allArgs, walk[k].node, walk[k].depth)
SeenCovered == \A x \in DOMAIN seen : Above(seen[x]) => Covered(dag, maxDepth, seen, walk, x, seen[x])
ArgsCovered == Above(0) => \A a \in 1 .. ArgsDone : Covered(dag, maxDepth, seen, walk, allArgs[a], 0)

UniqueInv == unique /\ refErrors = 0 => OnceEach /\ SeenReached /\ WalkReached /\ SeenCovered /\ ArgsCovered

LEMMA ReachedNext ==
  ASSUME NEW g \in Dags, NEW args \in Seq(RefNodes), NEW x \in RefNodes, NEW d \in Nat, Reached(g, args, x, d),
         NEW i \in 1 .. Len(g[x])
  PROVE  Reached(g, args, g[x][i], d + 1)
<1>0. g[x] \in Seq(RefNodes)
  BY DEF Dags
<1>1. g[x][i] \in RefNodes
  BY <1>0, ElementOfSeq
<1>2. PICK a \in 1 .. Len(args) : (d = 0 /\ args[a] = x) \/ Leads(g, d, args[a], x)
  BY DEF Reached
<1>3. args[a] \in RefNodes
  BY ElementOfSeq
<1>4. CASE d = 0 /\ args[a] = x
  <2>1. Leads(g, 0 + 1, x, g[x][i])
    <3>1. 0 \in Nat
      OBVIOUS
    <3> QED BY <1>1, <3>1, LeadsLaw
  <2> QED BY <1>4, <2>1 DEF Reached
<1>5. CASE Leads(g, d, args[a], x)
  <2>1. Leads(g, d + 1, args[a], g[x][i])
    BY <1>3, <1>5, LeadsFurther
  <2> QED BY <2>1 DEF Reached
<1> QED BY <1>2, <1>4, <1>5

\* Where the walk is after a link that is no error.
LEMMA LinkWalk ==
  ASSUME RefsTypes, NEW b, NEW f, NEW on, NEW c, AtLink(b, f, on, c), LinkTaken(b, f, on, c), refErrors' = refErrors
  PROVE  /\ Len(b) \in Nat /\ Len(walk) = Len(b) + 1 /\ walk[Len(b) + 1] = f
         /\ Len(walk') \in Nat /\ Len(walk') >= Len(b) + 1 /\ walk'[Len(b) + 1] = on
         /\ \A k \in 1 .. Len(b) : walk[k] = b[k] /\ walk'[k] = b[k] /\ b[k] \in RefFrame
         /\ LinkVisited(b, f.node, on, c, f.depth + 1) /\ ~AtMaxDepth(f.depth + 1) =>
              Len(walk') = Len(b) + 2 /\ walk'[Len(b) + 2] = Call(c, f.depth + 1)
         /\ \A k \in 1 .. Len(walk') :
              \/ k \in 1 .. Len(b) \/ k = Len(b) + 1
              \/ LinkVisited(b, f.node, on, c, f.depth + 1) /\ walk'[k] = Call(c, f.depth + 1)
<1>1. b \in Seq(RefFrame) /\ f \in RefFrame /\ on \in RefFrame /\ c \in RefNodes /\ walk = Append(b, f)
  BY DEF AtLink, NextLink
<1>2. PICK l \in Nat, d \in Nat : l = Len(b) /\ d = f.depth + 1
  BY <1>1, WalkWith DEF RefFrame
<1>3. \A k \in 1 .. l : b[k] \in RefFrame
  BY <1>1, <1>2, ElementOfSeq
<1>4. Len(walk) = l + 1 /\ walk[l + 1] = f /\ \A k \in 1 .. l : walk[k] = b[k]
  BY <1>1, <1>2, WalkWith
<1>5. PICK a \in Seq(RefFrame) : a = Append(b, on) /\ Len(a) = l + 1 /\ a[l + 1] = on /\ \A k \in 1 .. l : a[k] = b[k]
  BY <1>1, <1>2, WalkWith
<1>6. ~LinkMissing(c, d)
  BY DEF LinkMissing, RefsTypes
<1>7. walk' = a \/ (LinkVisited(b, f.node, on, c, d) /\ ~AtMaxDepth(d) /\ walk' = Append(a, Call(c, d)))
  BY <1>2, <1>5, <1>6 DEF LinkTaken, LinkPruned, LinkVisited
<1>8. LinkVisited(b, f.node, on, c, d) /\ ~AtMaxDepth(d) => walk' = Append(a, Call(c, d))
  BY <1>5 DEF LinkVisited
<1>9. PICK w \in Seq(RefFrame) : w = Append(a, Call(c, d)) /\ Len(w) = l + 2 /\ w[l + 2] = Call(c, d)
                                 /\ \A k \in 1 .. l + 1 : w[k] = a[k]
  <2>1. PICK e \in RefFrame : e = Call(c, d)
    BY <1>1, <1>2, CallIs
  <2>2. /\ Append(a, e) \in Seq(RefFrame) /\ Len(Append(a, e)) = (l + 1) + 1 /\ Append(a, e)[(l + 1) + 1] = e
        /\ \A k \in 1 .. l + 1 : Append(a, e)[k] = a[k]
    BY <1>5, WalkWith
  <2>3. (l + 1) + 1 = l + 2
    BY <1>2
  <2> QED BY <2>1, <2>2, <2>3
<1>10. CASE walk' = a
  <2>1. ~(LinkVisited(b, f.node, on, c, d) /\ ~AtMaxDepth(d))
    BY <1>2, <1>5, <1>8, <1>9, <1>10
  <2> QED BY <1>2, <1>3, <1>4, <1>5, <1>10, <2>1
<1>11. CASE LinkVisited(b, f.node, on, c, d) /\ ~AtMaxDepth(d) /\ walk' = w
  <2>1. \A k \in 1 .. l + 2 : k \in 1 .. l \/ k = l + 1 \/ k = l + 2
    BY <1>2
  <2>2. l + 1 \in 1 .. l + 1 /\ \A k \in 1 .. l : k \in 1 .. l + 1
    BY <1>2
  <2> QED BY <1>2, <1>3, <1>4, <1>5, <1>9, <1>11, <2>1, <2>2
<1> QED BY <1>7, <1>9, <1>10, <1>11

LEMMA SeenStays ==
  ASSUME RefsTypes, unique, NEW c \in RefNodes, NEW d \in Nat, ~Pruned(c, d), seen' = RefSeen(c, d),
         NEW y, NEW s \in Int, SeenAt(maxDepth, seen, y, s)
  PROVE  SeenAt(maxDepth, seen', y, s)
<1>1. DOMAIN seen' = DOMAIN seen \union {c} /\ seen'[c] = d /\ \A x \in DOMAIN seen : x # c => seen'[x] = seen[x]
  BY SeenIs
<1>2. DOMAIN seen \subseteq RefNodes /\ seen \in [DOMAIN seen -> Nat] /\ maxDepth \in Int
  BY DEF RefsTypes
<1>3. CASE y = c
  <2>1. c \in DOMAIN seen /\ maxDepth >= 0 /\ seen[c] > d
    BY <1>2, <1>3 DEF SeenAt, Pruned
  <2> QED BY <1>1, <1>2, <1>3, <2>1 DEF SeenAt
<1>4. CASE y # c
  BY <1>1, <1>2, <1>4 DEF SeenAt
<1> QED BY <1>3, <1>4

LEMMA LinkSeen ==
  ASSUME RefsPlace, unique, NEW b, NEW f, NEW on, NEW c, AtLink(b, f, on, c), LinkTaken(b, f, on, c), refErrors' = refErrors
  PROVE  /\ \A y : \A s \in Int : SeenAt(maxDepth, seen, y, s) => SeenAt(maxDepth, seen', y, s)
         /\ \A s \in Nat : f.depth <= s /\ Above(s) => SeenAt(maxDepth, seen', c, s + 1)
<1>1. RefsTypes /\ f \in RefFrame /\ c \in RefNodes
  BY DEF AtLink, RefsPlace
<1>2. PICK d \in Nat : d = f.depth + 1
  BY <1>1 DEF RefFrame
<1>3. maxDepth \in Int /\ seen \in [DOMAIN seen -> Nat] /\ f.depth \in Nat
  BY <1>1 DEF RefsTypes, RefFrame
<1>4. CASE LinkPruned(b, on, c, d)
  <2>1. seen' = seen /\ Pruned(c, d)
    BY <1>4 DEF LinkPruned
  <2>2. ASSUME NEW s \in Nat, f.depth <= s, Above(s) PROVE SeenAt(maxDepth, seen, c, s + 1)
    <3>1. ~OverMaxDepth(d)
      BY <1>2, <1>3, <2>2 DEF OverMaxDepth, Above
    <3>2. c \in DOMAIN seen /\ (maxDepth < 0 \/ seen[c] <= d)
      BY <2>1, <3>1 DEF Pruned
    <3>3. seen[c] \in Nat
      BY <1>3, <3>2
    <3> QED BY <1>2, <1>3, <2>2, <3>2, <3>3 DEF SeenAt
  <2> QED BY <2>1, <2>2
<1>5. CASE LinkVisited(b, f.node, on, c, d)
  <2>1. seen' = RefSeen(c, d) /\ ~Pruned(c, d)
    BY <1>5 DEF LinkVisited
  <2>2. ASSUME NEW y, NEW s \in Int, SeenAt(maxDepth, seen, y, s) PROVE SeenAt(maxDepth, seen', y, s)
    BY <1>1, <2>1, <2>2, SeenStays
  <2>3. c \in DOMAIN seen' /\ seen'[c] = d
    BY <1>1, <2>1, SeenIs
  <2>4. ASSUME NEW s \in Nat, f.depth <= s PROVE SeenAt(maxDepth, seen', c, s + 1)
    BY <1>2, <1>3, <2>3, <2>4 DEF SeenAt
  <2> QED BY <2>2, <2>4
<1>6. ~LinkMissing(c, d)
  BY <1>1 DEF LinkMissing, RefsTypes
<1> QED BY <1>2, <1>4, <1>5, <1>6 DEF LinkTaken

\* A link that is taken leaves covered what was.
LEMMA LinkCovers ==
  ASSUME RefsPlace, unique, NEW b, NEW f, NEW on, NEW c, AtLink(b, f, on, c), LinkTaken(b, f, on, c), refErrors' = refErrors,
         NEW x \in RefNodes, NEW s \in Nat, Above(s), Covered(dag, maxDepth, seen, walk, x, s)
  PROVE  Covered(dag, maxDepth, seen', walk', x, s)
<1>1. RefsTypes /\ f \in RefFrame /\ NextLink(f, on) /\ c = dag[f.node][f.link]
  BY DEF AtLink, RefsPlace
<1>2. PICK l \in Nat : l = Len(b) /\ Len(walk) = l + 1 /\ walk[l + 1] = f /\ walk'[l + 1] = on
                       /\ \A k \in 1 .. l : walk[k] = b[k] /\ walk'[k] = b[k]
  BY <1>1, LinkWalk
<1>3. Len(walk') \in Nat /\ Len(walk') >= l + 1
  BY <1>1, <1>2, LinkWalk
<1>4. ASSUME NEW i \in 1 .. Len(dag[x])
      PROVE  SeenAt(maxDepth, seen', dag[x][i], s + 1) \/ Pending(walk', x, s, i)
  <2>0. i \in Nat
    <3>1. Len(dag[x]) \in Nat
      BY <1>1, DagIs
    <3> QED BY <3>1
  <2>1. CASE SeenAt(maxDepth, seen, dag[x][i], s + 1)
    <3>1. s + 1 \in Int
      OBVIOUS
    <3> QED BY <2>1, <3>1, LinkSeen
  <2>2. CASE Pending(walk, x, s, i)
    <3>1. PICK k \in 1 .. l + 1 : walk[k].node = x /\ walk[k].depth <= s /\ walk[k].link <= i
      BY <1>2, <2>2 DEF Pending
    <3>2. CASE k \in 1 .. l
      <4>1. k \in 1 .. Len(walk') /\ walk'[k] = walk[k]
        BY <1>2, <1>3, <3>2
      <4> QED BY <3>1, <4>1 DEF Pending
    <3>3. CASE k = l + 1
      <4>1. f.node = x /\ f.depth <= s /\ f.link <= i /\ f.link \in Nat
        BY <1>1, <1>2, <3>1, <3>3 DEF RefFrame
      <4>2. CASE f.link = i
        <5>1. SeenAt(maxDepth, seen', c, s + 1)
          BY <4>1, LinkSeen
        <5> QED BY <1>1, <4>1, <4>2, <5>1
      <4>3. CASE f.link # i
        <5>1. on.node = x /\ on.depth <= s /\ on.link <= i
          BY <1>1, <2>0, <4>1, <4>3 DEF NextLink
        <5>2. l + 1 \in 1 .. Len(walk')
          BY <1>3
        <5> QED BY <1>2, <5>1, <5>2 DEF Pending
      <4> QED BY <4>2, <4>3
    <3> QED BY <3>2, <3>3
  <2> QED BY <2>1, <2>2 DEF Covered
<1> QED BY <1>4 DEF Covered

LEMMA UniqueInit == RefsInit => UniqueInv
<1> SUFFICES ASSUME RefsInit PROVE OnceEach /\ SeenReached /\ WalkReached /\ SeenCovered /\ ArgsCovered
  BY DEF UniqueInv
<1>1. RefsPlace /\ refsOut = <<>> /\ walk = <<>> /\ refArgs = allArgs /\ DOMAIN seen = {}
  BY PlaceInit DEF RefsInit
<1>2. OnceEach
  BY <1>1, TimesLaw DEF OnceEach
<1>3. SeenReached /\ SeenCovered
  BY <1>1 DEF SeenReached, SeenCovered
<1>4. WalkReached
  BY <1>1 DEF WalkReached
<1>5. ArgsCovered
  <2>1. ArgsDone = 0
    BY <1>1 DEF ArgsDone, RefsPlace, RefsTypes
  <2> QED BY <2>1 DEF ArgsCovered
<1> QED BY <1>2, <1>3, <1>4, <1>5

LEMMA ArgUnique ==
  ASSUME RefsPlace, UniqueInv, WriteRefs
  PROVE  UniqueInv'
<1>0. RefsTypes /\ ArgsInOrder /\ RefsGiven /\ refsOut' = refsOut /\ seen' = seen /\ walk = <<>>
  BY DEF RefsPlace, WriteRefs
<1>1. unique' = unique /\ dag' = dag /\ RefsDepth' = RefsDepth /\ allArgs' = allArgs /\ maxDepth' = maxDepth
  BY <1>0, GivenStays
<1> SUFFICES ASSUME unique, refErrors' = 0 PROVE (OnceEach /\ SeenReached /\ WalkReached /\ SeenCovered /\ ArgsCovered)'
  BY <1>1 DEF UniqueInv
<1>2. PICK h \in RefNodes : /\ h = Head(refArgs) /\ h = allArgs[ArgsDone + 1] /\ ArgsDone + 1 \in 1 .. Len(allArgs)
                            /\ ArgsDone' = ArgsDone + 1
  BY <1>0, ArgTaken
<1>3. refErrors = 0 /\ walk' = <<Call(h, 0)>>
  <2>1. refErrors \in Nat
    BY <1>0 DEF RefsTypes
  <2>2. h \notin missing
    BY <1>2, <2>1 DEF WriteRefs, RefArgumentFails
  <2> QED BY <1>2, <2>2 DEF WriteRefs
<1>4. OnceEach /\ SeenReached /\ SeenCovered /\ ArgsCovered
  BY <1>3 DEF UniqueInv
<1>5. /\ Len(walk') = 1 /\ walk'[1] = Call(h, 0) /\ Call(h, 0).node = h /\ Call(h, 0).link = 1 /\ Call(h, 0).depth = 0
      /\ \A k \in 1 .. Len(walk') : k = 1
  BY <1>2, <1>3, CallIs
<1>6. OnceEach' /\ SeenReached'
  BY <1>0, <1>1, <1>4 DEF OnceEach, SeenReached
<1>7. WalkReached'
  <2>1. Reached(dag, allArgs, h, 0)
    BY <1>2 DEF Reached
  <2> QED BY <1>1, <1>5, <2>1 DEF WalkReached
<1>8. \A x, s : Covered(dag, maxDepth, seen, walk, x, s) => Covered(dag, maxDepth, seen, walk', x, s)
  BY <1>0 DEF Covered, Pending
<1>9. SeenCovered'
  BY <1>0, <1>1, <1>4, <1>8 DEF SeenCovered, Above
<1>10. Covered(dag, maxDepth, seen, walk', h, 0)
  <2>1. Len(dag[h]) \in Nat
    BY <1>0, DagIs
  <2>2. \A i \in 1 .. Len(dag[h]) : Pending(walk', h, 0, i)
    BY <1>5, <2>1 DEF Pending
  <2> QED BY <2>2 DEF Covered
<1>11. ArgsCovered'
  <2>1. ArgsDone \in Nat
    BY <1>0, <1>2 DEF ArgsInOrder
  <2>2. ASSUME Above(0), NEW a \in 1 .. ArgsDone + 1 PROVE Covered(dag, maxDepth, seen, walk', allArgs[a], 0)
    <3>1. a \in 1 .. ArgsDone \/ a = ArgsDone + 1
      BY <2>1
    <3>2. CASE a \in 1 .. ArgsDone
      BY <1>4, <1>8, <2>2, <3>2 DEF ArgsCovered
    <3> QED BY <1>2, <1>10, <3>1, <3>2
  <2> QED BY <1>0, <1>1, <1>2, <2>2 DEF ArgsCovered, Above
<1> QED BY <1>6, <1>7, <1>9, <1>11

LEMMA ReturnUnique ==
  ASSUME RefsPlace, UniqueInv, RefReturn
  PROVE  UniqueInv'
<1>0. RefsTypes
  BY DEF RefsPlace
<1>1. RefsGiven /\ UNCHANGED <<refArgs, seen, refsOut, refErrors>>
  BY <1>0, ReturnIs
<1>2. unique' = unique /\ dag' = dag /\ RefsDepth' = RefsDepth /\ allArgs' = allArgs /\ maxDepth' = maxDepth /\ ArgsDone' = ArgsDone
  BY <1>1, GivenStays DEF ArgsDone
<1> SUFFICES ASSUME unique, refErrors = 0 PROVE (OnceEach /\ SeenReached /\ WalkReached /\ SeenCovered /\ ArgsCovered)'
  BY <1>1, <1>2 DEF UniqueInv
<1>3. PICK b \in Seq(RefFrame), f \in RefFrame : walk = Append(b, f) /\ walk' = b /\ f.link > Len(dag[f.node])
  BY <1>0, ReturnIs
<1>4. PICK l \in Nat : l = Len(b) /\ Len(walk) = l + 1 /\ walk[l + 1] = f /\ \A k \in 1 .. l : walk[k] = b[k]
  BY <1>3, WalkWith
<1>5. OnceEach /\ SeenReached /\ WalkReached /\ SeenCovered /\ ArgsCovered
  BY DEF UniqueInv
<1>6. OnceEach' /\ SeenReached'
  BY <1>1, <1>2, <1>5 DEF OnceEach, SeenReached
<1>7. WalkReached'
  <2>1. \A k \in 1 .. l : k \in 1 .. Len(walk)
    BY <1>4
  <2> QED BY <1>2, <1>3, <1>4, <1>5, <2>1 DEF WalkReached
<1>8. ASSUME NEW x, NEW s, Covered(dag, maxDepth, seen, walk, x, s), x \in RefNodes PROVE Covered(dag, maxDepth, seen, b, x, s)
  <2> SUFFICES ASSUME NEW i \in 1 .. Len(dag[x]), Pending(walk, x, s, i) PROVE Pending(b, x, s, i)
    BY <1>8 DEF Covered
  <2>1. PICK k \in 1 .. l + 1 : walk[k].node = x /\ walk[k].depth <= s /\ walk[k].link <= i
    BY <1>4 DEF Pending
  <2>2. k # l + 1
    <3>1. Len(dag[x]) \in Nat
      BY <1>0, <1>8, DagIs
    <3>2. f.node = x => f.link > i
      BY <1>3, <3>1 DEF RefFrame
    <3>3. f.link \in Nat /\ i \in Nat
      BY <3>1 DEF RefFrame
    <3> QED BY <1>4, <2>1, <3>2, <3>3
  <2>3. k \in 1 .. l
    BY <1>4, <2>2
  <2> QED BY <1>4, <2>1, <2>3 DEF Pending
<1>9. SeenCovered'
  <2>1. \A x \in DOMAIN seen : x \in RefNodes
    BY <1>0 DEF RefsTypes
  <2> QED BY <1>1, <1>2, <1>3, <1>5, <1>8, <2>1 DEF SeenCovered, Above
<1>10. ArgsCovered'
  <2>1. \A a \in 1 .. ArgsDone : allArgs[a] \in RefNodes
    <3>1. \A a \in 1 .. Len(allArgs) : allArgs[a] \in RefNodes
      BY <1>0, ElementOfSeq DEF RefsTypes
    <3>2. ArgsDone \in 0 .. Len(allArgs) /\ Len(allArgs) \in Nat
      BY <1>0 DEF RefsPlace, ArgsInOrder, RefsTypes
    <3> QED BY <3>1, <3>2
  <2> QED BY <1>1, <1>2, <1>3, <1>5, <1>8, <2>1 DEF ArgsCovered, Above
<1> QED BY <1>6, <1>7, <1>9, <1>10

LEMMA LinkUnique ==
  ASSUME RefsPlace, UniqueInv, RefsGiven, refArgs' = refArgs,
         NEW b, NEW f, NEW on, NEW c, AtLink(b, f, on, c), LinkTaken(b, f, on, c)
  PROVE  UniqueInv'
<1>0. RefsTypes /\ f \in RefFrame /\ b \in Seq(RefFrame) /\ on \in RefFrame /\ c \in RefNodes /\ walk = Append(b, f)
  BY DEF RefsPlace, AtLink, NextLink
<1>1. unique' = unique /\ dag' = dag /\ RefsDepth' = RefsDepth /\ allArgs' = allArgs /\ maxDepth' = maxDepth /\ ArgsDone' = ArgsDone
  BY GivenStays DEF ArgsDone
<1> SUFFICES ASSUME unique, refErrors' = 0 PROVE (OnceEach /\ SeenReached /\ WalkReached /\ SeenCovered /\ ArgsCovered)'
  BY <1>1 DEF UniqueInv
<1>2. refErrors = 0 /\ refErrors' = refErrors
  BY <1>0 DEF LinkTaken, LinkPruned, LinkMissing, LinkVisited, RefsTypes
<1>3. OnceEach /\ SeenReached /\ WalkReached /\ SeenCovered /\ ArgsCovered
  BY <1>2 DEF UniqueInv
<1>4. PICK d \in Nat, l \in Nat : d = f.depth + 1 /\ l = Len(b)
  <2>1. Len(b) \in Nat
    BY <1>0, WalkWith
  <2>2. f.depth + 1 \in Nat
    BY <1>0 DEF RefFrame
  <2> QED BY <2>1, <2>2
<1>5. /\ Len(walk) = l + 1 /\ walk[l + 1] = f /\ walk'[l + 1] = on /\ \A k \in 1 .. l : walk[k] = b[k] /\ walk'[k] = b[k]
      /\ \A k \in 1 .. Len(walk') : k \in 1 .. l \/ k = l + 1 \/ (LinkVisited(b, f.node, on, c, d) /\ walk'[k] = Call(c, d))
      /\ LinkVisited(b, f.node, on, c, d) /\ ~AtMaxDepth(d) => Len(walk') = l + 2 /\ walk'[l + 2] = Call(c, d)
  BY <1>0, <1>2, <1>4, LinkWalk
<1>6. LinkPruned(b, on, c, d) \/ LinkVisited(b, f.node, on, c, d)
  BY <1>2, <1>4 DEF LinkTaken, LinkMissing
<1>7. Reached(dag, allArgs, f.node, f.depth) /\ Reached(dag, allArgs, c, d)
  <2>1. l + 1 \in 1 .. Len(walk)
    BY <1>5
  <2>2. Reached(dag, allArgs, f.node, f.depth)
    BY <1>3, <1>5, <2>1 DEF WalkReached
  <2>3. dag \in Dags /\ allArgs \in Seq(RefNodes) /\ f.node \in RefNodes /\ f.depth \in Nat
    BY <1>0, DagIs DEF RefsTypes, RefFrame
  <2>4. f.link \in 1 .. Len(dag[f.node]) /\ c = dag[f.node][f.link]
    BY DEF AtLink
  <2> QED BY <1>4, <2>2, <2>3, <2>4, ReachedNext
<1>8. WalkReached'
  <2>1. ASSUME NEW k \in 1 .. Len(walk') PROVE Reached(dag, allArgs, walk'[k].node, walk'[k].depth)
    <3>1. CASE k \in 1 .. l
      <4>1. k \in 1 .. Len(walk) /\ walk'[k] = walk[k]
        BY <1>5, <3>1
      <4> QED BY <1>3, <4>1 DEF WalkReached
    <3>2. CASE k = l + 1
      BY <1>5, <1>7, <3>2 DEF AtLink, NextLink
    <3>3. CASE walk'[k] = Call(c, d)
      BY <1>0, <1>4, <1>7, <3>3, CallIs
    <3> QED BY <1>5, <3>1, <3>2, <3>3
  <2> QED BY <1>1, <2>1 DEF WalkReached
<1>9. ASSUME NEW x \in RefNodes, NEW s \in Nat, Above(s), Covered(dag, maxDepth, seen, walk, x, s)
      PROVE  Covered(dag, maxDepth, seen', walk', x, s)
  BY <1>2, <1>9, LinkCovers
<1>10. ArgsCovered'
  <2>1. \A a \in 1 .. ArgsDone : allArgs[a] \in RefNodes
    <3>1. \A a \in 1 .. Len(allArgs) : allArgs[a] \in RefNodes
      BY <1>0, ElementOfSeq DEF RefsTypes
    <3>2. ArgsDone \in 0 .. Len(allArgs) /\ Len(allArgs) \in Nat
      BY <1>0 DEF RefsPlace, ArgsInOrder, RefsTypes
    <3> QED BY <3>1, <3>2
  <2>2. 0 \in Nat
    OBVIOUS
  <2> QED BY <1>1, <1>3, <1>9, <2>1, <2>2 DEF ArgsCovered, Above
<1>11. DOMAIN seen \subseteq RefNodes /\ seen \in [DOMAIN seen -> Nat]
  BY <1>0 DEF RefsTypes
<1>12. CASE LinkPruned(b, on, c, d)
  <2>1. seen' = seen /\ refsOut' = refsOut
    BY <1>12 DEF LinkPruned
  <2>2. OnceEach' /\ SeenReached'
    BY <1>1, <1>3, <2>1 DEF OnceEach, SeenReached
  <2>3. ASSUME NEW x \in DOMAIN seen, Above(seen[x]) PROVE Covered(dag, maxDepth, seen', walk', x, seen[x])
    <3>1. x \in RefNodes /\ seen[x] \in Nat /\ Covered(dag, maxDepth, seen, walk, x, seen[x])
      BY <1>3, <1>11, <2>3 DEF SeenCovered
    <3> QED BY <1>9, <2>3, <3>1
  <2>4. SeenCovered'
    BY <1>1, <2>1, <2>3 DEF SeenCovered, Above
  <2> QED BY <1>8, <1>10, <2>2, <2>4
<1>13. CASE LinkVisited(b, f.node, on, c, d)
  <2>1. ~Pruned(c, d) /\ seen' = RefSeen(c, d) /\ refsOut' = IF c \notin DOMAIN seen THEN Append(refsOut, <<f.node, c>>) ELSE refsOut
    BY <1>13 DEF LinkVisited
  <2>2. DOMAIN seen' = DOMAIN seen \union {c} /\ seen'[c] = d /\ \A x \in DOMAIN seen : x # c => seen'[x] = seen[x]
    BY <1>0, <2>1, SeenIs
  <2>3. d \in 1 .. RefsDepth
    <3>1. FrameShallow(f) /\ ~OverMaxDepth(d)
      BY <1>0, <2>1, WalkFits DEF Pruned
    <3> QED BY <1>0, <1>4, <3>1, LinkFits DEF AtLink
  <2>4. OnceEach'
    <3>1. PICK e \in RefNodes \X RefNodes : e = <<f.node, c>> /\ e[2] = c
      <4>1. f.node \in RefNodes
        BY <1>0 DEF RefFrame
      <4>2. <<f.node, c>> \in RefNodes \X RefNodes /\ <<f.node, c>>[2] = c
        BY <1>0, <4>1
      <4> QED BY <4>2, Zenon
    <3>2. refsOut \in Seq(RefNodes \X RefNodes)
      BY <1>0 DEF RefsTypes
    <3>3. ASSUME NEW x \in RefNodes PROVE TimesIn(refsOut', x) = IF x \in DOMAIN seen' THEN 1 ELSE 0
      <4>1. PICK hit \in {0, 1} : hit = (IF e[2] = x THEN 1 ELSE 0)
        OBVIOUS
      <4>2. TimesIn(Append(refsOut, e), x) = TimesIn(refsOut, x) + hit
        BY <3>2, <4>1, TimesLaw
      <4>3. PICK times \in {0, 1} : times = TimesIn(refsOut, x) /\ (times = 1 <=> x \in DOMAIN seen)
        BY <1>3 DEF OnceEach
      <4>4. CASE c \in DOMAIN seen
        BY <2>1, <2>2, <4>3, <4>4
      <4>5. CASE c \notin DOMAIN seen
        <5>1. TimesIn(refsOut', x) = times + hit
          BY <2>1, <3>1, <4>2, <4>3, <4>5
        <5>2. hit = 1 <=> x = c
          BY <3>1, <4>1
        <5> QED BY <2>2, <4>3, <4>5, <5>1, <5>2
      <4> QED BY <4>4, <4>5
    <3> QED BY <3>3 DEF OnceEach
  <2>5. SeenReached'
    <3>1. \A x \in DOMAIN seen' : seen'[x] \in 1 .. RefsDepth /\ Reached(dag, allArgs, x, seen'[x])
      BY <1>3, <1>7, <2>2, <2>3 DEF SeenReached
    <3> QED BY <1>1, <3>1 DEF SeenReached
  <2>6. ASSUME NEW x \in DOMAIN seen', Above(seen'[x]) PROVE Covered(dag, maxDepth, seen', walk', x, seen'[x])
    <3>1. CASE x # c
      <4>1. x \in DOMAIN seen /\ seen'[x] = seen[x]
        BY <2>2, <3>1
      <4>2. x \in RefNodes /\ seen[x] \in Nat /\ Covered(dag, maxDepth, seen, walk, x, seen[x]) /\ Above(seen[x])
        BY <1>3, <1>11, <2>6, <4>1 DEF SeenCovered
      <4> QED BY <1>9, <4>1, <4>2
    <3>2. CASE x = c
      <4>1. ~AtMaxDepth(d)
        BY <2>2, <2>6, <3>2 DEF Above, AtMaxDepth
      <4>2. Len(walk') = l + 2 /\ walk'[l + 2].node = c /\ walk'[l + 2].link = 1 /\ walk'[l + 2].depth = d
        BY <1>0, <1>5, <1>13, <4>1, CallIs
      <4>3. l + 2 \in 1 .. Len(walk')
        BY <4>2
      <4>4. \A i \in 1 .. Len(dag[c]) : Pending(walk', c, d, i)
        <5>1. Len(dag[c]) \in Nat
          BY <1>0, DagIs
        <5> QED BY <4>2, <4>3, <5>1 DEF Pending
      <4> QED BY <2>2, <3>2, <4>4 DEF Covered
    <3> QED BY <3>1, <3>2
  <2>7. SeenCovered'
    BY <1>1, <2>6 DEF SeenCovered, Above
  <2> QED BY <1>8, <1>10, <2>4, <2>5, <2>7
<1> QED BY <1>6, <1>12, <1>13

LEMMA UniqueStep == RefsPlace /\ UniqueInv /\ RefsNext => UniqueInv'
<1> SUFFICES ASSUME RefsPlace, UniqueInv, RefsNext PROVE UniqueInv'
  OBVIOUS
<1>1. CASE WriteRefs
  BY <1>1, ArgUnique
<1>2. CASE RefLink
  <2>1. RefsTypes
    BY DEF RefsPlace
  <2>2. PICK b, f, on, c : AtLink(b, f, on, c) /\ LinkTaken(b, f, on, c)
    BY <1>2, <2>1, LinkSteps
  <2> QED BY <1>2, <2>1, <2>2, LinkSteps, LinkUnique
<1>3. CASE RefReturn
  BY <1>3, ReturnUnique
<1> QED BY <1>1, <1>2, <1>3 DEF RefsNext

\* When the walk is over, all links of a node that was met low enough were met, and
\* so on down to the depth.
Open(x, s) == \A i \in 1 .. Len(dag[x]) : SeenAt(maxDepth, seen, dag[x][i], s + 1)

LEMMA OpenWhenDone ==
  ASSUME RefsDone, NEW x, NEW s, Covered(dag, maxDepth, seen, walk, x, s)
  PROVE  Open(x, s)
<1>1. walk = <<>>
  BY DEF RefsDone
<1>2. \A i : ~Pending(walk, x, s, i)
  BY <1>1 DEF Pending
<1> QED BY <1>2 DEF Covered, Open

LEMMA AllMet ==
  ASSUME RefsPlace, UniqueInv, RefsDone, refErrors = 0, unique, NEW c \in RefNodes,
         NEW k \in Nat, NEW x \in RefNodes, NEW s \in Nat,
         maxDepth >= 0 => s + k <= maxDepth, k > 0 => Open(x, s), Leads(dag, k, x, c)
  PROVE  c \in DOMAIN seen
<1> DEFINE Low(j, t) == maxDepth >= 0 => t + j <= maxDepth
           P == {j \in Nat : \A y \in RefNodes, t \in Nat :
                   Low(j, t) /\ (j > 0 => Open(y, t)) /\ Leads(dag, j, y, c) => c \in DOMAIN seen}
<1>1. RefsTypes /\ dag \in Dags /\ maxDepth \in Int /\ seen \in [DOMAIN seen -> Nat]
  BY DagIs DEF RefsPlace, RefsTypes
<1>2. 0 \in P
  BY <1>1, LeadsLaw
<1>3. ASSUME NEW j \in Nat, j \in P PROVE j + 1 \in P
  <2> SUFFICES ASSUME NEW y \in RefNodes, NEW t \in Nat, Low(j + 1, t), Open(y, t), Leads(dag, j + 1, y, c)
               PROVE  c \in DOMAIN seen
    OBVIOUS
  <2>1. PICK i \in 1 .. Len(dag[y]) : dag[y][i] = c \/ Leads(dag, j, dag[y][i], c)
    BY <1>1, LeadsLaw
  <2>2. PICK z \in RefNodes : z = dag[y][i]
    BY <1>1, DagIs
  <2>3. z \in DOMAIN seen /\ (maxDepth >= 0 => seen[z] <= t + 1) /\ seen[z] \in Nat
    BY <1>1, <2>2 DEF Open, SeenAt
  <2>4. CASE z = c
    BY <2>3, <2>4
  <2>5. CASE Leads(dag, j, z, c)
    <3>1. PICK u \in Nat : u = seen[z]
      BY <2>3
    <3>2. Low(j, u)
      BY <1>1, <2>3, <3>1
    <3>3. j > 0 => Open(z, u)
      <4> SUFFICES ASSUME j > 0 PROVE Open(z, u)
        OBVIOUS
      <4>1. Above(seen[z])
        BY <1>1, <3>1, <3>2 DEF Above
      <4>2. Covered(dag, maxDepth, seen, walk, z, seen[z])
        BY <2>3, <4>1 DEF UniqueInv, SeenCovered
      <4> QED BY <3>1, <4>2, OpenWhenDone
    <3> QED BY <1>3, <2>5, <3>2, <3>3
  <2> QED BY <2>1, <2>2, <2>4, <2>5
<1>4. Nat \subseteq P
  <2> HIDE DEF P
  <2> QED BY <1>2, <1>3, NatSetInduction
<1> QED BY <1>4

LEMMA WaysToSome ==
  ASSUME RefsPlace, NEW c \in RefNodes
  PROVE  /\ WaysTo(WaysFrom(dag, RefsDepth), c) \in Nat
         /\ WaysTo(WaysFrom(dag, RefsDepth), c) > 0 <=> \E a \in 1 .. Len(allArgs) : Leads(dag, RefsDepth, allArgs[a], c)
<1>1. PICK l \in Nat : l = Len(allArgs)
  BY ArgWaysAre
<1>2. PICK ways \in [1 .. l -> Nat] : ways = ArgWays(c)
  BY <1>1, ArgWaysAre
<1>3. WaysTo(WaysFrom(dag, RefsDepth), c) = SumTo(ways, l)
  BY <1>1, <1>2, ArgWaysAre
<1>4. SumTo(ways, l) \in Nat /\ (SumTo(ways, l) > 0 <=> \E a \in 1 .. l : ways[a] > 0)
  <2>1. l \in 0 .. l
    OBVIOUS
  <2> QED BY <2>1, SumPositive
<1>5. \A a \in 1 .. l : ways[a] > 0 <=> Leads(dag, RefsDepth, allArgs[a], c)
  BY <1>1, <1>2, ArgWaysAre DEF Leads
<1> QED BY <1>1, <1>3, <1>4, <1>5

LEMMA UniqueTrue ==
  ASSUME RefsPlace, UniqueInv, RefsDone, refErrors = 0, unique, NEW c \in RefNodes
  PROVE  Times(c) = IF WaysTo(WaysFrom(dag, RefsDepth), c) > 0 THEN 1 ELSE 0
<1>0. /\ RefsTypes /\ ArgsInOrder /\ dag \in Dags /\ maxDepth \in Int /\ seen \in [DOMAIN seen -> Nat] /\ RefsDepth \in Nat
      /\ (maxDepth >= 0 => RefsDepth = maxDepth)
  BY DagIs, RefsDepthIs DEF RefsPlace, RefsTypes
<1>1. OnceEach /\ SeenReached /\ ArgsCovered
  BY DEF UniqueInv
<1>2. Times(c) = IF c \in DOMAIN seen THEN 1 ELSE 0
  BY <1>1 DEF OnceEach, Times, TimesIn
<1>3. PICK l \in Nat : l = Len(allArgs) /\ ArgsDone = l /\ \A a \in 1 .. l : allArgs[a] \in RefNodes
  <2>1. Len(<<>>) = 0
    OBVIOUS
  <2> QED BY <2>1, ArgWaysAre DEF ArgsDone, RefsDone
<1>4. ASSUME NEW a \in 1 .. l, Leads(dag, RefsDepth, allArgs[a], c) PROVE c \in DOMAIN seen
  <2>1. RefsDepth > 0
    BY <1>0, <1>3, <1>4, LeadsLaw
  <2>2. Above(0)
    BY <1>0, <2>1 DEF Above
  <2>3. Open(allArgs[a], 0)
    BY <1>1, <1>3, <2>2, OpenWhenDone DEF ArgsCovered
  <2>4. maxDepth >= 0 => 0 + RefsDepth <= maxDepth
    BY <1>0
  <2> QED BY <1>0, <1>3, <1>4, <2>3, <2>4, AllMet
<1>5. ASSUME c \in DOMAIN seen PROVE \E a \in 1 .. l : Leads(dag, RefsDepth, allArgs[a], c)
  <2>1. PICK s \in 1 .. RefsDepth : s = seen[c] /\ Reached(dag, allArgs, c, s)
    BY <1>1, <1>5 DEF SeenReached
  <2>2. PICK a \in 1 .. l : Leads(dag, s, allArgs[a], c)
    <3>1. s # 0
      BY <1>0, <2>1
    <3> QED BY <1>3, <2>1, <3>1 DEF Reached
  <2>3. s \in Nat /\ s <= RefsDepth
    BY <1>0, <2>1
  <2>4. Leads(dag, RefsDepth, allArgs[a], c)
    BY <1>0, <1>3, <2>2, <2>3, LeadsWithin
  <2> QED BY <2>4
<1>6. WaysTo(WaysFrom(dag, RefsDepth), c) > 0 <=> c \in DOMAIN seen
  BY <1>3, <1>4, <1>5, WaysToSome
<1> QED BY <1>2, <1>6

-----------------------------------------------------------------------------
\* Nothing that is missing was emitted, and nothing missing was asked for so far.
ToldInv ==
  /\ \A i \in 1 .. Len(refsOut) : refsOut[i][2] \notin missing
  /\ refErrors = 0 => \A a \in 1 .. ArgsDone : allArgs[a] \notin missing

LEMMA ToldInit == RefsInit => ToldInv
<1> SUFFICES ASSUME RefsInit PROVE ToldInv
  OBVIOUS
<1>1. RefsPlace /\ refsOut = <<>> /\ refArgs = allArgs
  BY PlaceInit DEF RefsInit
<1>2. ArgsDone = 0
  BY <1>1 DEF ArgsDone, RefsPlace, RefsTypes
<1> QED BY <1>1, <1>2 DEF ToldInv

LEMMA ToldStep == RefsPlace /\ ToldInv /\ RefsNext => ToldInv'
<1> SUFFICES ASSUME RefsPlace, ToldInv, RefsNext PROVE ToldInv'
  OBVIOUS
<1>0. RefsTypes /\ ArgsInOrder /\ refErrors \in Nat
  BY DEF RefsPlace, RefsTypes
<1>1. CASE WriteRefs
  <2>1. refsOut' = refsOut /\ missing' = missing /\ allArgs' = allArgs
    BY <1>1 DEF WriteRefs, RefsGiven
  <2>2. Head(refArgs) = allArgs[ArgsDone + 1] /\ ArgsDone' = ArgsDone + 1 /\ ArgsDone \in Nat
    BY <1>0, <1>1, ArgTaken DEF ArgsInOrder
  <2>3. ASSUME refErrors' = 0 PROVE refErrors = 0 /\ Head(refArgs) \notin missing
    BY <1>0, <1>1, <2>3 DEF WriteRefs, RefArgumentFails
  <2>4. ASSUME refErrors' = 0, NEW a \in 1 .. ArgsDone + 1 PROVE allArgs[a] \notin missing
    <3>1. a \in 1 .. ArgsDone \/ a = ArgsDone + 1
      BY <2>2
    <3> QED BY <2>2, <2>3, <2>4, <3>1 DEF ToldInv
  <2> QED BY <2>1, <2>2, <2>4 DEF ToldInv
<1>2. CASE RefLink
  <2>1. PICK b, f, on, c : AtLink(b, f, on, c) /\ LinkTaken(b, f, on, c)
    BY <1>0, <1>2, LinkSteps
  <2>2. missing' = missing /\ allArgs' = allArgs /\ ArgsDone' = ArgsDone
    BY <1>0, <1>2, LinkSteps DEF RefsGiven, ArgsDone
  <2>3. refErrors' = 0 => refErrors = 0
    BY <1>0, <2>1 DEF LinkTaken, LinkPruned, LinkMissing, LinkVisited
  <2>4. refsOut' = refsOut \/ (refsOut' = Append(refsOut, <<f.node, c>>) /\ c \notin missing)
    BY <2>1 DEF LinkTaken, LinkPruned, LinkMissing, LinkVisited
  <2>5. \A i \in 1 .. Len(refsOut') : refsOut'[i][2] \notin missing
    <3>1. CASE refsOut' = refsOut
      BY <3>1 DEF ToldInv
    <3>2. CASE refsOut' = Append(refsOut, <<f.node, c>>) /\ c \notin missing
      <4>1. PICK l \in Nat : l = Len(refsOut)
        BY <1>0 DEF RefsTypes
      <4>2. <<f.node, c>> \in RefNodes \X RefNodes /\ refsOut \in Seq(RefNodes \X RefNodes)
        BY <1>0, <2>1 DEF AtLink, RefFrame, RefsTypes
      <4>3. Len(refsOut') = l + 1 /\ refsOut'[l + 1] = <<f.node, c>> /\ \A i \in 1 .. l : refsOut'[i] = refsOut[i]
        BY <3>2, <4>1, <4>2, AppendProperties
      <4>4. \A i \in 1 .. l + 1 : i \in 1 .. l \/ i = l + 1
        BY <4>1
      <4> QED BY <3>2, <4>1, <4>3, <4>4 DEF ToldInv
    <3> QED BY <2>4, <3>1, <3>2
  <2> QED BY <2>2, <2>3, <2>5 DEF ToldInv
<1>3. CASE RefReturn
  <2>1. RefsGiven /\ UNCHANGED <<refArgs, seen, refsOut, refErrors>>
    BY <1>0, <1>3, ReturnIs
  <2> QED BY <2>1 DEF ToldInv, RefsGiven, ArgsDone
<1> QED BY <1>1, <1>2, <1>3 DEF RefsNext

RefsInv == RefsPlace /\ CountInv /\ UniqueInv /\ ToldInv

LEMMA RefsStutter == RefsInv /\ UNCHANGED rfVars => RefsInv'
BY DEF RefsInv, rfVars, RefsPlace, RefsTypes, ArgsInOrder, ArgsDone, WalkShallow, FrameShallow, RefsDepth,
       CountInv, Emitted, ArgWays, UniqueInv, OnceEach, SeenReached, WalkReached, SeenCovered, ArgsCovered, Above, ToldInv

\* The inductive invariant of the walk (writeRefsRecursive and visit, refs.go:213, :275).
THEOREM RefsInvariant == RefsSpec => []RefsInv
<1>1. RefsInit => RefsInv
  BY PlaceInit, CountInit, UniqueInit, ToldInit DEF RefsInv
<1>2. RefsInv /\ [RefsNext]_rfVars => RefsInv'
  <2>1. RefsInv /\ RefsNext => RefsInv'
    BY PlaceStep, CountStep, UniqueStep, ToldStep DEF RefsInv
  <2> QED BY <2>1, RefsStutter
<1> QED BY <1>1, <1>2, PTL DEF RefsSpec

LEMMA RefsInvTrue == RefsInv => RefsTrue
<1> SUFFICES ASSUME RefsInv, RefsDone PROVE RefsTrue
  BY DEF RefsTrue, RefsExact, RefsMissingTold
<1>0. RefsPlace /\ CountInv /\ UniqueInv /\ ToldInv
  BY DEF RefsInv
<1>1. ASSUME refErrors = 0, NEW c \in RefNodes
      PROVE  Times(c) = IF unique /\ WaysTo(WaysFrom(dag, RefsDepth), c) > 0 THEN 1 ELSE WaysTo(WaysFrom(dag, RefsDepth), c)
  <2>1. CASE ~unique
    BY <1>0, <1>1, <2>1, CountsTrue
  <2>2. CASE unique
    <3>1. WaysTo(WaysFrom(dag, RefsDepth), c) \in Nat
      BY <1>0, WaysToSome
    <3> QED BY <1>0, <1>1, <2>2, <3>1, UniqueTrue
  <2> QED BY <2>1, <2>2
<1>2. ASSUME NEW c \in missing, refErrors = 0, WaysTo(WaysFrom(dag, RefsDepth), c) > 0 PROVE FALSE
  <2>1. c \in RefNodes /\ refsOut \in Seq(RefNodes \X RefNodes)
    BY <1>0 DEF RefsPlace, RefsTypes
  <2>2. TimesIn(refsOut, c) > 0
    <3>1. Times(c) > 0
      BY <1>1, <1>2, <2>1
    <3> QED BY <3>1 DEF Times, TimesIn
  <2>3. <<c, c>> \in RefNodes \X RefNodes
    BY <2>1
  <2>4. \E i \in 1 .. Len(refsOut) : refsOut[i][2] = c
    BY <2>1, <2>2, <2>3, TimesLaw
  <2> QED BY <1>0, <2>4 DEF ToldInv
<1>3. ASSUME NEW c \in missing, refErrors = 0, NEW i \in 1 .. Len(allArgs), allArgs[i] = c PROVE FALSE
  <2>1. ArgsDone = Len(allArgs)
    <3>1. Len(<<>>) = 0 /\ Len(allArgs) \in Nat
      BY <1>0 DEF RefsPlace, RefsTypes
    <3> QED BY <3>1 DEF ArgsDone, RefsDone
  <2> QED BY <1>0, <1>3, <2>1 DEF ToldInv
<1>4. refErrors \in Nat
  BY <1>0 DEF RefsPlace, RefsTypes
<1>5. RefsExact
  BY <1>1 DEF RefsExact
<1>6. RefsMissingTold
  BY <1>2, <1>3, <1>4 DEF RefsMissingTold
<1> QED BY <1>5, <1>6 DEF RefsTrue

\* In every DAG, for all arguments and depths: `refs` that reports no error lists every
\* CID as often as a way leads to it, with --unique once, however the branches are
\* pruned (visit, refs.go:275), and a missing block is reported (refs.go:123).
THEOREM RefsAreTrue == RefsSpec => []RefsTrue
<1>1. RefsInv => RefsTrue
  BY RefsInvTrue
<1> QED BY <1>1, RefsInvariant, PTL
=============================================================================
