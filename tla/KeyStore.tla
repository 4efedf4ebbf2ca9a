------------------------------ MODULE KeyStore ------------------------------
(***************************************************************************)
(* The key store: `ipfs key` and the key API (core/commands/keystore.go,   *)
(* core/coreapi/key.go) and the lookups of `ipfs name publish`             *)
(* (core/coreapi/name.go).  The commands run concurrently inside a daemon  *)
(* and share one directory of key files, each call on which is atomic; a   *)
(* command makes several.  `ipfs key rotate` runs without a daemon.        *)
(***************************************************************************)
EXTENDS Naturals, FiniteSets

CONSTANTS
  KeyNames,  \* names of keys; "self" is not among them
  KeyCmds,   \* commands in progress
  FullKeyCmds,  \* those that also remove, list and look up; the others gen, import and rename
  MaxKey     \* bound on the number of keys ever made

ASSUME KeyConstants ==
  /\ "self" \notin KeyNames /\ IsFiniteSet(KeyNames) /\ IsFiniteSet(KeyCmds)
  /\ MaxKey \in Nat

NoKey == 0
NoName == "none"
Keys == 1 .. MaxKey
Names == KeyNames \union {"self"}

VARIABLES
  ks,        \* the key store: name -> key
  kcmd,      \* the commands
  identity,  \* Config.Identity on disk
  loaded,    \* the identity the daemon has loaded
  holder,    \* who has the repo locked: "none", "daemon" or "rotate"
  made,      \* the number of keys made so far
  dropped    \* keys that a command was asked to remove or overwrite

kVars == <<ks, kcmd, identity, loaded, holder, made, dropped>>

IdleKeyCmd == [op |-> "idle", name |-> NoName, to |-> NoName, key |-> NoKey, left |-> {}]

KeyInit ==
  /\ ks = [n \in Names |-> NoKey]
  /\ kcmd = [c \in KeyCmds |-> IdleKeyCmd]
  /\ identity = 1 /\ loaded = NoKey /\ holder = "none"
  /\ made = 1 /\ dropped = {}

Become(c, r) == kcmd' = [kcmd EXCEPT ![c] = r]
Finish(c) == Become(c, IdleKeyCmd)
At(c, op) == holder = "daemon" /\ kcmd[c].op = op
StoreAsIs == UNCHANGED <<ks, identity, loaded, holder, made, dropped>>

-----------------------------------------------------------------------------
\* key gen: the name must be free.  The key is generated meanwhile.
KeyGenCheck(c, n) ==
  /\ At(c, "idle") /\ n # "self" /\ ks[n] = NoKey
  /\ Become(c, [IdleKeyCmd EXCEPT !.op = "put", !.name = n])
  /\ StoreAsIs

\* key import: the same, with a key from the user's file, which may not be one.
KeyImportCheck(c, n) ==
  /\ At(c, "idle") /\ n # "self" /\ ks[n] = NoKey
  /\ Become(c, [IdleKeyCmd EXCEPT !.op = "put", !.name = n])
  /\ StoreAsIs

\* Mutant: the key file is written whether it is there or not.
KeyGenPutOver(c) ==
  /\ At(c, "put") /\ made < MaxKey
  /\ made' = made + 1 /\ ks' = [ks EXCEPT ![kcmd[c].name] = made + 1]
  /\ Finish(c)
  /\ UNCHANGED <<identity, loaded, holder, dropped>>

\* Put fails when another command took the name in between.
KeyGenPut(c) ==
  /\ At(c, "put") /\ made < MaxKey
  /\ IF ks[kcmd[c].name] = NoKey
     THEN made' = made + 1 /\ ks' = [ks EXCEPT ![kcmd[c].name] = made + 1]
     ELSE UNCHANGED <<made, ks>>
  /\ Finish(c)
  /\ UNCHANGED <<identity, loaded, holder, dropped>>

\* key rm: the names one after the other.
KeyRmCmd(c, names) ==
  /\ At(c, "idle")
  /\ Become(c, [IdleKeyCmd EXCEPT !.op = "rmNext", !.left = names])
  /\ StoreAsIs

\* Remove: the key is read for the answer, then the name is deleted.  The first
\* that fails ends the command, and the ones before it are gone.
KeyRmGet(c) ==
  /\ At(c, "rmNext")
  /\ IF kcmd[c].left = {} THEN Finish(c)
     ELSE \E n \in kcmd[c].left :
            IF n = "self" \/ ks[n] = NoKey THEN Finish(c)
            ELSE Become(c, [kcmd[c] EXCEPT !.op = "rm", !.name = n, !.left = @ \ {n}])
  /\ StoreAsIs
KeyRmDelete(c) ==
  /\ At(c, "rm")
  /\ dropped' = dropped \union ({ks[kcmd[c].name]} \ {NoKey})
  /\ ks' = [ks EXCEPT ![kcmd[c].name] = NoKey]
  /\ IF ks[kcmd[c].name] = NoKey THEN Finish(c) ELSE Become(c, [kcmd[c] EXCEPT !.op = "rmNext", !.name = NoName])
  /\ UNCHANGED <<identity, loaded, holder, made>>

\* key rename: the key is read; renaming a key to its own name ends here.
KeyRenameGet(c, n, to, force) ==
  /\ At(c, "idle") /\ "self" \notin {n, to} /\ ks[n] # NoKey /\ n # to
  /\ Become(c, [IdleKeyCmd EXCEPT !.op = IF force THEN "has" ELSE "renamePut",
                                  !.name = n, !.to = to, !.key = ks[n]])
  /\ StoreAsIs

\* With --force a key that has the new name is deleted first.
KeyRenameHas(c) ==
  /\ At(c, "has")
  /\ Become(c, [kcmd[c] EXCEPT !.op = IF ks[kcmd[c].to] = NoKey THEN "renamePut" ELSE "overwrite"])
  /\ StoreAsIs
KeyRenameOverwrite(c) ==
  /\ At(c, "overwrite")
  /\ dropped' = dropped \union ({ks[kcmd[c].to]} \ {NoKey})
  /\ ks' = [ks EXCEPT ![kcmd[c].to] = NoKey]
  /\ IF ks[kcmd[c].to] = NoKey THEN Finish(c) ELSE Become(c, [kcmd[c] EXCEPT !.op = "renamePut"])
  /\ UNCHANGED <<identity, loaded, holder, made>>

\* The key gets its second name; a taken name is an error.
KeyRenamePut(c) ==
  /\ At(c, "renamePut")
  /\ IF ks[kcmd[c].to] = NoKey
     THEN ks' = [ks EXCEPT ![kcmd[c].to] = kcmd[c].key] /\ Become(c, [kcmd[c] EXCEPT !.op = "renameDelete"])
     ELSE UNCHANGED ks /\ Finish(c)
  /\ UNCHANGED <<identity, loaded, holder, made, dropped>>

\* The old name is deleted, whatever key has it by now.
KeyRenameDelete(c) ==
  /\ At(c, "renameDelete")
  /\ dropped' = dropped \union ({ks[kcmd[c].name]} \ {NoKey, kcmd[c].key})
  /\ ks' = [ks EXCEPT ![kcmd[c].name] = NoKey]
  /\ Finish(c)
  /\ UNCHANGED <<identity, loaded, holder, made>>

\* key list: the names, then one Get for each; a name that is gone by then is an
\* error.
KeyList(c) ==
  /\ At(c, "idle")
  /\ Become(c, [IdleKeyCmd EXCEPT !.op = "list", !.left = {n \in KeyNames : ks[n] # NoKey}])
  /\ StoreAsIs
KeyListGet(c) ==
  /\ At(c, "list")
  /\ IF kcmd[c].left = {} THEN Finish(c)
     ELSE \E n \in kcmd[c].left :
            IF ks[n] = NoKey THEN Finish(c) ELSE Become(c, [kcmd[c] EXCEPT !.left = @ \ {n}])
  /\ StoreAsIs

\* keylookup, of name publish, by ID (a key): the node's own, or the names as
\* above until one has that key; with it the record is signed.
KeyLookup(c, k) ==
  /\ At(c, "idle")
  /\ Become(c, IF k = loaded THEN [IdleKeyCmd EXCEPT !.op = "sign", !.key = k]
               ELSE [IdleKeyCmd EXCEPT !.op = "lookup", !.key = k, !.left = {n \in KeyNames : ks[n] # NoKey}])
  /\ StoreAsIs
KeyLookupGet(c) ==
  /\ At(c, "lookup")
  /\ IF kcmd[c].left = {} THEN Finish(c)
     ELSE \E n \in kcmd[c].left :
            CASE ks[n] = NoKey -> Finish(c)
              [] ks[n] = kcmd[c].key -> Become(c, [kcmd[c] EXCEPT !.op = "sign", !.left = {}])
              [] OTHER -> Become(c, [kcmd[c] EXCEPT !.left = @ \ {n}])
  /\ StoreAsIs
NamePublish(c) == At(c, "sign") /\ Finish(c) /\ StoreAsIs

\* key sign: the daemon's own key, or the one the store has under the name.
KeyUsed(n) == IF n = "self" THEN loaded ELSE ks[n]
\* key verify takes the public half of the same key.
KeyVerified(n) == IF n = "self" THEN loaded ELSE ks[n]
\* key export reads the key file, beside a daemon or not.
KeyExported(n) == IF n = "self" THEN NoKey ELSE ks[n]

-----------------------------------------------------------------------------
\* The daemon locks the repo and loads the identity; commands end with it.
KeyDaemonStart ==
  /\ holder = "none"
  /\ holder' = "daemon" /\ loaded' = identity
  /\ UNCHANGED <<ks, kcmd, identity, made, dropped>>
KeyDaemonEnd ==
  /\ holder = "daemon"
  /\ holder' = "none" /\ loaded' = NoKey
  /\ kcmd' = [c \in KeyCmds |-> IdleKeyCmd]
  /\ UNCHANGED <<ks, identity, made, dropped>>

\* key rotate: no daemon may run; the old identity is put into the store under a
\* free name, then the config gets the new one, or the write fails or the
\* process dies and the old one stays.
KeyRotateOpen(n) ==
  /\ holder = "none" /\ made < MaxKey /\ n # "self" /\ ks[n] = NoKey
  /\ ks' = [ks EXCEPT ![n] = identity]
  /\ holder' = "rotate"
  /\ UNCHANGED <<kcmd, identity, loaded, made, dropped>>

KeyRotateConfig ==
  /\ holder = "rotate"
  /\ \/ identity' = made + 1 /\ made' = made + 1
     \/ UNCHANGED <<identity, made>>
  /\ holder' = "none"
  /\ UNCHANGED <<ks, kcmd, loaded, dropped>>

KeyNext ==
  \/ \E c \in KeyCmds :
       \/ KeyGenPut(c) \/ KeyRmGet(c) \/ KeyRmDelete(c) \/ KeyRenameHas(c) \/ KeyRenameOverwrite(c)
       \/ KeyRenamePut(c) \/ KeyRenameDelete(c) \/ KeyListGet(c)
       \/ KeyLookupGet(c) \/ NamePublish(c)
       \/ \E n \in Names : KeyGenCheck(c, n) \/ KeyImportCheck(c, n)
       \/ c \in FullKeyCmds /\ \E names \in {{n} : n \in Names} \union {KeyNames} : KeyRmCmd(c, names)
       \/ \E n, to \in Names, force \in BOOLEAN : KeyRenameGet(c, n, to, force)
       \/ c \in FullKeyCmds /\ (KeyList(c) \/ \E k \in 1 .. made : KeyLookup(c, k))
  \/ KeyDaemonStart \/ KeyDaemonEnd \/ KeyRotateConfig
  \/ \E n \in Names : KeyRotateOpen(n)

KeySpec == KeyInit /\ [][KeyNext]_kVars

-----------------------------------------------------------------------------
\* No key is lost: every key ever made, the old identities included, is the
\* node's identity or can be exported from the store, unless a command was asked to
\* remove or overwrite the name it had; at every point where a command can be
\* cut off, and whatever the others do meanwhile.
NoKeyLost == \A k \in 1 .. made : k = identity \/ k \in dropped \/ \E n \in Names : KeyExported(n) = k

\* A running daemon publishes and signs with the identity the config has, and what
\* it signs as "self" verifies as "self": no rotation passes it by, and no command
\* puts another key under that name.
DaemonIdentityCurrent ==
  /\ holder = "daemon" => KeyUsed("self") = identity /\ KeyVerified("self") = identity
  /\ ks["self"] = NoKey

\* Keys are not lost, and the daemon's identity is the one of the config, whatever
\* key commands overlap or are cut off.
KeysKept == NoKeyLost /\ DaemonIdentityCurrent
=============================================================================
