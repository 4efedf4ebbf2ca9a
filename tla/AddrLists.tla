----------------------------- MODULE AddrLists -----------------------------
(***************************************************************************)
(* The two address lists of the configuration that commands edit inside a  *)
(* running daemon: Swarm.AddrFilters (core/commands/swarm.go, `ipfs swarm  *)
(* filters`) and Bootstrap (core/commands/bootstrap.go).  The commands get *)
(* the daemon's own Config by pointer, edit the list in place and save it; *)
(* nothing but SetConfig is under a lock.  Filters are also applied to the *)
(* running swarm.  A list is kept as the set of its entries: both commands *)
(* remove duplicates, and no property depends on the order.                *)
(***************************************************************************)
EXTENDS Naturals, Sequences, SequencesExt, FiniteSets

CONSTANTS
  FilterTexts,  \* filters as the user may write them
  MaskOf,       \* the network each of them denotes, or "bad"
  PeerIds,      \* bootstrap peers
  PeerAddrs,    \* their transport addresses
  ListCmds,     \* commands in progress
  ListArgs,     \* argument lists of the four commands that take any
  BootDefault   \* DefaultBootstrapAddresses

Lists == {"filters", "bootstrap"}
NoAddr == "none"
BootEntries == [id : PeerIds, addr : PeerAddrs \union {NoAddr}]

ASSUME ListConstants ==
  /\ MaskOf \in [FilterTexts -> STRING] /\ BootDefault \in Seq(BootEntries)
  /\ \A args \in ListArgs.filtersAdd \union ListArgs.filtersRm : args \in Seq(FilterTexts)
  /\ \A args \in ListArgs.bootAdd \union ListArgs.bootRm : args \in Seq(BootEntries)

VARIABLES
  live,     \* n.Filters: the networks the swarm does not talk to
  mem,      \* the lists of the Config in memory
  disk,     \* those of the config file
  lcmd,     \* the commands
  lasting,  \* history: entries whose addition succeeded and that no command was asked to
            \* remove since; none when two commands overlap
  unsaved   \* history: a save has failed since the daemon started

lVars == <<live, mem, disk, lcmd, lasting, unsaved>>

IdleListCmd == [pc |-> "idle", list |-> "filters", op |-> "add", args |-> << >>, old |-> {}, alone |-> TRUE]

\* AddrFilters: the swarm starts with the filters of the config.
Masks(texts) == {MaskOf[f] : f \in texts} \ {"bad"}

ListInit ==
  /\ mem = [l \in Lists |-> {}] /\ disk = mem
  /\ live = Masks(disk["filters"])
  /\ lcmd = [c \in ListCmds |-> IdleListCmd]
  /\ lasting = mem /\ unsaved = FALSE

\* The daemon dies at any point, or is stopped, and starts again.
ListRestart ==
  /\ mem' = disk /\ live' = Masks(disk["filters"])
  /\ lcmd' = [c \in ListCmds |-> IdleListCmd]
  /\ unsaved' = FALSE
  /\ UNCHANGED <<disk, lasting>>

-----------------------------------------------------------------------------
\* Mutant: an entry that is there already is taken out, not left alone.
FiltersAddTwice(now, old, args) == (now \union args \union old) \ (args \intersect old)

\* What a list becomes: filtersAdd and bootstrapAdd append the arguments and the old
\* entries to what is there by now, filtersRemove and bootstrapRemove overwrite it.
FiltersAdd(now, old, args) == now \union args \union old
FiltersRemove(old, args) == old \ args
BootstrapAdd(now, old, args) == now \union args \union old
\* A peer ID alone removes the peer, unless the arguments also name addresses of
\* it; then only these go.
BootstrapRemove(old, args) ==
  LET named(id) == {a.addr : a \in {x \in args : x.id = id}} IN
  {e \in old : \/ named(e.id) = {}
               \/ named(e.id) # {NoAddr} /\ e.addr \notin named(e.id)}

\* The entries that a removal with these arguments is about.
Asked(list, op, args) ==
  {e \in lasting[list] :
     \/ op = "rmAll"
     \/ op = "rm" /\ IF list = "filters" THEN MaskOf[e] \in Masks(args) ELSE e \notin BootstrapRemove({e}, args)}

\* A command starts: fsrepo.Open gives it the daemon's repo.
ListStart(c, pc, list, op, args) ==
  /\ lcmd[c].pc = "idle"
  /\ LET others == {d \in ListCmds \ {c} : lcmd[d].pc # "idle"} IN
     /\ lcmd' = [d \in ListCmds |->
          IF d = c THEN [pc |-> pc, list |-> list, op |-> op, args |-> args, old |-> {}, alone |-> others = {}]
          ELSE IF d \in others THEN [lcmd[d] EXCEPT !.alone = FALSE] ELSE lcmd[d]]
     /\ lasting' = IF others = {} THEN [lasting EXCEPT ![list] = @ \ Asked(list, op, ToSet(args))]
                   ELSE [l \in Lists |-> {}]
  /\ UNCHANGED <<live, mem, disk, unsaved>>

FiltersAddCmd(c, args) == args # << >> /\ ListStart(c, "live", "filters", "add", args)
FiltersRmCmd(c, args) == ListStart(c, "live", "filters", IF args = << >> THEN "rmAll" ELSE "rm", args)

\* bootstrap add checks that every address has a transport before it does anything.
BootstrapAddCmd(c, args) ==
  /\ args # << >> /\ \A i \in DOMAIN args : args[i].addr # NoAddr
  /\ ListStart(c, "take", "bootstrap", "add", args)
BootstrapAddDefaultCmd(c) == ListStart(c, "take", "bootstrap", "add", BootDefault)
BootstrapRmCmd(c, args) == args # << >> /\ ListStart(c, "take", "bootstrap", "rm", args)
BootstrapRmAllCmd(c) == ListStart(c, "take", "bootstrap", "rmAll", << >>)

\* swarm filters: the arguments are applied to the swarm one by one; the first
\* that is no filter ends the command, the ones before it stay applied.
FiltersLive(c) ==
  /\ lcmd[c].pc = "live"
  /\ LET args == lcmd[c].args
         bad == {i \in DOMAIN args : MaskOf[args[i]] = "bad"}
         done == {args[i] : i \in {j \in DOMAIN args : \A b \in bad : j < b}}
     IN /\ live' = CASE lcmd[c].op = "add" -> live \union Masks(done)
                     [] lcmd[c].op = "rm" -> live \ Masks(done)
                     [] lcmd[c].op = "rmAll" -> {}
        /\ lcmd' = [lcmd EXCEPT ![c] = IF bad # {} /\ @.op # "rmAll" THEN IdleListCmd ELSE [@ EXCEPT !.pc = "take"]]
  /\ UNCHANGED <<mem, disk, lasting, unsaved>>

\* The old list is set aside; add and removal of everything empty it in the
\* Config that the whole daemon sees.
ListTake(c) ==
  /\ lcmd[c].pc = "take"
  /\ mem' = [mem EXCEPT ![lcmd[c].list] = IF lcmd[c].op = "rm" THEN @ ELSE {}]
  /\ lcmd' = [lcmd EXCEPT ![c].old = mem[lcmd[c].list], ![c].pc = "put"]
  /\ UNCHANGED <<live, disk, lasting, unsaved>>

\* The new list is built in place.
ListPut(c) ==
  /\ lcmd[c].pc = "put"
  /\ LET args == ToSet(lcmd[c].args)
         old == lcmd[c].old
         filters == lcmd[c].list = "filters"
     IN mem' = [mem EXCEPT ![lcmd[c].list] =
                  CASE lcmd[c].op = "add" -> IF filters THEN FiltersAdd(@, old, args) ELSE BootstrapAdd(@, old, args)
                    [] lcmd[c].op = "rm" -> IF filters THEN FiltersRemove(old, args) ELSE BootstrapRemove(old, args)
                    [] lcmd[c].op = "rmAll" -> @]
  /\ lcmd' = [lcmd EXCEPT ![c].pc = "save"]
  /\ UNCHANGED <<live, disk, lasting, unsaved>>

\* r.SetConfig writes the Config as it is now, or fails; the list in memory
\* stays changed either way.
ListSave(c) ==
  /\ lcmd[c].pc = "save"
  /\ \/ /\ disk' = mem
        /\ lasting' = IF lcmd[c].op = "add" /\ lcmd[c].alone
                      THEN [lasting EXCEPT ![lcmd[c].list] = @ \union ToSet(lcmd[c].args)] ELSE lasting
        /\ UNCHANGED unsaved
     \/ unsaved' = TRUE /\ UNCHANGED <<disk, lasting>>
  /\ lcmd' = [lcmd EXCEPT ![c] = IdleListCmd]
  /\ UNCHANGED <<live, mem>>

ListNext ==
  \/ ListRestart
  \/ \E c \in ListCmds :
       \/ FiltersLive(c) \/ ListTake(c) \/ ListPut(c) \/ ListSave(c)
       \/ BootstrapAddDefaultCmd(c) \/ BootstrapRmAllCmd(c)
       \/ \E args \in ListArgs.filtersAdd : FiltersAddCmd(c, args)
       \/ \E args \in ListArgs.filtersRm : FiltersRmCmd(c, args)
       \/ \E args \in ListArgs.bootAdd : BootstrapAddCmd(c, args)
       \/ \E args \in ListArgs.bootRm : BootstrapRmCmd(c, args)

\* What `swarm filters` and `bootstrap list` show.
FiltersShown == live
BootstrapShown == mem["bootstrap"]

ListSpec == ListInit /\ [][ListNext]_lVars

-----------------------------------------------------------------------------
\* An addition that was reported lasts: as long as the commands come one at a
\* time, what one of them added is on disk and its network is blocked and shown,
\* through every other command and restart until a command is asked to remove it.
AddedLasts ==
  /\ \A l \in Lists : lasting[l] \subseteq disk[l]
  /\ Masks(lasting["filters"]) \subseteq FiltersShown

\* When no command is in progress and no save has failed, the lists in memory and
\* on disk agree, however the commands overlapped.
ListsSaved == (\A c \in ListCmds : lcmd[c].pc = "idle") /\ ~unsaved
  => mem = disk /\ BootstrapShown = disk["bootstrap"]

\* What a command put into the filters or the bootstrap list is kept, in memory and
\* on disk.
ListsKept == AddedLasts /\ ListsSaved
=============================================================================
