------------------------------ MODULE MCParts ------------------------------
(***************************************************************************)
(* The components that share no state with the others, checked in one      *)
(* run: the initial state chooses one and every step is a step of it.      *)
(***************************************************************************)
EXTENDS NetMcast, McastHash, AudioOwner, AhiLease, MhiPlayer, FwUpdate, ZzRun, ZzAhi

CONSTANTS o1, o2, a1, a2, m1, m2, b1, b2

\* All-hosts and a group that shares its bucket (38), all-routers (22), mDNS (56).
MCGroups == {<<1, 0, 94, 0, 0, 1>>, <<1, 0, 94, 16, 0, 0>>,
             <<1, 0, 94, 0, 0, 2>>, <<1, 0, 94, 0, 0, 251>>}

\* The openers join and leave groups only: the framer asks for membership.
ASSUME MCGroupsRequired == \A g \in MCGroups : MembershipRequired(g)

\* The hash of each group, computed once.
HashOf == [g \in MCGroups |-> zznet_mcast_hash(g)]
MCHash(g) == HashOf[g]

VARIABLE which  \* the component of this behaviour

-----------------------------------------------------------------------------
\* A good bundle; damaged data, a second BOOT.bin, none, an unsafe name.
Item(n, s) == [name |-> n, sound |-> s]
MCArchives ==
  {<<Item("other", TRUE), Item("m1", TRUE), Item("BOOT", TRUE)>>,
   <<Item("BOOT", TRUE), Item("m1", FALSE)>>, <<Item("BOOT", TRUE), Item("BOOT", TRUE)>>,
   <<Item("m1", TRUE)>>, <<Item("BOOT", TRUE), Item("unsafe", TRUE)>>}

-----------------------------------------------------------------------------
\* A volume with the root, a drawer "s" in it, and links "l" to a drawer
\* outside it.
MCUp == [vol |-> "none", root |-> "vol", sub |-> "root", far |-> "vol"]
MCInto ==
  [vol |-> [s |-> "root", l |-> "far", f |-> "none"],
   root |-> [s |-> "sub", l |-> "far", f |-> "file"],
   sub |-> [s |-> "none", l |-> "far", f |-> "file"],
   far |-> [s |-> "none", l |-> "none", f |-> "file"]]

-----------------------------------------------------------------------------
PartsInit ==
  /\ which \in {"mcast", "owner", "lease", "player", "update",
               "run", "display", "console", "sound"}
  /\ which # "mcast" => capable = FALSE
  /\ which # "update" => moduleDir = FALSE
  /\ which # "display" => dFlags = "plain"
  /\ which # "console" => cKeyboard = FALSE
  /\ which # "run" => rAbs = FALSE
  /\ Init /\ OwnerInit /\ LeaseInit /\ PlayerInit /\ UpdateInit
  /\ RunInit /\ DisplayInit /\ ConsoleInit /\ SoundInit

\* The others stand still.
OthersStand ==
  /\ UNCHANGED which
  /\ IF which # "mcast" THEN UNCHANGED vars ELSE TRUE
  /\ IF which # "owner" THEN UNCHANGED ownerVars ELSE TRUE
  /\ IF which # "lease" THEN UNCHANGED leaseVars ELSE TRUE
  /\ IF which # "player" THEN UNCHANGED playerVars ELSE TRUE
  /\ IF which # "update" THEN UNCHANGED updateVars ELSE TRUE
  /\ IF which # "run" THEN UNCHANGED runVars ELSE TRUE
  /\ IF which # "display" THEN UNCHANGED displayVars ELSE TRUE
  /\ IF which # "console" THEN UNCHANGED consoleVars ELSE TRUE
  /\ IF which # "sound" THEN UNCHANGED soundVars ELSE TRUE

PartsNext ==
  /\ OthersStand
  /\ \/ which = "mcast" /\ Next
     \/ which = "owner" /\ OwnerNext
     \/ which = "lease" /\ LeaseNext
     \/ which = "player" /\ PlayerNext
     \/ which = "update" /\ UpdateNext
     \/ which = "run" /\ RunNext
     \/ which = "display" /\ DisplayNext
     \/ which = "console" /\ ConsoleNext
     \/ which = "sound" /\ SoundNext

PartsSpec ==
  PartsInit /\ [][PartsNext]_<<which, vars, ownerVars, leaseVars, playerVars, updateVars,
                               runVars, displayVars, consoleVars, soundVars>>

\* Tasks, decoders, openers and buffers come in pairs of equals: all of them
\* change places at once or none does.
Equals == {{o1, o2}, {a1, a2}, {m1, m2}, {b1, b2}}
MCSwap ==
  {[x \in UNION Equals |->
      IF swap THEN CHOOSE y \in UNION Equals : {x, y} \in Equals /\ x # y ELSE x] :
     swap \in BOOLEAN}

=============================================================================
