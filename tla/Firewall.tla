------------------------------ MODULE Firewall ------------------------------
(***************************************************************************)
(* PeerLock: the rules that let one peer only reach usbipd's port, command *)
(* by command.  A chain is the list of rules the kernel goes through, the  *)
(* first match deciding: the network_deck table of nft, or the INPUT chain *)
(* of iptables with whatever else is in it.                                *)
(*                                                                         *)
(*   nft:       stale -> load                  release: deltable           *)
(*   iptables:  accept -> drop                 release: unaccept -> undrop *)
(*                                                                         *)
(* The daemon holds one lock at a time and drops it before it installs     *)
(* another; it may be killed between any two commands and started again.   *)
(***************************************************************************)
EXTENDS Naturals, Sequences

CONSTANTS
    Addr,             \* the addresses that may reach the Deck
    NoAddr,           \* no lock
    Anyone,           \* the source of a rule that names none
    Others,           \* the chains of other people's rules iptables may hold
    Backends,         \* "nft", "iptables"
    Faults,           \* "command": a command fails; "kill": the daemon dies
    MaxRules          \* bounds what kills can leave behind

ASSUME FirewallConstants ==
    /\ NoAddr \notin Addr
    /\ Anyone \notin Addr
    /\ Backends \subseteq {"nft", "iptables"}
    /\ Faults \subseteq {"command", "kill"}
    /\ MaxRules \in Nat

VARIABLES
    backend,          \* what pick_backend finds
    found,            \* the chain the first lock was installed in
    chain,
    lock,             \* the peer of the PeerLock held
    op,               \* the command to be run next, "idle" without one
    target,           \* the peer the commands are about
    allowed,          \* iptables: the ACCEPT rule has gone in
    struck            \* history: kills, and removals that failed

fvars == <<backend, found, chain, lock, op, target, allowed, struck>>

Rule == [src : Addr \cup {Anyone}, verdict : {"accept", "drop"}]

ASSUME OthersAreChains == Others \subseteq Seq(Rule)

Accept(a) == [src |-> a, verdict |-> "accept"]

Drop == [src |-> Anyone, verdict |-> "drop"]

Matches(rule, a) == rule.src \in {a, Anyone}

\* Whether a packet from `a` gets through: no DROP that matches it comes first.
Passes(c, a) ==
    \A i \in DOMAIN c :
        c[i].verdict = "drop" /\ Matches(c[i], a)
        => \E j \in DOMAIN c : j < i /\ c[j].verdict = "accept" /\ Matches(c[j], a)

FInit ==
    /\ backend \in Backends
    /\ found \in IF backend = "nft" THEN {<<>>} ELSE Others
    /\ chain = found
    /\ lock = NoAddr
    /\ op = "idle"
    /\ target = NoAddr
    /\ allowed = FALSE
    /\ struck = {}

-----------------------------------------------------------------------------
(* Commands. *)

Then(next) == op' = next

\* The command exits with a failure and has changed nothing.
CommandFails == "command" \in Faults /\ UNCHANGED chain

InsertsFirst(rule) == chain' = <<rule>> \o chain

\* -I INPUT 2: refused by an empty chain.
InsertsSecond(rule) ==
    /\ chain # <<>>
    /\ chain' = <<chain[1], rule>> \o Tail(chain)

\* -D INPUT: the first rule that is the same, if there is one.
Deletes(rule) ==
    \/ /\ \A i \in DOMAIN chain : chain[i] # rule
       /\ UNCHANGED <<chain, struck>>
    \/ \E i \in DOMAIN chain :
          /\ chain[i] = rule
          /\ \A j \in DOMAIN chain : chain[j] = rule => i <= j
          /\ \/ /\ chain' = SubSeq(chain, 1, i - 1) \o SubSeq(chain, i + 1, Len(chain))
                /\ UNCHANGED struck
             \/ CommandFails /\ struck' = struck \cup {"undo"}

\* delete table inet network_deck.
DeletesTable(fault) ==
    \/ chain' = <<>> /\ UNCHANGED struck
    \/ CommandFails /\ chain # <<>> /\ struck' = struck \cup {fault}

-----------------------------------------------------------------------------
(* PeerLock::install. *)

Install(a) ==
    /\ op = "idle"
    /\ lock = NoAddr
    /\ Len(chain) <= MaxRules - 2
    /\ target' = a
    /\ allowed' = FALSE
    /\ Then(IF backend = "nft" THEN "stale" ELSE "accept")
    /\ UNCHANGED <<backend, found, chain, lock, struck>>

\* install_nft: what an earlier daemon left is deleted first.
DeleteStale ==
    /\ op = "stale"
    /\ DeletesTable("stale")
    /\ Then("load")
    /\ UNCHANGED <<backend, found, lock, target, allowed>>

\* nft -f: all of the script or nothing; rules go behind those of a table that
\* is there.
LoadScript ==
    /\ op = "load"
    /\ \/ /\ chain' = chain \o <<Accept(target), Drop>>
          /\ lock' = target
       \/ CommandFails /\ UNCHANGED lock
    /\ Then("idle")
    /\ UNCHANGED <<backend, found, target, allowed, struck>>

\* install_iptables: the second command is run whatever became of the first.
InsertAccept ==
    /\ op = "accept"
    /\ \/ InsertsFirst(Accept(target)) /\ allowed' = TRUE
       \/ CommandFails /\ UNCHANGED allowed
    /\ Then("drop")
    /\ UNCHANGED <<backend, found, lock, target, struck>>

NoRollback == "idle"

\* The rollback of an install that failed.
Rollback == "unaccept"

InsertDrop ==
    /\ op = "drop"
    /\ \/ /\ InsertsSecond(Drop)
          /\ allowed
          /\ lock' = target
          /\ Then("idle")
       \/ /\ InsertsSecond(Drop)
          /\ ~allowed
          /\ Then(Rollback)
          /\ UNCHANGED lock
       \/ /\ chain = <<>> \/ "command" \in Faults
          /\ Then(Rollback)
          /\ UNCHANGED <<chain, lock>>
    /\ UNCHANGED <<backend, found, target, allowed, struck>>

-----------------------------------------------------------------------------
(* Drop for PeerLock. *)

Release ==
    /\ op = "idle"
    /\ lock # NoAddr
    /\ target' = lock
    /\ lock' = NoAddr
    /\ Then(IF backend = "nft" THEN "deltable" ELSE "unaccept")
    /\ UNCHANGED <<backend, found, chain, allowed, struck>>

DeleteTable ==
    /\ op = "deltable"
    /\ DeletesTable("undo")
    /\ Then("idle")
    /\ UNCHANGED <<backend, found, lock, target, allowed>>

DeleteAccept ==
    /\ op = "unaccept"
    /\ Deletes(Accept(target))
    /\ Then("undrop")
    /\ UNCHANGED <<backend, found, lock, target, allowed>>

DeleteDrop ==
    /\ op = "undrop"
    /\ Deletes(Drop)
    /\ Then("idle")
    /\ UNCHANGED <<backend, found, lock, target, allowed>>

\* The rules outlive the daemon.
Kill ==
    /\ "kill" \in Faults
    /\ lock' = NoAddr
    /\ op' = "idle"
    /\ struck' = struck \cup {"kill"}
    /\ UNCHANGED <<backend, found, chain, target, allowed>>

FNext ==
    \/ \E a \in Addr : Install(a)
    \/ DeleteStale \/ LoadScript \/ InsertAccept \/ InsertDrop
    \/ Release \/ DeleteTable \/ DeleteAccept \/ DeleteDrop \/ Kill

FSpec == FInit /\ [][FNext]_fvars

-----------------------------------------------------------------------------
\* While a lock is held exactly its peer gets through, whatever kills, failed
\* commands and half removed pairs of earlier locks have left in the chain.
\* With nft that needs the delete of a stale table to have worked: the script
\* adds its rules behind those of a table that is still there.
LockHolds ==
    lock # NoAddr /\ ~(backend = "nft" /\ "stale" \in struck)
    => \A a \in Addr : Passes(chain, a) <=> a = lock

\* A rule that -D could not tell from one of a lock's.
HoldsOurs(c) == \E i \in DOMAIN c : c[i] = Drop \/ \E a \in Addr : c[i] = Accept(a)

\* Without a lock the chain is again what it was, rule by rule, unless the
\* daemon was killed or a removal failed: an install that fails half-way takes
\* its half back, and takes nothing else.  Only a rule of somebody else's that
\* is the same as one of ours could go in its place.
NothingLeft ==
    op = "idle" /\ lock = NoAddr /\ struck = {} /\ ~HoldsOurs(found) => chain = found
=============================================================================
