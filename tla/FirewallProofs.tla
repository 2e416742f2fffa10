--------------------------- MODULE FirewallProofs ---------------------------
(***************************************************************************)
(* Theorems about Firewall, for any number of addresses.  A lock that is   *)
(* held holds, because for both backends its two rules are the first two   *)
(* of the chain (iptables inserts them there, nft finds its table empty).  *)
(* And nothing is left behind: before every command the chain is the one   *)
(* that was found with a known part of the pair before or inside it.       *)
(***************************************************************************)
EXTENDS Firewall, TLAPS

Unharmed == ~(backend = "nft" /\ "stale" \in struck)

LockedTo(a) == Len(chain) >= 2 /\ chain[1] = Accept(a) /\ chain[2] = Drop

FTypeOK ==
    /\ chain \in Seq(Rule)
    /\ lock \in Addr \cup {NoAddr}
    /\ op # "idle" => target \in Addr

FInv ==
    /\ FTypeOK
    /\ lock # NoAddr => op = "idle"
    /\ lock # NoAddr /\ Unharmed => LockedTo(lock)
    /\ op = "drop" /\ allowed => Len(chain) >= 1 /\ chain[1] = Accept(target)
    /\ op = "accept" => ~allowed
    /\ op = "load" => backend = "nft"
    /\ op = "stale" => backend = "nft"
    /\ op = "load" /\ Unharmed => chain = <<>>

\* The first two rules decide about every packet.
LEMMA FirstTwoDecide ==
  ASSUME NEW c \in Seq(Rule), NEW p \in Addr, Len(c) >= 2, c[1] = Accept(p), c[2] = Drop,
         NEW a \in Addr
  PROVE  Passes(c, a) <=> a = p
<1>1. 1 \in DOMAIN c /\ 2 \in DOMAIN c
  OBVIOUS
<1>2. CASE a = p
  <2>1. c[1].verdict = "accept" /\ Matches(c[1], a)
    BY <1>2 DEF Accept, Matches
  <2>2. \A i \in DOMAIN c : c[i].verdict = "drop" => 1 < i
    BY <2>1
  <2> QED
    BY <1>1, <1>2, <2>1, <2>2 DEF Passes
<1>3. CASE a # p
  <2>1. c[2].verdict = "drop" /\ Matches(c[2], a)
    BY DEF Drop, Matches
  <2>2. ~Matches(c[1], a)
    BY <1>3, FirewallConstants DEF Accept, Matches
  <2>3. \A j \in DOMAIN c : j < 2 => j = 1
    OBVIOUS
  <2> QED
    BY <1>1, <1>3, <2>1, <2>2, <2>3 DEF Passes
<1> QED
  BY <1>2, <1>3

LEMMA RulesAreRules == Drop \in Rule /\ \A a \in Addr : Accept(a) \in Rule
  BY DEF Drop, Accept, Rule

LEMMA FirewallInit == FInit => FInv
<1> SUFFICES ASSUME FInit PROVE FInv
  OBVIOUS
<1>1. <<>> \in Seq(Rule)
  OBVIOUS
<1>2. chain \in Seq(Rule)
  BY <1>1, OthersAreChains DEF FInit
<1> QED
  BY <1>2 DEF FInit, FInv, FTypeOK

\* Removing a rule leaves a list of rules.
LEMMA DeletesKeeps ==
  ASSUME NEW rule, chain \in Seq(Rule), Deletes(rule)
  PROVE  chain' \in Seq(Rule)
<1>1. \A i \in DOMAIN chain : SubSeq(chain, 1, i - 1) \in Seq(Rule)
                              /\ SubSeq(chain, i + 1, Len(chain)) \in Seq(Rule)
  OBVIOUS
<1>2. \A s, t \in Seq(Rule) : s \o t \in Seq(Rule)
  OBVIOUS
<1> QED
  BY <1>1, <1>2 DEF Deletes, CommandFails

LEMMA FirewallNext == FInv /\ [FNext]_fvars => FInv'
<1> SUFFICES ASSUME FInv, [FNext]_fvars PROVE FInv'
  OBVIOUS
<1> USE DEF FInv, FTypeOK, Unharmed, LockedTo, Then
<1>1. CASE \E a \in Addr : Install(a)
  BY <1>1 DEF Install
<1>2. CASE DeleteStale
  <2>1. <<>> \in Seq(Rule)
    OBVIOUS
  <2> QED
    BY <1>2, <2>1 DEF DeleteStale, DeletesTable, CommandFails
<1>3. CASE LoadScript
  <2>1. CASE UNCHANGED chain
    BY <1>3, <2>1 DEF LoadScript
  <2>2. CASE chain' = chain \o <<Accept(target), Drop>>
    <3>1. target \in Addr
      BY <1>3 DEF LoadScript
    <3>2. <<Accept(target), Drop>> \in Seq(Rule)
      BY <3>1, RulesAreRules
    <3>3. chain' \in Seq(Rule)
      BY <2>2, <3>2
    <3>4. chain = <<>> => chain' = <<Accept(target), Drop>>
      BY <2>2, <3>2
    <3> QED
      BY <1>3, <3>1, <3>3, <3>4 DEF LoadScript
  <2> QED
    BY <1>3, <2>1, <2>2 DEF LoadScript, CommandFails
<1>4. CASE InsertAccept
  <2>1. Accept(target) \in Rule
    BY <1>4, RulesAreRules DEF InsertAccept
  <2>2. ASSUME chain' = <<Accept(target)>> \o chain
        PROVE  chain' \in Seq(Rule) /\ Len(chain') >= 1 /\ chain'[1] = Accept(target)
    BY <2>1, <2>2
  <2> QED
    BY <1>4, <2>2 DEF InsertAccept, InsertsFirst, CommandFails
<1>5. CASE InsertDrop
  <2>1. ASSUME InsertsSecond(Drop)
        PROVE  chain' \in Seq(Rule) /\ Len(chain') >= 2 /\ chain'[1] = chain[1] /\ chain'[2] = Drop
    <3>1. chain[1] \in Rule /\ Tail(chain) \in Seq(Rule)
      BY <2>1 DEF InsertsSecond
    <3>2. <<chain[1], Drop>> \in Seq(Rule)
      BY <3>1, RulesAreRules
    <3> QED
      BY <2>1, <3>1, <3>2 DEF InsertsSecond
  <2>2. target \in Addr
    BY <1>5 DEF InsertDrop
  <2> QED
    BY <1>5, <2>1, <2>2 DEF InsertDrop, Rollback
<1>6. CASE Release
  BY <1>6 DEF Release
<1>7. CASE DeleteTable
  <2>1. <<>> \in Seq(Rule)
    OBVIOUS
  <2> QED
    BY <1>7, <2>1 DEF DeleteTable, DeletesTable, CommandFails
<1>8. CASE DeleteAccept
  BY <1>8, DeletesKeeps DEF DeleteAccept
<1>9. CASE DeleteDrop
  BY <1>9, DeletesKeeps DEF DeleteDrop
<1>10. CASE Kill
  BY <1>10 DEF Kill
<1>11. CASE UNCHANGED fvars
  BY <1>11 DEF fvars
<1> QED
  BY <1>1, <1>2, <1>3, <1>4, <1>5, <1>6, <1>7, <1>8, <1>9, <1>10, <1>11 DEF FNext

\* Exactly the peer of a lock that is held gets through, whatever was in the
\* chain, and whichever commands failed or were never run before.
THEOREM FirewallLockHolds == FSpec => []LockHolds
<1>1. FInv => LockHolds
  <2> SUFFICES ASSUME FInv, lock # NoAddr, Unharmed, NEW a \in Addr
               PROVE  Passes(chain, a) <=> a = lock
    BY DEF LockHolds, Unharmed
  <2> QED
    BY FirstTwoDecide DEF FInv, FTypeOK, LockedTo
<1> QED
  BY <1>1, FirewallInit, FirewallNext, PTL DEF FSpec


-----------------------------------------------------------------------------
(* Nothing is left behind. *)

Both(a) == <<Accept(a), Drop>>

\* What a DROP inserted second, with no ACCEPT before it, makes of a chain.
Split(c) == <<c[1], Drop>> \o Tail(c)

NftOps == {"stale", "load", "deltable"}

IptablesOps == {"accept", "drop", "unaccept", "undrop"}

\* The chain before each command, as long as no kill and no failed removal has
\* come between.
Shape ==
    /\ op \in {"stale", "load", "accept"} => chain = found
    /\ op = "idle" /\ lock = NoAddr => chain = found
    /\ op = "idle" /\ lock # NoAddr => chain = Both(lock) \o found
    /\ op = "drop" => chain = IF allowed THEN <<Accept(target)>> \o found ELSE found
    /\ op = "unaccept" => chain \in {Both(target) \o found, <<Accept(target)>> \o found, found}
                                    \cup (IF found = <<>> THEN {} ELSE {Split(found)})
    /\ op = "undrop" => chain \in {<<Drop>> \o found, found}
                                  \cup (IF found = <<>> THEN {} ELSE {Split(found)})

FoundOK ==
    /\ found \in Seq(Rule)
    /\ backend = "nft" => found = <<>>
    /\ op \in NftOps \cup IptablesOps \cup {"idle"}
    /\ op \in NftOps => backend = "nft"
    /\ op \in IptablesOps => backend # "nft"
    /\ op # "idle" => lock = NoAddr /\ target \in Addr
    /\ op = "accept" => ~allowed
    /\ lock \in Addr \cup {NoAddr}

FShape == FoundOK /\ (struck = {} /\ ~HoldsOurs(found) => Shape)

\* What deleting the first rule that is the same does to a chain: nothing if
\* there is none, and otherwise that rule is gone, or the removal is on record.
LEMMA DeletesNone ==
  ASSUME NEW rule, Deletes(rule), \A i \in DOMAIN chain : chain[i] # rule
  PROVE  chain' = chain
  BY DEF Deletes

LEMMA DeletesHead ==
  ASSUME NEW rule \in Rule, NEW rest \in Seq(Rule), struck' = {},
         chain = <<rule>> \o rest, Deletes(rule)
  PROVE  chain' = rest
<1>1. 1 \in DOMAIN chain /\ chain[1] = rule /\ Len(chain) = Len(rest) + 1
  OBVIOUS
<1>2. PICK i \in DOMAIN chain :
         /\ chain[i] = rule
         /\ \A j \in DOMAIN chain : chain[j] = rule => i <= j
         /\ chain' = SubSeq(chain, 1, i - 1) \o SubSeq(chain, i + 1, Len(chain))
  BY <1>1 DEF Deletes
<1>3. i = 1
  <2>1. i \in Nat /\ i >= 1
    BY <1>2
  <2>2. i <= 1
    BY <1>1, <1>2
  <2> QED
    BY <2>1, <2>2
<1>4. SubSeq(chain, 1, 0) = <<>> /\ SubSeq(chain, 2, Len(chain)) = rest
  BY <1>1
<1> QED
  BY <1>2, <1>3, <1>4

LEMMA SequencesEqual ==
  ASSUME NEW u \in Seq(Rule), NEW t \in Seq(Rule), Len(u) = Len(t),
         \A i \in 1 .. Len(u) : u[i] = t[i]
  PROVE  u = t
  OBVIOUS

LEMMA DeletesSecond ==
  ASSUME NEW rule \in Rule, NEW first \in Rule, first # rule, NEW rest \in Seq(Rule),
         struck' = {}, chain = <<first, rule>> \o rest, Deletes(rule)
  PROVE  chain' = <<first>> \o rest
<1>1. /\ chain \in Seq(Rule) /\ 1 \in DOMAIN chain /\ 2 \in DOMAIN chain
      /\ chain[1] = first /\ chain[2] = rule /\ Len(chain) = Len(rest) + 2
  OBVIOUS
<1>2. PICK i \in DOMAIN chain :
         /\ chain[i] = rule
         /\ \A j \in DOMAIN chain : chain[j] = rule => i <= j
         /\ chain' = SubSeq(chain, 1, i - 1) \o SubSeq(chain, i + 1, Len(chain))
  BY <1>1 DEF Deletes
<1>3. i = 2
  <2>1. i \in Nat /\ i >= 1 /\ i # 1
    BY <1>1, <1>2
  <2>2. i <= 2
    BY <1>1, <1>2
  <2> QED
    BY <2>1, <2>2
<1>4. SubSeq(chain, 1, 1) = <<first>>
  <2>1. /\ SubSeq(chain, 1, 1) \in Seq(Rule)
        /\ Len(SubSeq(chain, 1, 1)) = 1
        /\ SubSeq(chain, 1, 1)[1] = first
    BY <1>1
  <2>2. <<first>> \in Seq(Rule) /\ Len(<<first>>) = 1 /\ <<first>>[1] = first
    OBVIOUS
  <2>3. \A j \in 1 .. 1 : SubSeq(chain, 1, 1)[j] = <<first>>[j]
    BY <2>1, <2>2
  <2> QED
    BY <2>1, <2>2, <2>3, SequencesEqual
<1>5. SubSeq(chain, 3, Len(chain)) = rest
  <2>1. /\ SubSeq(chain, 3, Len(chain)) \in Seq(Rule)
        /\ Len(SubSeq(chain, 3, Len(chain))) = Len(rest)
    BY <1>1
  <2>2. \A j \in 1 .. Len(rest) : SubSeq(chain, 3, Len(chain))[j] = rest[j]
    BY <1>1
  <2> QED
    BY <2>1, <2>2, SequencesEqual
<1>6. i - 1 = 1 /\ i + 1 = 3
  BY <1>3
<1>7. chain' = SubSeq(chain, 1, 1) \o SubSeq(chain, 3, Len(chain))
  BY ONLY <1>2, <1>6
<1> QED
  BY <1>4, <1>5, <1>7

LEMMA ShapeInit == FInit => FShape
<1> SUFFICES ASSUME FInit PROVE FShape
  OBVIOUS
<1>1. <<>> \in Seq(Rule)
  OBVIOUS
<1>2. found \in Seq(Rule)
  BY <1>1, OthersAreChains DEF FInit
<1>3. FoundOK
  BY <1>2 DEF FInit, FoundOK, NftOps, IptablesOps
<1> QED
  BY <1>3 DEF FInit, FShape, Shape

LEMMA FoundIsForeign ==
  ASSUME FoundOK, ~HoldsOurs(found)
  PROVE  /\ found \in Seq(Rule)
         /\ \A i \in DOMAIN found : found[i] # Drop
         /\ \A a \in Addr : \A i \in DOMAIN found : found[i] # Accept(a)
  BY DEF FoundOK, HoldsOurs

\* A chain with a DROP put second is taken apart again.
LEMMA SplitFound ==
  ASSUME FoundOK, ~HoldsOurs(found), found # <<>>
  PROVE  /\ Split(found) \in Seq(Rule)
         /\ found[1] \in Rule /\ Tail(found) \in Seq(Rule) /\ found[1] # Drop
         /\ <<found[1]>> \o Tail(found) = found
         /\ \A a \in Addr : \A i \in DOMAIN Split(found) : Split(found)[i] # Accept(a)
<1>1. found \in Seq(Rule) /\ 1 \in DOMAIN found /\ Tail(found) \in Seq(Rule) /\ found[1] \in Rule
  BY DEF FoundOK
<1>2. found[1] # Drop
  BY <1>1, FoundIsForeign
<1>3. <<found[1]>> \o Tail(found) = found
  BY <1>1
<1>4. /\ Split(found) \in Seq(Rule) /\ Len(Split(found)) = Len(found) + 1
      /\ Split(found)[1] = found[1] /\ Split(found)[2] = Drop
  BY <1>1, RulesAreRules DEF Split
<1>5. \A i \in 3 .. Len(found) + 1 : Split(found)[i] = found[i - 1] /\ i - 1 \in DOMAIN found
  BY <1>1, RulesAreRules DEF Split
<1>6. ASSUME NEW a \in Addr, NEW i \in DOMAIN Split(found)
      PROVE  Split(found)[i] # Accept(a)
  <2>1. i \in 1 .. Len(found) + 1
    BY <1>4
  <2>2. CASE i = 1
    BY <1>1, <1>4, <2>2, FoundIsForeign
  <2>3. CASE i = 2
    BY <1>4, <2>3 DEF Accept, Drop
  <2>4. CASE i \in 3 .. Len(found) + 1
    BY <1>5, <2>4, FoundIsForeign
  <2> QED
    BY <1>1, <2>1, <2>2, <2>3, <2>4
<1> QED
  BY <1>1, <1>2, <1>3, <1>4, <1>6

\* release and rollback: the ACCEPT goes, whether the install got as far as the
\* DROP or not.
LEMMA DeleteAcceptShape ==
  ASSUME FoundOK, ~HoldsOurs(found), Shape, DeleteAccept, struck' = {}
  PROVE  Shape'
<1>1. op = "unaccept" /\ op' = "undrop" /\ found' = found /\ target \in Addr
  BY DEF DeleteAccept, FoundOK, Then
<1>2. Accept(target) \in Rule /\ Drop \in Rule /\ Accept(target) # Drop /\ Deletes(Accept(target))
  BY <1>1, RulesAreRules, FirewallConstants DEF DeleteAccept, Accept, Drop
<1>3. CASE chain = Both(target) \o found
  <2>1. <<Drop>> \o found \in Seq(Rule)
    BY <1>2, FoundIsForeign
  <2>2. chain = <<Accept(target)>> \o (<<Drop>> \o found)
    BY <1>2, <1>3, <2>1, FoundIsForeign DEF Both
  <2>3. chain' = <<Drop>> \o found
    BY <1>2, <2>1, <2>2, DeletesHead
  <2> QED
    BY <1>1, <2>3 DEF Shape
<1>4. CASE chain = <<Accept(target)>> \o found
  <2>1. chain' = found
    BY <1>2, <1>4, FoundIsForeign, DeletesHead
  <2> QED
    BY <1>1, <2>1 DEF Shape
<1>5. CASE chain = found
  <2>1. chain' = found
    BY <1>1, <1>2, <1>5, FoundIsForeign, DeletesNone
  <2> QED
    BY <1>1, <2>1 DEF Shape
<1>6. CASE found # <<>> /\ chain = Split(found)
  <2>1. chain' = Split(found)
    BY <1>1, <1>2, <1>6, SplitFound, DeletesNone
  <2> QED
    BY <1>1, <1>6, <2>1 DEF Shape, Split
<1> QED
  BY <1>1, <1>3, <1>4, <1>5, <1>6 DEF Shape

\* Then the DROP goes, and what is left is what was found.
LEMMA DeleteDropShape ==
  ASSUME FoundOK, ~HoldsOurs(found), Shape, DeleteDrop, struck' = {}
  PROVE  Shape'
<1>1. op = "undrop" /\ op' = "idle" /\ found' = found /\ lock' = NoAddr
  BY DEF DeleteDrop, FoundOK, Then
<1>2. Drop \in Rule /\ Deletes(Drop)
  BY RulesAreRules DEF DeleteDrop
<1>3. chain' = found
  <2>1. CASE chain = <<Drop>> \o found
    BY <1>2, <2>1, FoundIsForeign, DeletesHead
  <2>2. CASE chain = found
    BY <1>2, <2>2, FoundIsForeign, DeletesNone
  <2>3. CASE found # <<>> /\ chain = Split(found)
    <3>1. chain = <<found[1], Drop>> \o Tail(found)
      BY <2>3 DEF Split
    <3>2. chain' = <<found[1]>> \o Tail(found)
      BY <1>2, <2>3, <3>1, SplitFound, DeletesSecond
    <3> QED
      BY <2>3, <3>2, SplitFound
  <2> QED
    BY <1>1, <2>1, <2>2, <2>3 DEF Shape
<1> QED
  BY <1>1, <1>3 DEF Shape

LEMMA InsertDropShape ==
  ASSUME FoundOK, ~HoldsOurs(found), Shape, InsertDrop
  PROVE  Shape'
<1>1. op = "drop" /\ found' = found /\ target' = target /\ target \in Addr /\ lock = NoAddr
  BY DEF InsertDrop, FoundOK
<1>2. Accept(target) \in Rule /\ Drop \in Rule /\ Accept(target) \in Rule
  BY <1>1, RulesAreRules
<1>3. CASE allowed /\ InsertsSecond(Drop) /\ op' = "idle" /\ lock' = target
  <2>1. chain = <<Accept(target)>> \o found
    BY <1>1, <1>3 DEF Shape
  <2>2. chain[1] = Accept(target) /\ Tail(chain) = found
    BY <1>2, <2>1, FoundIsForeign
  <2>3. chain' = Both(lock') \o found
    BY <1>3, <2>2 DEF InsertsSecond, Both
  <2> QED
    BY <1>1, <1>3, <2>3, FirewallConstants DEF Shape, Both
<1>4. CASE ~allowed /\ InsertsSecond(Drop) /\ op' = "unaccept"
  BY <1>1, <1>4 DEF Shape, InsertsSecond, Split, Both
<1>5. CASE UNCHANGED chain /\ op' = "unaccept"
  BY <1>1, <1>5 DEF Shape, Split, Both
<1> QED
  BY <1>3, <1>4, <1>5 DEF InsertDrop, Then, Rollback

LEMMA ShapeNext == FShape /\ [FNext]_fvars => FShape'
<1> SUFFICES ASSUME FShape, [FNext]_fvars PROVE FShape'
  OBVIOUS
<1> USE DEF FShape
<1>0. found' = found
  BY DEF FNext, fvars, Install, DeleteStale, LoadScript, InsertAccept, InsertDrop, Release,
         DeleteTable, DeleteAccept, DeleteDrop, Kill
<1>1. FoundOK'
  BY FirewallConstants DEF FoundOK, NftOps, IptablesOps, FNext, fvars, Then, Install, DeleteStale, LoadScript,
     InsertAccept, InsertDrop, Release, DeleteTable, DeleteAccept, DeleteDrop, Kill, Rollback
<1> SUFFICES ASSUME struck' = {}, ~HoldsOurs(found) PROVE Shape'
  BY <1>0, <1>1 DEF HoldsOurs
<1>2. CASE \E a \in Addr : Install(a)
  BY <1>2 DEF Install, Then, Shape, FoundOK
<1>3. CASE DeleteStale
  BY <1>3 DEF DeleteStale, Then, Shape, FoundOK, DeletesTable, CommandFails, NftOps
<1>4. CASE LoadScript
  <2>1. op = "load" /\ op' = "idle" /\ found' = found /\ struck = {} /\ found = <<>> /\ target \in Addr
        /\ lock = NoAddr
    BY <1>4 DEF LoadScript, Then, FoundOK, NftOps
  <2>2. chain = <<>>
    BY <2>1 DEF Shape
  <2>3. CASE UNCHANGED chain /\ UNCHANGED lock
    BY <2>1, <2>2, <2>3 DEF Shape
  <2>4. CASE chain' = chain \o <<Accept(target), Drop>> /\ lock' = target
    <3>1. <<Accept(target), Drop>> \in Seq(Rule)
      BY <2>1, RulesAreRules
    <3>2. chain' = Both(lock') \o found
      BY <2>1, <2>2, <2>4, <3>1 DEF Both
    <3>3. lock' # NoAddr
      BY <2>1, <2>4, FirewallConstants
    <3> QED
      BY <2>1, <3>2, <3>3 DEF Shape, Both
  <2> QED
    BY <1>4, <2>3, <2>4 DEF LoadScript, CommandFails
<1>5. CASE InsertAccept
  BY <1>5 DEF InsertAccept, InsertsFirst, CommandFails, Then, Shape, FoundOK
<1>6. CASE InsertDrop
  BY <1>6, InsertDropShape DEF InsertDrop
<1>7. CASE Release
  BY <1>7 DEF Release, Then, Shape, Both
<1>8. CASE DeleteTable
  BY <1>8 DEF DeleteTable, DeletesTable, CommandFails, Then, Shape, FoundOK, NftOps
<1>9. CASE DeleteAccept
  <2>1. struck = {}
    BY <1>9 DEF DeleteAccept, Deletes
  <2> QED
    BY <1>9, <2>1, DeleteAcceptShape
<1>10. CASE DeleteDrop
  <2>1. struck = {}
    BY <1>10 DEF DeleteDrop, Deletes
  <2> QED
    BY <1>10, <2>1, DeleteDropShape
<1>11. CASE Kill
  BY <1>11 DEF Kill
<1>12. CASE UNCHANGED fvars
  BY <1>12 DEF fvars, Shape, Both, Split
<1> QED
  BY <1>2, <1>3, <1>4, <1>5, <1>6, <1>7, <1>8, <1>9, <1>10, <1>11, <1>12 DEF FNext

\* Without a lock the chain is what it was before the first one, whatever rules
\* others had put there, unless the daemon was killed or a removal failed (the
\* rollback of install_iptables, the Drop of PeerLock).
THEOREM FirewallNothingLeft == FSpec => []NothingLeft
<1>1. FShape => NothingLeft
  BY DEF FShape, Shape, NothingLeft
<1> QED
  BY <1>1, ShapeInit, ShapeNext, PTL DEF FSpec
=============================================================================
