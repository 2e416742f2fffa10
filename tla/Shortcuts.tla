------------------------------ MODULE Shortcuts ------------------------------
(***************************************************************************)
(* The kiosk's entry in the shortcuts.vdf of every Steam account: read,    *)
(* upsert, temporary file, rename, account after account; and Steam, which *)
(* reads the file when it starts and writes its own copy back when it      *)
(* likes.  A file is what its parser makes of it, and an entry is its Exe, *)
(* which is all upsert compares.                                           *)
(***************************************************************************)
EXTENDS Naturals, Sequences

CONSTANTS
    Account,          \* the directories find_userdata_dirs accepts
    NoAccount,
    Game,             \* what else the user has in Steam
    Ours,             \* the Exe of our entry
    DiskFaults        \* what fails: "read", "tmp", "rename"

ASSUME ShortcutsConstants ==
    /\ NoAccount \notin Account
    /\ Ours \notin Game
    /\ DiskFaults \subseteq {"read", "tmp", "rename"}

VARIABLES
    vdf,              \* the file of each account
    todo,             \* the accounts not yet handled
    at,               \* the account in hand, NoAccount without one
    step,             \* "none", "read", "tmp" or "rename"
    entries,          \* the list to be written
    added,            \* how many accounts have been written
    raced,            \* Steam has written the file since it was read
    steam,            \* the account Steam runs under, or NoAccount
    mem               \* Steam's own copy of the list

kioskSteam == <<todo, at, step, entries, added, raced>>
steamSelf  == <<steam, mem>>
svars      == <<vdf, kioskSteam, steamSelf>>

Entry == Game \cup {Ours}

\* "list", "broken" for one that does not parse, "empty" for none or no bytes.
File(kind, list) == [kind |-> kind, list |-> list]

OwnPlaces(list) == {i \in DOMAIN list : list[i] = Ours}

\* The other entries, each at its place.
Foreign(list) == [i \in DOMAIN list \ OwnPlaces(list) |-> list[i]]

AtMostOneOwn(list) == \A i, j \in OwnPlaces(list) : i = j

SInit ==
    /\ vdf \in [Account -> {File("empty", <<>>), File("broken", <<>>)}
                           \cup {File("list", <<e>>) : e \in Entry}]
    /\ todo = {}
    /\ at = NoAccount
    /\ step = "none"
    /\ entries = <<>>
    /\ added = 0
    /\ raced = FALSE
    /\ steam = NoAccount
    /\ mem = <<>>

-----------------------------------------------------------------------------
(* upsert_shortcut. *)

ParsesAnything(file) == TRUE

\* parse_shortcuts; a file that does not parse is left alone.
Parses(file) == file.kind # "broken"

AlwaysAppends(list) == Append(list, Ours)

\* An entry with our Exe is rebuilt in its place.
Upsert(list) == IF OwnPlaces(list) = {} THEN Append(list, Ours) ELSE list

\* run_steam_shortcut_step: find the accounts.
FindAccounts ==
    /\ step' = "read"
    /\ todo' = Account
    /\ added' = 0
    /\ UNCHANGED <<at, entries, raced>>

\* This account is done with, well or not.
NextAccount ==
    /\ step' = "read"
    /\ at' = NoAccount
    /\ entries' = <<>>
    /\ raced' = FALSE

ReadShortcuts ==
    /\ step = "read"
    /\ \E a \in todo :
          /\ todo' = todo \ {a}
          /\ \/ /\ Parses(vdf[a])
                /\ at' = a
                /\ entries' = Upsert(vdf[a].list)
                /\ step' = "tmp"
                /\ raced' = FALSE
             \/ /\ ~Parses(vdf[a]) \/ "read" \in DiskFaults
                /\ NextAccount
    /\ UNCHANGED <<vdf, added, steamSelf>>

WriteTmp ==
    /\ step = "tmp"
    /\ \/ step' = "rename" /\ UNCHANGED <<at, entries, raced>>
       \/ "tmp" \in DiskFaults /\ NextAccount
    /\ UNCHANGED <<vdf, todo, added, steamSelf>>

Rename ==
    /\ step = "rename"
    /\ \/ vdf' = [vdf EXCEPT ![at] = File("list", entries)] /\ added' = added + 1
       \/ "rename" \in DiskFaults /\ UNCHANGED <<vdf, added>>
    /\ NextAccount
    /\ UNCHANGED <<todo, steamSelf>>

UpsertStep == ReadShortcuts \/ WriteTmp \/ Rename

StepIsOver == step = "read" /\ todo = {}

-----------------------------------------------------------------------------
(* Steam. *)

SteamStarts ==
    /\ steam = NoAccount
    /\ \E a \in Account : steam' = a /\ mem' = vdf[a].list
    /\ UNCHANGED <<vdf, kioskSteam>>

\* The user adds a game.
SteamEdits ==
    /\ steam # NoAccount
    /\ \E g \in Game : /\ \A i \in DOMAIN mem : mem[i] # g
                       /\ mem' = Append(mem, g)
    /\ UNCHANGED <<vdf, kioskSteam, steam>>

SteamSaves ==
    /\ steam # NoAccount
    /\ vdf' = [vdf EXCEPT ![steam] = File("list", mem)]
    /\ raced' = (raced \/ at = steam)
    /\ UNCHANGED <<todo, at, step, entries, added, steamSelf>>

SteamExits ==
    /\ steam # NoAccount
    /\ steam' = NoAccount
    /\ mem' = <<>>
    /\ UNCHANGED <<vdf, kioskSteam>>

SteamStep == SteamStarts \/ SteamEdits \/ SteamSaves \/ SteamExits

-----------------------------------------------------------------------------
\* However often setup is run, whatever Steam writes back and whichever call
\* fails, no account ends up with two entries of ours.
OneShortcut == \A a \in Account : AtMostOneOwn(vdf[a].list)

\* The user's own shortcuts survive: the kiosk replaces only files it could
\* parse, and puts back every foreign entry in its place, unless Steam wrote
\* the file after the kiosk had read it.
ShortcutsKept ==
    [][Rename /\ ~raced => \A a \in Account :
          vdf'[a] # vdf[a] => /\ vdf[a].kind # "broken"
                              /\ Foreign(vdf'[a].list) = Foreign(vdf[a].list)]_svars
==============================================================================
