# Network Deck in TLA+

Network Deck lends the built-in controller of a Steam Deck to a Windows PC.
`usbipd` and `usbip-win2` carry the USB traffic; the program in this repository
decides **when** the controller is exported, **to whom**, and **when** the PC
attaches it, and pairs the two machines. Those decisions are spread over two
machines, four processes and a handful of threads, every one of them shelling
out to commands that may fail, and this directory models, checks and proves them.

Everything is translated from the source under `src/`; `PROJECT.json` maps every
definition to its lines.

## The system

| Component | State it keeps | Operations | Talks to |
|---|---|---|---|
| Daemon loop (`network-deck/daemon.rs`), connection (`connection.rs`) | Idle/Bound, failure counter, peer lock, inhibitor, last status | boot, tick every 500 ms, shutdown | `usbip`, `nft`, `systemd-inhibit`, control files, beacon slot |
| Control files (`control.rs`) | `paused`, `status.json` | toggle, publish, clear | daemon, kiosk, hotkey |
| Firewall lock (`firewall.rs`) | an nft table, or iptables rules among others | install, roll back, drop | kernel |
| Inhibitor (`inhibit.rs`), hotkey (`hotkey.rs`) | a child process; held keys | acquire, drop; toggle the flag | logind; control files |
| Kiosk (`app.rs`, `main.rs`), supervision (`daemon_child.rs`) | screen, child, armed Forget, shutdown clock | launch, pause, exit, forget, close, restart | daemon (signals), control files, trust file |
| Pair worker (`pair_worker.rs`), dialog (`pair_dialog.rs`) | phase slot or event queue, decision channel, cancel flag | accept, reject, cancel, close | pairing |
| Pairing (`discovery/pair.rs`) | phase, batch, declined, choice | collect, prompt, accept, tail; sender thread | UDP broadcast, trust file |
| Trust file (`trust.rs`) | at most one peer | load, save, remove | all processes |
| Beacon (`beacon.rs`, `packet.rs`) | live address and when it was heard | broadcast, handle | UDP 49152 |
| Attach state machine (`client-win/attach.rs`) | Idle/Attached, backoff, last attempt | tick | driver |
| `usbip.exe` driver (`main.rs`, `usbip_cli.rs`) | cached port list | list, attach, port | vhci driver, usbipd |
| Tray program (`client-win/main.rs`, `tray.rs`, `util.rs`) | paused, tooltip, last tooltip, recv thread | tray events, re-exec | dialogs, beacon, state machine |
| Deck installer (`install.rs`), setup screen (`app.rs`) | files under `/etc`, `/var/lib`; setup phase | install, uninstall, poll | pacman, sudo, pkexec |
| Steam shortcut (`steam_shortcut.rs`) | `shortcuts.vdf` of each account | upsert | Steam |
| Autostart, Windows dialogs, driver installer | registry, files | run once | operating system |

What is hard about it:

- **Interleaving and atomicity.** A tick samples beacon and flag, then makes up to
  five outside calls; taps, beacons, signals and SIGKILL fall between any two. A
  pairing worker and its window talk through a slot, a queue and a flag.
- **Partial failure.** Every outside call may fail, most are logged and forgotten;
  the installer stops at the first and rolls almost nothing back.
- **Crash and restart.** A killed daemon leaves a bound controller, firewall rules,
  an inhibitor and a status file to a successor that starts from nothing.
- **Delivery.** Pairing and presence run over broadcast UDP: lost, duplicated,
  reordered, and aged in a buffer nobody reads while a prompt is open.
- **Stale state.** A cached port list, a tooltip painted behind the back of its
  cache, an address read after the decision it belongs to, Steam's own copy of a file.
- **Timeouts and numbers.** Backoff, cache lifetime and staleness overlap; closing
  has two grace windows; timestamps wrap every 71 minutes.

What makes each part correct: the daemon's memory and the kernel agree, guards exist
exactly while bound, a clean exit leaves nothing, pause and reconnect always work in
the end (Deck); a held lock admits its peer only (Firewall); no daemon is
unattended, a window that is closing closes and releases the controller (Kiosk); trust is mutual
consent and is reached (Pair); an answer meets its prompt and a closed window
returns (PairUi); presence is earned and the address heals (Beacon); no attachment
is dropped by mistake, and an available one is made within a bound (Attach); a sudo
rule never names a missing binary, success is complete (Setup).

## Modules

| Module | What it is |
|---|---|
| `Deck` | the daemon: main thread, recv thread, hotkey, kernel state, control files |
| `Kiosk` | EXTENDS `Deck`: the kiosk supervising that daemon, an older daemon still stopping beside it (`Elder`, a second instance of `Deck`), the trust file |
| `Firewall` | the lock `Deck` uses as one call, command by command, in both backends |
| `PairConsent` | abstract: a device trusts a peer only after both users agreed |
| `Pair` | `discovery::pair` on several devices and a network; implements `PairConsent` |
| `PairUi` | the pairing worker and the window, of the kiosk and of the tray's dialog |
| `Beacon` | presence: broadcasts, a network, the replay window, the live slot |
| `Attach` | the tray program: main loop, state machine, driver cache, environment |
| `AttachTimed` | EXTENDS `Attach` with two stop watches that only observe |
| `Install`, `Shortcuts` | the installer's and uninstaller's steps; the Steam shortcut |
| `Setup` | EXTENDS both: the setup screen, a terminal, Steam; implements `Install` |
| `DeckProofs`, `KioskProofs`, `FirewallProofs`, `PairProofs`, `PairUiProofs`, `BeaconProofs`, `AttachProofs`, `SetupProofs` | theorems |
| `MCDeck`, `MCKiosk`, `MCFirewall`, `MCPair`, `MCPairUi`, `MCBeacon`, `MCAttachTimed`, `MCSetup` | instances for TLC |

**Deck.** `pc` names the main thread's next outside call; each action is one call
with everything the code does up to the next (the diagram is at the head of the
module). `exported`, `table` and `orphan` are the kernel's; `pausedFile` and
`statusFile` are the two files; the rest is `run()`'s locals and the beacon slot.
`Faults` names the calls that may fail in a run. The lock is the nft backend's:
`table` has the peer whose rules come first, and `buried` when rules were loaded
behind them, which is what the ignored failure of the first `nft delete table` leads
to (`Loaded`, fault `"stale"`). `InstallLock` keeps that `*peer_lock = lock` drops an
old lock after the new one is installed, and `RefreshDrops` that the refresh drops it
before. A `usbip bind` on a device that is bound already may succeed or fail, and a
process ends with its memory. A signal in the boot either ends the process or is
remembered, since the handlers are registered somewhere in it. The bind error is
abstracted to the count it names.

**Kiosk.** `screen` is what `update()` draws; `child` is the kiosk's view of its
daemon, which lags behind (`Reap` is the waiter thread). Signals go to the `sudo` or
`pkexec` in front of the daemon, whose answer nobody looks at: it forwards SIGTERM, or,
as an `"immune"` child, refuses the kiosk's signals (`"refused"`); SIGKILL it cannot
forward, so `ForceKill` may leave the daemon alive with the SIGTERM it was sent before.
A kiosk that has killed or run out of patience is `"dropping"`: it is inside
`DaemonChild`'s `Drop`, which ends in a `join()`. `Mishaps` names spawns, removals and
signals that fail and grace windows that expire.

Port 49152 belongs to the recv thread (`daemon.rs:109-132`), which ends within 500 ms
of the signal while the main thread may still be in an outside call. A new daemon that
finds the port held exits in its boot, before it has touched anything; one that finds
it free boots beside the older process. That one becomes the *elder*: the variables
`epc` ... `elastStatus` are its memory, `Elder` is `Deck` instantiated with them over
the same kernel and files, and `ElderSteps` is what it still does: the rest of its
tick, its shutdown, its hotkey, its death. `company` remembers that the daemon in hand
has had an elder; there, no daemon can rely on the table or the status file, since the
elder's cleanup takes away its successor's. `ElderAt` bounds the steps at which a
daemon may become an elder, and there is one elder at a time. `Unpair` is the command,
which tells nobody; a pairing in a terminal is `PairSaves`.

**Firewall.** `chain` is the list of rules the kernel walks: the program's nft
table, or iptables' INPUT with any rules of somebody else (`Others`) in it, which
may be the same as ours; `op` is the next command.
The second `iptables -I` runs whatever became of the first and is refused by an
empty chain, and `Deletes` takes the first equal rule, whoever put it there. A lock
is dropped before the next is installed, as `GuardsEndWithBinding` and the refresh
of `Deck` have it, unless a kill forgets it.

**Pair.** A packet is what its Ed25519 signature vouches for: sender, accepted peer
and whether it has left the replay window; fingerprints are taken to be injective
and signatures sound. An inbox is a set, so packets are reordered and duplicated
freely; `Broadcast` loses them under `"loss"` and when the buffer (`Room`) is full.
Packets age while a prompt is open, the only time nobody reads the socket. A
deadline, a cancel, a receive error and a death are all `GiveUp`. A save that fails has
truncated the old file already or not, so the trust of before may be lost. Strangers are
other devices that pair at the same time. `agreed` is a history of the users'
Accepts that no action reads.

**PairUi.** The same `run_pair_with` seen from its UI: `worker` is where it stands,
`posted` what it has told the window (the kiosk's slot, which is overwritten, or the
dialog's queue), `answers` the decision channel (the kiosk's holds one, the dialog's
any number), and the network is open: which candidates turn up and when the 120 s
are over is left free. A frame is painted, then clicked at most once, and the worker
may post in between. The last frame of the dialog still has its buttons, and
dropping the kiosk's worker answers an open prompt. `accepted`, `clicked` and
`twice` are histories. The kiosk's `try_send` keeps the second click on one prompt
for the next; that is the `twice` in `OnlyAcceptedIsTrusted`.

**Beacon.** Both clocks count modulo `ClockSize`, ours `skew` away; the test is the
two's complement one of the code. `net` holds packets up to `MaxDelay` seconds and
`Room` of them; one may be lost, and received twice. The window and the network's
memory together are shorter than the wrap, as in the code (30 s against 71 minutes).
A stranger's packet has its own key; a peer that is pairing names nobody. `silence`
is a history: for each address, the seconds since the peer last sent us a beacon
from there.

**Attach.** `pc` cuts a period of the loop into: tray events, sample and tick,
`usbip attach`, tooltip, sleep. The tray may deliver any number of events in any
order. There is one controller, so the cached port list says that it is attached or
that it is not; usbipd offers it to the Deck's current address while it is exported
and not in use. Delays are counted in loop periods (500 ms: base 2, cap 60, port
list 4); time passes in the sleep and under an open dialog. The text of a tooltip is
a token, the connecting text its address.

**Install, Shortcuts, Setup.** `job` is the next step of the one running installer or
uninstaller; each step may fail (`Faults`) the way the code treats it: a warning,
the end of the process, or, in the last two steps, the end after the sudoers file
has been removed. `fs::copy` takes two steps, `CopySelf` that truncates the binary and
`CopyRest` that writes it, so a re-install shows the rule of the first install over half
a binary. `Die` leaves the file being written cut short. `struck` is a history of
the failures that have cut an installer short. A `shortcuts.vdf` is what its parser
makes of it, an entry its Exe; Steam reads the file when it starts and writes its
copy when it likes. `Setup` adds the window: pkexec may be missing or refused, the
Steam step runs on the window's thread, the installer outlives the window. All jobs
are run by one user, one at a time.

## Runs

| Run | Bounds | States | Shows |
|---|---|---|---|
| `MCKiosk_kill` | 2 addresses, threshold 1, kills and seven failing calls, grace windows, refused signals, elders, `MCBounds` | 486,508 | what holds of every daemon, what of one that is alone; the kiosk only asks what `Deck` allows |
| `MCKiosk_close` | 2 addresses, threshold 1, no kills, signals from outside, binds and status writes fail, grace windows hold | 110,508 | lock and file are what the daemon takes them for, what a clean exit leaves behind; pausing, closing and reconnecting end |
| `MCFirewall` | 3 addresses, chain of 7, four chains of others, failing commands and kills | 161,366 | a held lock admits its peer only, a released one leaves the chain as it was |
| `MCPair_consent` | 2 devices, 1 stranger, buffer 1, all faults | 644,330 | trust is mutual; `Pair` implements `PairConsent` |
| `MCPair_live` | 2 devices, 1 stranger, buffer 8, no faults | 61,157 | consenting users get paired, peers get offered |
| `MCPairUi` | 3 peers, kiosk and dialog | 120,227 | an answer meets its prompt, prompts are shown, closing returns |
| `MCBeacon` | clock of 4, window 1, skew 1, stale after 1, delay 1, 2 packets | 342,272 | a present peer has sent lately, from the address in use; the address heals |
| `MCAttachTimed` | 2 addresses, backoff 1 to 4, list 3, all faults | 276,636 | nothing is given up by mistake; attached again, within the bounds in time |
| `MCSetup_install` | 2 jobs, 1 account, 1 game, all faults | 639,792 | rule and binary, success, the shortcut, the setup screen |
| `MCDeck_leftover` | 1 address, kills | violation | see Disagreements |
| `MCPair_seen` | packets age | violation | |
| `MCSetup_half` | two file operations fail | violation | |

Why the bounds are enough: the lock and the refresh compare two addresses and never
remember a third; with a threshold of 1 the failure counter is below, at and at its
cap (`DeckProofs` has no bound). Elders are taken at `publish`, the step before the
loop head that sends them through all of the shutdown while the successor boots and
binds; the other steps at which one could be taken lie on that same way or inside one
tick (`KioskProofs` has no such bound). `MCBounds` keeps the run within minutes: nobody
taps Forget (`MCKiosk_close` has it), beside an elder or around a child that refuses
signals the flag and the trust file rest, no leftover table survives its deletion and no
inhibitor is left over, a refusing child has no elder, a daemon that has or had an elder
is not itself told to stop, a leftover inhibitor or a buried rule meets a trust file and
not one another, a buried rule meets no pause, and a failing inhibitor comes without any
of these. The theorems know none of these bounds.
A chain of 7 holds two leftovers of kills, rules of
others and a lock; the chains of others are none, a plain one, a ban before it, and
one with a rule equal to ours (`FirewallProofs` has no bound). Pairing is between two
devices and the stranger stands for all others (`PairProofs` has no bound). An answer
under way, a prompt on the screen and a prompt behind it are three peers. A clock of
4 with a window, a skew and a delay of 1 wraps in every few steps, and a packet may
look as old as the arithmetic can tell apart (`BeaconProofs` has no bound). A backoff
of 1, 2, 4 visits base, doubling and cap; the list lives longer than an attach at
once after a loss takes and shorter than the cap, as in the code. Two jobs are an
install over an install, an uninstall and a half finished one of each, before and
after each other; initial states with an older release or a complete installation
stand for what came before. `MCKiosk_kill`, `MCPair_consent` and `MCFirewall` use
symmetry, of addresses and of devices; the runs with liveness use none. Deadlock is
checked except in `MCPairUi`, where a closed window is the end, and in the runs of
`MCSetup`, whose jobs are bounded by `MaxJobs`.

Fairness. `Deck`: weak fairness of the main thread; strong fairness of a bind and of
a status write, which say that outside calls do not fail for ever; nothing about
beacons, taps, signals or restarts. `Kiosk`: the daemon's main thread, the waiter
thread and the frames that poll. `Pair`: sender threads send, an open window closes
(it is a clock), a loop that is not at a prompt reads each packet its FIFO socket
holds; a user may leave a prompt open for ever. `PairUi`: the worker steps (its
receives time out), frames are painted, a window asked to close closes; no click.
`Beacon`: time passes; strong fairness of a broadcast and of a fresh packet that
arrives say that not every beacon is lost. `Attach`: weak fairness of the loop;
strong fairness of leaving the event loop (nobody clicks for ever) and of successful
`list` and `attach` (they do not fail for ever when the controller is offered);
dialogs are closed some day. `Setup`: the installer's process, the polling frames and
the Steam step.

## Proofs

For every value of the constants, from the assumptions named in the modules
(`DeckConstants`, `KioskConstants`, `PairConstants`, `AttachConstants` and so on:
sentinels outside their sets, thresholds positive, base at most cap, list lifetime
below the cap, fault names known):

- `DeckProofs`: `TypeOK` and the six safety invariants. None is inductive alone;
  `Steps` adds what holds at each `pc`: nothing held at a cold start, the shutdown
  order, who may hold a lock or an inhibitor at which call, which samples a Bound
  tick was decided on. `LastStatusIsOnDisk` and `StatusIsCoherent` add what the
  file's writer knew; the lemma `Accounted` says where a bound controller comes from.
- `KioskProofs`: with the elder's memory typed and its own step facts carried along
  (`Memories`), every step that leaves `company` false is a `Deck` step or leaves `Deck`
  alone (`KioskImplementsDeck`). What concerns a daemon's own memory survives an elder
  (`GuardsEndWithBinding`, `BoundIsGuarded`, `StatusIsCoherent`: two writers, each of a
  coherent record); what concerns kernel and file is stated for a daemon that is alone
  (`LockHeldAlone`, `StatusHeldAlone`): `KioskKeepsGuards`. `Supervised` gives
  `NoStrayDaemon`. If no grace window expires a daemon whose window is gone has ended
  (`Attended`), so there never is an elder: `KioskIsDeck` is then the refinement without
  a condition, and `KioskReleases` draws its conclusions.
- `FirewallProofs`: `LockHolds` follows from what the first two rules of the chain
  are while a lock is held, for iptables, and from the table being empty before the
  script is loaded, for nft. `NothingLeft` needs `Shape`: until a command fails or a
  kill strikes, the chain is the rules of others, untouched, behind the at most two
  of ours that the next command says are there. A deletion then takes the first
  equal rule and finds ours, since the others have none like it; nothing is assumed
  of them otherwise.
- `BeaconProofs`: the remainders are taken back by `RemainderWraps`, and
  `WindowIsExact` says that the 32-bit test accepts a packet exactly when its age,
  corrected by the clocks' difference, is within the window, across the wrap.
  `StampsAreTrue` (a packet's stamp is as far behind the peer's clock as it is old),
  `NoOlderSilence` (the peer has not been silent at an address for longer than a
  packet from there is old) and `LiveIsEarned` (the live slot is no older than its
  address has been silent, but for the window) are inductive and give
  `PresenceIsEarned`.
- `PairProofs`: `Honest` (a packet about a peer was sent by a device whose user
  accepted it) and `Chosen` (who has a choice, and that its user made it) make the
  refinement of `PairConsent` a case analysis; mutual trust follows.
- `PairUiProofs`: as long as no prompt has got two clicks, a prompt without a click,
  on the screen or still queued, is the one the worker waits at, and an Accept under
  way is about that prompt (`AnswerInv`); in a dialog that is not cancelled no prompt
  gets a second click, because its peer is declined before the worker asks again
  (`DialogInv`); after a cancel the worker tests the flag before it saves. `DoneInv`
  and `OutcomeInv` give `SuccessIsSaved`. `UiAnswersArrive`, which no run states, is the
  other half: a first answer is not dropped by the kiosk's `try_send` either.
- `AttachProofs`: `CacheIsPositive` (a young list of an attached machine names the
  controller) gives `AttachGivesUpForAReason`; with `GoneIsCached` (a dead link is no
  older than the list) `AttachLossIsNoticed`; with `WaitIsBackoff` (a wait is no
  older than the last attempt, and a period that sees it out works on a sample that
  is still true) `AttachIsPrompt`: the three delays do not add up beyond the cap.
- `SetupProofs`: `BinaryInv` (at which steps the binary is whole, and that it goes
  after the rule), `RuleInv` (who can leave a rule unfinished) and `ProgressInv` (what each
  step has behind it) are inductive for `Install`; every step of `Setup` is one of
  `Install` or a stutter (`SetupKeepsInstall` draws the conclusions); `ShortcutInv` says that every copy of the list, the file,
  Steam's and the one about to be written, has one own entry at most; `InHand` that
  what the kiosk is about to write is its own upsert into what is on disk, unless
  Steam has written in between, and an upsert leaves every foreign entry at its place.

The invariants of `BeaconProofs` and `FirewallProofs` were checked with TLC on
small instances before they were proved. Every safety invariant and action property
of the passing runs is a theorem. Only model-checked: all
liveness (`PauseReleases`, `StatusCatchesUp`, `PinFollowsPeer`, `BindRecovers`,
`CloseCompletes`, `BothTrust`, `EveryPeerIsOffered`, `PromptIsShown`,
`CloseReturns`, `Reattaches`, `InstallingEnds`, `AddressHeals`): it rests on weak and
strong fairness, hence on ENABLED, which the prover does not handle.

## Disagreements found

1. **A bound leftover is never released** (`MCDeck_leftover`). `Connection::tick`
   unbinds only from Bound, and a daemon after a SIGKILL starts Idle. The kiosk's
   text promises that pausing helps, the test plan that no bind is left.
2. **Seen before fresh** (`MCPair_seen`). `collect_candidates` remembers a key
   before it tests the packet's age.
3. **Half an installation counts** (`MCSetup_half`). `install_files` returns on the
   first error with the sudoers file already written; only the two steps after it
   take the file back. The comment on those two says that sudo-breaking partial states
   are kept off disk and any failure removes the file, which is true of their own
   failures only; `is_installed` asks for the file and nothing else.

Visible in the models, without a run of their own:

- Two daemons (`Elder`): a daemon that is stopping when its `sudo` is killed lets go of
  the port first, and a relaunched kiosk starts the next beside it. The older one's
  unbind, `nft delete table` and `clear_status` then hit what its successor has bound,
  installed and written; the successor still believes in all three, and since its
  status has not changed it does not write the file again.
- A signal the child refuses is not noticed, and the `join()` in `Drop` has no limit,
  although its comment says "bounded so we don't freeze on process teardown"
  (`daemon_child.rs:208-210`).
- `network-deck unpair` leaves a running daemon exporting the controller to the peer
  that has just been unpaired, until it is stopped.
- `copy_self_to` truncates the binary the NOPASSWD rule names on every re-install from
  elsewhere.
- Only the first close request is cancelled; the second leaves the daemon the 500 ms
  of `Drop` instead of the 5 s before SIGKILL (`CloseRequest`).
- An unfinished pairing sets the tray's tooltip without `last_tooltip`, so that it
  says searching while connected.
- `ARCHITECTURE.md:120` calls the GUI the sole writer of the flag, which the hotkey
  also writes (`HotkeyToggle`).
- Disconnect in the tray detaches nothing, as the comment on `UsbipCli::detach` admits.
- The comment in `install_nft` counts on "`add` semantics", but rules added behind an
  old DROP have no effect; only the delete before it, whose failure is ignored, makes
  a stale table harmless (`LockHolds` excludes that case by name, `LockIsInstalled` by
  `buried`).
- A second click on one prompt of the kiosk may answer the next one (`twice`).
- pkexec leaves `SUDO_USER` unset, so the installer run from the setup screen falls
  back to the default user, and a rewritten `shortcuts.vdf` loses keys beside
  `shortcuts`; neither is in the model.

## Not modelled

Parsers of `usbip` output and of the VDF, packet layout, keys and identity, the
search of sysfs, chords of the hotkey, the calendar of `time.rs`: functions of bytes
that no other state depends on. Windows dialogs, autostart and the driver installer:
Win32 calls. A crash inside the write of the trust file; a kiosk that dies without
running its destructors; a SIGKILL from outside that hits sudo alone; a third daemon
beside two; two kiosks; the re-exec that may find its port still taken; the duration
of calls to `usbip.exe`; two installers at once; a beacon replayed a whole wrap of the
clock (71 minutes) later, which the 32-bit test cannot tell from a new one and which
`PresenceIsEarned` excludes by bounding the network's memory; what `ShortcutsKept`
excludes, the entries Steam wrote between the kiosk's read and its rename. `PROJECT.json` lists every component
with its status and every hazard with the property that covers it, or why none does.

## Plan

The order in which the modules were written, and what is left.

1. `Deck`, `Kiosk`; `Pair`, `PairConsent`; `Attach`, `AttachTimed`; their theorems.
2. `Beacon`, `PairUi`, `Firewall`, `Install`, `Shortcuts`, `Setup`; theorems for
   each of them.
3. Left: `Bridge`, daemon, tray program and network together: pause on one side and
   disconnect on the other, and who holds the controller when. `Store`: the trust
   file with crashes inside a write, under its three writers. The parsers of
   `usbip list` and `usbip port`. The lock as a specification of its own, extracted
   from `Deck`, which the nft backend of `Firewall` implements command by command.
