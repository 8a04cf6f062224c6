# Verification of the GameServer-Programming servers

The repository holds the game servers and clients of a server-programming
course, in C++ on Windows I/O completion ports.  This directory models the
final server, `src/Tripple_Accent_SERVER`, what differs in the earlier one,
`src/2019_WT_SERVER`, and the packet reassembly that servers and client share:
TLA+ modules, TLC configurations, and theorems checked by TLAPS.

## 1. Inventory

### Tripple_Accent_SERVER/server_main.cpp (the core)

Four worker threads take completions from one completion port; an accept
thread, a timer thread and a DB thread run next to them (`main`).

| part | state | operations | interacts with |
|---|---|---|---|
| accept thread, `do_accept` | `clients[]`: `in_use`, `socket`, lists | takes the lowest slot not in use | workers read `in_use` without a lock |
| worker threads, `worker_thread` | none of their own | receive, send and error completions, timer and DB events | everything |
| reassembly (`EV_RECV`) | `packet_buffer`, `prev_size` | cuts the stream into packets | `process_packet`, `do_recv` |
| view lists | `view_list`, `npc_view_list` under `v_lock`; `x`, `y` without a lock | `CS_MOVE`, logins, resurrection, deaths, `random_move_NPC`, `disconnect_client`, the stress-test packets | put and remove packets to the clients |
| sessions | `in_use`, `is_login`, `is_dummy`, `login_id`, level, gold, kind, place | `CS_LOGIN`, `CS_LOGOUT`, `disconnect_client`, DB events | `db_queue`, the DB |
| DB thread, `do_transaction` | `db_queue` | posts an event every 10 ms | workers run `search_user_id`, `save_user_data` |
| timer thread, `do_timer` | `timer_queue` | posts what is due | `EV_*` handlers |
| NPCs | `npcs[]`: place, `is_die`, `is_sleeping`, `target_user_id`, Lua state | `EV_MOVE`, `EV_NPC_ATTACK`, `EV_NPC_RESURRECTION`, `wakeup_NPC` | timer, view lists |
| combat | `HP`, `LEVEL`, `EXP`, `GOLD`, `ATTACK` | `EV_ATTACK`, `is_level_up`, `cal_hp`, `*_effect` | DB updates, chat packets |
| failure | none | `error_display` and `while (true)` | a failed send, receive or completion stops its thread for ever |

### The rest

| part | what it is | here |
|---|---|---|
| `2019_WT_SERVER` | earlier version of the server | `Earlier`: how connections end, NPC lists, the timer; its reassembly is that of `ServerAssembly` |
| `2019_WT_CLIENT` | graphical client | `ReadPacket` in `ClientAssembly`; `ProcessPacket` is what puts and removes do to a screen |
| `2019_WT_STRESS` | stress-test client | not modelled (section 6); its packets are requests of `Sessions` and `Views` |
| `Chess` | chess server with overlapped callbacks, OpenGL client | not modelled |
| `2019_WT_DB`, `2019_WT_LUA` | one-shot demos | not modelled |
| `교수님` | the lecturer's samples | not part of the system |

### What is hard

* A completion carries a slot number and no connection: everything that is
  under way when a slot changes hands acts on the next owner.
* Each view list has a lock, but a handler takes it many times, acts on copies,
  and reads other slots' `in_use` and positions without it; packets are sent
  after unlocking.
* `disconnect_client` and `do_accept` change a slot field by field.
* Saves and logins pass two threads and a queue; the slot goes on meanwhile.
* NPCs live by timers: a chain of `EV_MOVE` events that must go on, end and be
  started again, strikes set a second ahead for a target that may be gone, and a
  revival half a minute ahead.
* Hit points, experience and levels are read and written by every worker
  without a lock, in fields of 16 bits.
* Any unexpected result stops a worker thread for ever.
* TCP cuts the stream anywhere.

`PROJECT.json` lists the single hazards at their lines, with the properties
that catch them, or why none does yet.

### What makes each part correct

* View lists: symmetric, clean for free slots, no more than what is displayed,
  exact after a move; handlers that overlap may break this, but a later
  handler repairs it.
* Sessions: a connection has a slot and a slot a connection; who leaves is
  saved, who asks is answered, who is gone is freed; an account's row holds
  that account's data.
* NPCs: one chain of timers each; a chain while there is something to do and
  none for ever; a dead one is owed one revival; a strike has a target.
* Combat: no hit points or experience out of nothing, a death rewarded once.
* Reassembly: each packet once, in order, unchanged, and not late; no byte that a
  client may send stops the loop.

## 2. Modules

| module | models | depends on |
|---|---|---|
| `Geometry` | the map, a step, the four distance tests | |
| `Views` | every handler that changes who sees whom, each one atomic step | `Geometry` |
| `ViewRace` | the same handlers as sequences of critical sections, unlocked looks and sends, on several threads | `Geometry`, refines `Views` |
| `NpcLife` | the NPCs: `EV_MOVE`, detection, strikes, deaths, revivals and their timers | extends and refines `Views` |
| `Chains` | wake-up, sleep and the `EV_MOVE` chain of one NPC, in single steps of several workers | |
| `Combat` | hit points, damage, experience, levels, in loads and stores of several workers | |
| `Earlier` | the earlier server: sessions, NPC lists, timer | `Geometry` |
| `Sessions` | slots, connections, accounts, completions and lost workers | |
| `PacketStream` | what reassembly promises (abstract) | |
| `ClientAssembly` | the client's loop, one step per round | refines `PacketStream` |
| `ServerAssembly` | the servers' loop, one step per round | |

`*Props` hold the properties, `*MC` the values for TLC, `*Proofs` the theorems.

**Views.** `view_list`, `npc_view_list`, `in_use`, `is_dummy`, `is_die` are the
fields of that name; `pos` and `npc_pos` are `x`, `y`; `screen` and
`npc_screen` are what the client shows after the put and remove packets it was
sent (`ProcessPacket` sets and clears `BOB_ATTR_VISIBLE`); `reviving` counts the
`EV_RESURRECTION` timers of a slot.  Actions are named after the packet or event
they handle.  Hit points are abstracted: any hit may kill.  An `EV_ATTACK` that
kills several NPCs is several `KillNpc` steps.  A stress-test packet or an
`EV_RESURRECTION` may be taken for a slot that was freed: the first registers it
(`Dummy`), the second loses its worker on the first send (`Vanish`).  A handler is
whole: `random_move_NPC` reads and writes a place in one step here and in two in
`ViewRace` and `Combat`.

**ViewRace.** A thread runs a program, a sequence of small operations that
`Start...` composes from the code's loops: `Shows`, `Introductions`,
`Teardown`, `Admission`.  `See`, `Meet`, `Lose`, `Forget`, `Erase` are the five
ways the code changes a list under the lock; each is followed by the send, as a
step of its own.  With `Serial` TRUE a handler starts only when no other runs.
`job`, `alone`, `calm` and `base` only observe.  `late` remembers per slot, not per
receive, that a receive was aborted.  A send to a client that has reset its
connection but was not disconnected yet is not here but in `Sessions`.

**NpcLife.** Extends `Views` by `target_user_id` and `is_sleeping`, the fields of
those names, and by counters of what is pending: `moves`, `strikes` and
`revivals` for the timers `EV_MOVE`, `EV_NPC_ATTACK` and `EV_NPC_RESURRECTION`,
`detects` for the posted `EV_PLAYER_MOVE_DETECT`.  An action is an action of
`Views` with what the same handler does to the NPCs: `LifeMove` wakes and
notifies, `LifeKill` sets the revival.  `EvMove` is `process_event`'s case, split
into its four ways out.  Delays are abstracted: whatever is pending may be next.
`Resurrected` changes one flag, because `monster_ai.lua` does not compile and the
function it calls does not exist.  A timer set with a player's id (`Hit`) is in
`strikes` under that id: slots and NPCs are numbers of one range, as in the code,
where every NPC has the number of a slot.  `strayed` observes which NPCs have
such a strike pending.

**Chains.** `NpcLife` has `wakeup_NPC` and `EV_MOVE` as one step each; here a
worker's `job` says where in them it is.  `wakeup_NPC` is `Test`, `Clear` and `Push`;
`EV_MOVE` is `Take`, one `Look` for each client in the order of the loop, then
`Doze` (`is_sleeping = true`) or `Stroll` and `StrollOn` (the next timer).  `zone`
replaces positions: an NPC stays awake for players at a distance at which they
do not see it.  `listed` is who has the NPC in `npc_view_list`.  `races` and
`excused` observe: how often a worker acted on a test that no longer held, and
whom the NPC may sleep in front of.  Deaths, the stress test and clients that
are not logged in are left to `NpcLife`.

**Combat.** A worker's `job` says where it is in `EV_ATTACK`, `EV_NPC_ATTACK` or the
step of an NPC.  A test and the change it guards are separate steps, `x -= d` a
load and a store; `StepLoad` and `StepStore` are the read and the write of a place
by `random_move_NPC`, between which the NPC may die: it is then back on the map
(`away` is the set of the parked), and no line of `EV_ATTACK` asks whether who is
near is dead.  Fields are kept modulo `WORD` (2^16 in the code), ints wrap at
`MAX_INT`; damage, a double, is kept as a multiple of the smallest fraction the
loop can produce.  Functions that fall off their end (`cal_hp`, the effects for the
DRAGON) return any member of `Register`, a set of integers, negative ones
included.  Players start from any member of `Row`, what a login loads.
`StressTest` writes 9999 hit points.  `crossed`, `garbled`, `overflown`, `credits`
and `balance` observe: whom two workers were busy with at once, who was struck
with an undefined damage, with whom an int overflowed, how often the death of an
NPC was rewarded, and what a player should have.

**Earlier.** Handlers are one step, in the style of `Sessions`.  Variables are
those of `SOCKETINFO` and `NPCINFO`; `open`, `gone`, `recvs`, `packet`, `ends`,
`aborts` are the connection and its completions; `fresh` and `late` are the timer
events that are not due and that are overdue, which is all `do_timer`'s test
looks at.  A handler that hangs in a send leaves what it had entered in a list
by then, the NPC of that send included (`CutShort`).  `TakeEof` is the receive of no bytes: `disconnect_client`, which for a
logged in player only queues a save, and then `do_recv` on the same socket.

**Sessions.** A handler is one step here; what is followed is what outlives it:
`recvs`, `packets`, `eofs` and `aborts` are the completions of a slot (`packets`
what one receive brought, handled one by one before the worker receives again;
`aborts` the receives and the sends that failed),
`db_evts` the events in `db_queue`, in the hands of the DB thread or in the
port.  `stats` stands for level and gold: all that matters is whose they
are; `row` is the same for the DB.  The place and the kind are left out, which
`search_user_id` writes before it knows whether it succeeds.  `stuck` counts workers lost in
`error_display` or `while (true)`.  The DB may fail: `save_user_data` may change
nothing, `search_user_id` may return anything (it has no `return` there).

**ClientAssembly, ServerAssembly.** Variables are those of the code; a round of
the loop is `Finish` (a packet is complete) or `Keep` (it is not).  Bytes are
numbers, the first of a packet its length, the second its type.  The servers keep
the length in a signed `char` (`Signed`): `required` may be negative, which passes
the test against `rest` and makes the `memcpy` `Crash`; a length of 0 makes the loop
spin.  `Given` is what `process_packet` reads, the struct of the type, whatever the
length.  `ReceiveFails` of the client is the failed `WSARecv` (`:254`): the loop goes
on with the byte count it finds, and unless that is 0 the client has gone
`astray`, where nothing is said of it.  `whole` and `sizes` only observe.  `Parts` is the
reference the servers' loop is compared with: it takes a stream apart by the
length bytes alone, without a buffer.

## 3. Runs

| run | bounds | shows |
|---|---|---|
| `views` | 2 slots, 1 NPC, 3 cells in a row seen one cell far, 1 revival | `Paired`, `FreeSlotsClean`, `ListedIsVisible`, `DeadNpcUnlisted`, `MoveHeals`, `GhostsOnlyByDeath`, `NpcGhostsOnlyByDeaths` |
| `race_combat` | 2 slots, 1 NPC, 2 cells out of sight of each other, one handler at a time; every handler but the stress-test `CS_CCU_TEST` and the ends of connections | the code's steps add up to the actions of `Views` (refinement) |
| `race_sessions` | the same without NPCs in a corridor of 3 cells; moves, logins, both stress-test packets, every end of a connection | the same for the handlers that reuse slots |
| `race_free` | 2 slots, 2 workers and the accept thread, 2 cells, any interleaving of accepts, logins, moves and disconnects | `LoneMoveHeals`, `LoneDisconnectClears`, `NobodyStalls` |
| `npc_life` | 1 slot, a warlike wandering and a peaceful stationary NPC, 3 cells, 1 strike or message pending of a kind | `ChainBound`, `AwakeMoves`, `RevivalOwed`, `StrikesAimed`, `ParkedForGood`; `FallsAsleep` (liveness) |
| `chains` | 2 players, 2 workers, no further packets after 2 stale tests | `ChainsCounted`, `SleptThrough`, `KeepsStrolling` (liveness) |
| `combat` | 1 player, an NPC and the DRAGON, 2 workers, `WORD` 8, `MAX_INT` 3, levels end at 2^l, `cal_hp` knows 2 levels, `Register` a negative number, 2 rows, 1 revival, 2 rewards for an NPC | `NoWrap`, `RewardedOnce`, `ExpAccounted`, `ExpNotNegative`, `AttackFitsLevel` |
| `earlier` | 1 slot, 1 NPC, 3 cells, 2 workers, 1 completion of a kind, 2 saves | `UnseenOnlyByReuse`, `Standstill` and `SlotFreed` (liveness) |
| `sessions` | 1 slot, 1 account, 1 worker, 2 completions of each kind, 1 or 2 packets in a receive; logins, logouts, moves, attacks and the stress test | `TypeOK`, `Registered`, `SaveOwed`; `LoginAnswered` and `SlotFreed` (liveness) |
| `sessions_row` | 1 slot, 2 accounts, 1 packet in a receive | violated, see findings |
| `client_assembly` | streams of up to 3 packets of 2 to 4 bytes, receives of up to 8 | the client keeps the promise |
| `server_assembly` | streams of up to 3 packets of 2 to 4 bytes, of which 0, lengths and a negative byte are in the middles; bytes of 4 bits; receives of up to 8, cut anywhere | receives that end at packet ends are taken apart (`TakenApart`) and do not stop the server (`ServesWhileWhole`); bytes are mixed only for a length too short for its type (`NoMixture`) |

Why these bounds are enough to be worth something: the lists are about pairs,
so two slots show every asymmetry, and what depends on more is proved; in the
corridor the ends do not see each other and the middle sees both, so a step can
add, keep and drop; one NPC of each state is enough as
handlers treat NPCs one by one; the slots are reused without bound in every
run; three packets of different lengths in receives of up to eight bytes give
fragments, whole packets, several packets, and a fragment on either side.
What TLC shows for two slots of `Views` and `Sessions` is proved for any number
(section 5).  The bound `MaxPending` of `Sessions` is 2: two receives of one
slot outstanding, and one late completion of each kind is enough to hit the
next owner of a slot.  `npc_life` has one NPC for each combination of type and
move that Initialize_NPC gives and that takes a path of its own in `EV_MOVE`; one
slot is enough, as an NPC is after one slot at a time, and what it shows is
proved for any number.  In `chains` two players let one come behind the loop's
back while it looks at the other, and two workers race for one test; after two
such races there may be four chains, and no new case comes of a fifth.  In
`combat` the fields are small for the same reason that the levels are: 2^LEVEL
leaves a `WORD` of 8 at the third level and an int of 3 bits at the second, so
overflow of both widths, the end of `cal_hp`, the undefined effect of the DRAGON
and two workers at one victim all happen; an NPC that is rewarded a second time
shows what a third could.  In `server_assembly` a byte has 4 bits, so that 8 and
more are negative, and every value of the middle bytes that the loop can take
for a length has its case: 0, too short, right, too long, negative.  In
`earlier` one slot is reused for ever, one client after the other, and the
bound on saves lets a second one be queued while the first is under way.

Deadlock checking is off where the system may come to rest: no client sends
anything, a worker is stuck, the stream has ended.

### What overlapping handlers break

The runs state what survives.  What does not, and is therefore not an
invariant of `race_free`: when all threads are idle again,
`Paired` may be violated (two players move at the same time, each acting on
copies), a list and the screen may differ (the packets of two workers are
sent in the other order than the list was changed), and a freed slot may still
be listed and displayed (a login read `in_use` before the disconnect and
inserted after it).  `LoneMoveHeals` and `LoneDisconnectClears` bound the damage.

### Findings

* `OwnRow`: `login_id` changes at `:1334` while a save of the old player is
  under way; the save succeeds (`:2009`) in the wrong row.

What else the models show of the code, stated by properties that hold:

* A killed NPC stays on the screens of everybody but its killer
  (`NpcGhostsOnlyByDeaths` allows just that), although the comment at `:1669`
  speaks of remove packets, and its revival does not bring it back to the map
  (`ParkedForGood`).  That is so for handlers that do not overlap: a step of the
  NPC (`:1196` to `:1214`) that another worker was in the middle of when it died
  puts it back, dead or alive.
* An NPC that a player provokes does not strike back: the timer is set with the
  player's id (`:1662`), and the NPC that has this number strikes, peaceful or
  not; if it is after nobody, line `:1743` looks at `clients[-1]`.  But for such
  strikes, whoever has one pending is warlike and after somebody (`StrikesAimed`).
* Hit points may grow by a blow: when two workers are at one victim at once, or
  when the effect is undefined, as it is for the DRAGON (`NoWrap`).
* An NPC may be rewarded again: when two workers strike at it at once, or when
  one kills it while the other is storing its step, after which it is a corpse
  on the map that anybody may strike (`RewardedOnce`).
* From level 25 on 2^LEVEL * 100 (`:1076`) overflows: the price of a level is then
  whatever the conversion gives, and `ExpAccounted` says no more of that player.
* An NPC may fall asleep in front of a player: one that came near while `EV_MOVE`
  had looked past it (`:1580` to `:1610`) found the NPC awake and woke nobody; or
  one that jumped off with the NPC in its list comes back and finds nothing new
  to wake (`:1441`).  In no other way (`SleptThrough`).
* The servers do not put together a packet that arrives in pieces: `rest = 0;
  prev_size += rest;` (`:419`) loses the length of the first piece, although
  `2019_WT_SERVER/server_main.cpp:1060` says the pieces are added, and the stream
  stays out of step.  From then on any byte may be taken for a length: 0 makes
  the worker spin for ever, 128 and more, which a `char` holds as a negative
  number, crash the server in `memcpy`, and one that is too short for the struct
  of its type lets `process_packet` read what the buffer held before.  In every
  other case it reads bytes that followed each other in the stream (`NoMixture`),
  and as long as receives end where packets end nothing of all this happens
  (`ServesWhileWhole`).
* Every time two workers act on one test of `is_sleeping` the NPC gets one chain
  more, and moves that much faster until a chain ends in sleep
  (`ChainsCounted`).
* On the earlier server an overdue timer event stops every NPC for good
  (`Standstill`): `do_timer` posts what is not due and waits for what is.  The
  NPCs around a new client may be hidden by the list of the slot's previous
  client; else only a worker that is lost in the send about an NPC, to a client
  that has left, makes one unseen (`UnseenOnlyByReuse`).

An account may be logged in on two slots: `search_user_id` compares kinds
(`:803`) and nothing else.  `Sessions` has it, no property forbids it.

## 4. Fairness

`Views` and `ViewRace` state no liveness.  In `Sessions` every kind of completion
is weakly fair per slot: the workers loop over `GetQueuedCompletionStatus`,
which hands completions out in order, and the DB thread polls its queue every
10 ms.  Nothing is assumed of clients, of the accept thread, or of the outcome
of the DB.  The liveness properties hold until a worker is lost: with one
worker gone the others could go on, but all four can be lost in the same way.
In `NpcLife` the `EV_MOVE` and the revival of each NPC are weakly fair: `do_timer`
polls its queue every 10 ms and posts what is due, and every timer set becomes
due.  Strikes and messages need no fairness for what is stated.  In `Earlier`
the completions of a slot are weakly fair as in `Sessions`; so are the ends of
connection that a client that has left goes on producing, for a receive on such
a socket completes at once.  The timer thread and time are not: `Standstill`
follows from safety and from the finite number of events already posted.
In `Chains` a worker that is inside a handler goes on (`WF` of its steps), and some
worker takes the pending `EV_MOVE` again and again (`SF`): whether a worker is
free to take it changes all the time, and the completion port hands out in the
order of posting, so packets may come before it but not for ever.  Players need
do nothing.
In `ClientAssembly` the loop is one thread's own code (`WF` of `Finish \/ Keep`);
arrivals are not fair.  `ServerAssembly` states no liveness.

## 5. Proofs

All theorems hold for every value of the constants under the named assumptions
of the modules (sizes are positive; homes and the hotspot lie in the world; no
cell of the world is in sight of the place where dead NPCs are parked, which
300 x 300 cells and radii of 10 and 13 satisfy; the buffers of the servers have
room for any positive length a `char` holds; the level at which an unsigned short
wraps costs more than an int holds, `WidthAssumption`; the DB holds rows of
players whose hit points and attack are those of their level, `RowAssumption`).

* `ViewsProofs`.  Of `Views`: type correctness, then an inductive invariant made
  of the three facts on player lists (`ListInv`), `ListedIsVisible`,
  `DeadNpcUnlisted` and the place of the dead.  `Paired` needs `FreeSlotsClean`,
  or the disconnect of a dummy would leave a one-sided entry behind;
  `DeadNpcUnlisted` needs that the dead are parked out of sight.  `MoveHeals`,
  `GhostsOnlyByDeath` and `NpcGhostsOnlyByDeaths` are action properties proved
  from the invariant.  Of `NpcLife`: `ImplementsViews`, a step of it is a step of
  `Views` or leaves its variables alone, so the theorems above hold of `NpcLife`
  too.  The invariant `LifeInv` then adds what the timers keep.  `ChainBound`
  alone is not inductive: a step that wakes must find a sleeper, and a dead NPC
  must not be woken, which is the geometry of `DeadUnlisted`; `StrikesAimed`
  rests on `Aimed`, only a death takes a target away, and on `ParkedAsleep`, who
  was killed sleeps for good.  Its exception is exact: an NPC is excepted from
  the moment a player lends it a timer until its last strike is taken.  Assumed:
  no cell is the parking place, residents are neither warlike nor wanderers.
* `ViewRaceProofs`.  First what the loops of the code are as programs: which
  operations a `Start...` composes, and that every one of them is well formed
  (`TypeCorrect`).  Then three invariants about handlers in the middle of their
  program.  `AloneInv`: while the handler of a thread overlaps no other, every
  other thread is idle or stuck.  `DiscInv`, for a disconnect on its own: whoever
  is registered and lists the client is still going to be asked to forget it, and
  all of this comes before the slot is given up (`Departing`, `DiscOrder`).
  `MoveInv`, for a `CS_MOVE` on its own: until the plan everyone in sight is found
  or still to be scanned (`Looking`), after it everything that is wrong in a list
  is still to be put right by an operation in the program (`Redraws`).  Nothing is
  said of the lists a handler starts from: that is what healing means.
  `NobodyIsStuck` rests on `CalmInv`: as long as no socket was closed, whatever is
  registered, listed, remembered in a local set or named by an operation that
  sends has a socket (`Connected`, `Gathered`, `AllReady`).  It has a hypothesis,
  `"death" \notin Handlers`: the blow that kills a player sends to its slot without
  looking at `in_use` (`:1739`), and that the slot is taken is not for the lists to
  say; the run `race_free` has no such blow either.
* `EarlierProofs`.  `TypeOK` bounds the events of an NPC by two, which needs the
  number of its events plus its sleep to be at most two (`Chains`): the boot
  timer and one wake-up.  `UnseenByReuse` is an action property, proved action
  by action; the two lemmas `ShownSeen` and `CutShortSeen` say what a handler that
  ends and one that is lost on a send do to list and screen.  `OverdueForGood`: once an event is overdue, one always is.
* `ChainsProofs`.  The number of chains is the number of timers, of workers that
  hold one, and of sleep, each counted once; every step moves one from one to the
  other, but `Clear` on a stale test, which `races` counts.  `SleptThrough`
  needs two facts: whoever is near among those a worker in the middle of its loop
  has looked past is excused (`Passed`), and so is whoever has the NPC in its list
  without seeing it (`Stale`).
* `CombatProofs`.  The properties say what is so for whom no two workers were busy
  with at once, so the invariant `FightInv` is about each worker's own job and the
  numbers of its victim: `Exclusive` (who shares a victim has crossed it), `Aimed`
  (an NPC that a worker strikes at or moves has not been rewarded yet), `Weighed`
  (the blow about to be stored does not kill, and an undefined one is noted),
  `Scored` (what a worker has loaded and its `max_exp` are still those of its
  player), `Solvent` (experience held and the price of the levels is what was
  earned, also between paying for a level and rising to it), `Armed`, `Whole` (hit
  points are within the level's) and `Spared`: an NPC that was rewarded for is off
  the map.  `Spared` is what makes `RewardedOnce` inductive without a guard on
  `is_die`: a worker that strikes at a rewarded NPC needs it on the map, and only a
  step that was under way when it died, and so a crossing, puts it there.  Every
  lemma is about any `Register`, rows and tables.  A level cannot wrap before an int
  overflows (`WidthAssumption`: 2^31 - 1 against 2^65535 * 100), and with an overflow
  the accounts are closed.  The powers of 2 in `max_exp` are recursive in the
  library; that they are positive, double and grow is proved by counting
  subsets, for 2^n is the number of subsets of n elements.
* `ServerAssemblyProofs`.  `prev_size` is always 0, so what a receive does not
  complete is gone and `required` is the length itself, as a signed byte;
  `NoMixture` then is that the copy ends at a place of the stream and that the
  struct lies within what was copied (`FinishedPacket`).  `PacketsTakenApart`
  compares the loop with the recursive function `Parts`.  That a recursive
  function is what its definition says has to be shown: every round goes at least
  one byte on, so there is no last byte at which it fails (`Greatest`,
  `PartsExist`), and properties of it are proved in the same way (`Downwards`).
  With `PartsJoin`, packets up to a place where one ends are a beginning of the
  packets up to any later one, `InStep` is inductive: the packets handled are those
  before the read position, and what is left of the receive is whole packets,
  each with a length between 2 and 127 that is the size of its struct.
  `ServerServes` follows: such a length is never 0 or negative.
* `SessionsProofs`.  `TypeOK`, `Registered` and `SaveOwed` are inductive together
  with `Named`: a DB event belongs to a slot that has named an account.
* `ClientAssemblyProofs`.  `ReadPacket` implements `PacketStream`: the bytes in
  `packet_buffer` are the beginning of the next packet, less than the whole of
  it, and its length is known as soon as there are any (`BufferInv`).  A
  `Finish` is then a `Handle`, a `Keep` a stutter, a `Receive` an `Arrive`, and a
  failed receive a stutter after which the client is left alone.

The inductive invariants were model-checked before they were proved.  They
contain the type invariants; those of `Views`, `ViewRace`, `Earlier`, `Chains` and
`Combat` are theorems and not runs (`LifeTypeOK` has that of `Views`).

Every invariant the passing runs check is a theorem, and so is every action
property.  Only model-checked are

* liveness under fairness (`LoginAnswered`, both `SlotFreed`, `FallsAsleep`,
  `KeepsStrolling`, `Standstill`, and the liveness part of `Assembles`), which the
  proof system does not handle;
* `KeepsContract`, that the steps of a handler of `ViewRace` run on its own add up
  to its action of `Views`.  It needs, for each of the handlers, how far each list
  and screen has come at each operation; `Departing` and `Redraws` are the halves
  of it that the theorems above rest on.

## 6. Plan, and what is not modelled

The order in which the project was built: `Views` and its proofs, `ViewRace`,
`Sessions` and its proofs, the reassembly, `NpcLife`, `Earlier`, `Combat` and
`Chains`, each with its proofs.  What is left worth doing:

1. The proof of `KeepsContract`, handler by handler.
2. A composition of `Sessions` and `Views`: view lists across the late
   completions of a reused slot.
3. Targets and strikes in the single steps of `Chains`.
4. The players' lists of `Earlier`.

Not modelled, and why:

* Drawing, input, sound; the SQL and Lua libraries beyond their outcomes; chat
  texts and their formatting; `wprintf` traces.
* Combat: gold, and `equip_effect`, for no code sets an item.
* The leaked socket when every slot is taken, and the array element -1 the
  earlier server then uses: there is no state in which to describe them.
* `2019_WT_STRESS`: a load generator that ramps connections up by delays it
  measures; no promise of its own can be stated without a clock, and its
  reassembly is a copy of the servers'.
* `Chess`: an exercise whose one thread answers each key press with the
  positions of all pieces.  Clients share nothing but the counter that numbers
  them, which never goes down: the eleventh connection moves memory past
  `player[]`, for which a model would have no state.
* `2019_WT_DB`, `2019_WT_LUA`: programs that run once and stop.
* `교수님`: the lecturer's samples the servers were started from, not part of the
  system.

Most lines of the repository's C and C++ files are third-party headers and
loaders (`glew.h`, `eglew.h`, `glxew.h`, `wglew.h`, `LoadPng`) and the samples.
The modules cover a small share of all lines, most of `server_main.cpp` of the
final server outside of database and socket boilerplate, and the parts of the
earlier one that differ.
