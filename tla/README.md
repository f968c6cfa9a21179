# scutclient: a verification project

TLA+ models of scutclient, the Windows client that logs a host into the
campus network of SCUT by 802.1X and keeps it there with Dr.com heartbeats over
UDP. The modules are translated from `src/`, checked with TLC, and the main
safety properties are proved with TLAPS for all values of their constants.

Everything is run from this directory:

    tlc -workers 2 -config OpenSession.cfg OpenSession.tla
    tlc -workers 2 -config Campus.cfg Campus.tla
    tlc -workers 2 -config Packets.cfg Packets.tla
    tlc -workers 2 -config ConsoleCtrl.cfg ConsoleCtrl.tla
    tlc -workers 2 -config Adapters.cfg Adapters.tla
    tlc -workers 2 -config Contains.cfg MCContains.tla
    tlc -workers 2 -config NetTime.cfg NetTime.tla
    tlc -workers 2 -config TraceLog.cfg TraceLog.tla
    tlc -workers 2 -config Options.cfg MCOptions.tla
    # these three end in a violation, see Findings
    tlc -workers 2 -config OfflineHook.cfg OpenSession.tla
    tlc -workers 2 -config LateStart.cfg Campus.tla
    tlc -workers 2 -config ConsoleLogin.cfg ConsoleCtrl.tla
    tlapm OpenSessionProofs.tla     # CampusProofs, PacketsProofs, OptionsProofs,
                                    # AdaptersProofs, ContainsProofs, NetTimeProofs,
                                    # TraceLogProofs alike

`PROJECT.json` lists the runs, the line range of the source behind every
definition, the hazards, and for every property a mutant: a plausible bug put in
place of a definition, which makes TLC find that property violated.


## 1. The system

scutclient is one process. `main()` (main.c) parses the options and calls
`Authentication()` (auth.c) until there is no reason to try again.
`Authentication()` opens a packet capture (Npcap) on an adapter, logs off
whatever session the switch still has, opens a UDP socket, sends EAPOL Starts
until the switch answers, and then loops: read a frame, read a datagram, look at
the heartbeat. It leaves by one of six exits, most of which log off again, and its
return value tells `main()` whether to restart, back off, wait for the hour at
which the network opens, or end.

| component | source | state it keeps | operations |
|---|---|---|---|
| session | auth.c 308-850 | `resev`, `times`, `success_8021x`, `isNeedHeartBeat`, `lastHBDone`, `BaseHeartbeatTime`, the send buffers, capture handle, UDP socket; all static, so they outlive one call of `Authentication()` | open capture and socket, log off, log in, handle a frame, handle a datagram, heartbeat and watchdog, close |
| retry loop | main.c 199-275 | `retry_time`, return value, `--net-time`, `timeNotAllowed` (drcom.c 16) | restart, back off, wait, end |
| console control | main.c 43-59 | `exiting` | a thread of its own: log off, then end the process |
| adapters | auth.c 117-306 | `DeviceName`, `selected_adapter`, `local_ipaddr`, `MAC` | list, match, select |
| drcom packets | drcom.c | `crc_md5_info`, `tailinfo`, `drcom_package_id`, `drcom_misc3_flux`, `timeNotAllowed` | build each packet, parse the switch's error text |
| options | main.c 61-197 | the configuration globals of info.c | parse |
| log | tracelog.c | the file, its backup, one static `FILE *` | append a line, rotate |
| helpers, md5 | functions.c, info.c, md5.c | none of interest | hex dumps, digest |
| manager script | scripts/ | the scheduled task | install, run, stop (kill), status |
| openwrt package, build | openwrt/, CMakeLists.txt | none | unused by this fork, build |

How they interact. `main()` calls `Authentication()`, which calls the receiver,
the handlers and the packet builders in one thread; they share the statics above.
`DrcomEAPErrParse` tells `main()` about ErrCode=16 through `timeNotAllowed`. The
console control handler is called by Windows in a second thread and uses the same
capture handle, send buffer and log. The script kills the process from outside
(`taskkill /F`), so no Logoff is sent and the switch keeps the session. The
switch, the Dr.com server and the network are outside the repository.

What is hard:

* **State that outlives a session.** Six exits of `Authentication()` reset the
  statics to different degrees (`goto ERR2` of a failed login resets nothing).
* **Two protocols, one set of flags.** Datagrams are handled in any order, before
  and after EAP success, and change the flags the watchdog goes by.
* **Timers that are off.** The watchdog does not run before EAP success nor between
  MISC_RESPONSE_FOR_ALIVE and MISC_RESPONSE_INFO.
* **Leftovers on the switch.** After a kill the switch still has the session, and its
  end, a FAILURE, reaches the next login.
* **Errors that overtake each other.** A refusal, an overdue heartbeat and a failed
  send in the same pass all write `ret`.
* **Two threads** on one handle, one buffer, one log.

What makes each component correct:

* session: it starts from nothing and leaves nothing, on the host and on the switch;
  an unanswered heartbeat is noticed; it comes back online after disturbances;
* retry loop: it ends only when asked or refused, its backoff is bounded, it waits
  for the right hour and runs the hook it promises;
* console control: the process ends, and a session that was online ends with it; a
  process that has said it is logged off should be, which during a login it need not
  be (Findings);
* adapters: the adapter that was named is the one that is used, in every attempt;
* drcom packets: a keep-alive carries what this session agreed on;
* options: the spellings of an option mean the same, options do not disturb each other;
* log: the latest lines are kept, the file keeps its bound.


## 2. Modules

| module | what it is |
|---|---|
| `Session` | The main thread: `Authentication()`, everything it calls in auth.c, and the retry loop of `main()`. One action per step between two points where the outside can act. No network: a handler takes the frame or datagram as a parameter and puts what it sends on the ports `eapTx`, `udpTx`. |
| `OpenSession` | `Session` in a network that may deliver any frame or datagram, or none, at any moment. Type invariant, safety, action properties. |
| `OpenSessionProofs` | The inductive invariant of `OpenSession`, its theorems, and that it implements `Lifecycle`. |
| `Campus` | `Session` with the peers it was written for: switch, server, FIFO network with losses, a user who kills and restarts the client. Liveness. |
| `CampusProofs` | The safety of `Campus`: invariants over the queues, and three theorems. |
| `Packets` | `Campus`, and the data the keep-alives carry: which parts of `crc_md5_info` and `tailinfo` are of the current login. |
| `PacketsProofs` | That every keep-alive is fresh, which takes the EAP exchange turn by turn and what earlier sessions leave on the way. |
| `Lifecycle` | The abstract specification: what the client promises the two networks, without the flags, counters and program points. Instantiated by `OpenSession`. |
| `ConsoleCtrl` | `Campus`, and the console control thread beside the main thread. |
| `NetTime`, `NetTimeProofs` | The wait for `--net-time`, on a clock with hours, minutes and seconds. |
| `Adapters`, `AdaptersProofs` | Which adapter each attempt uses on a host whose adapters change. |
| `Contains`, `MCContains`, `ContainsProofs` | The substring search behind `--iface`. |
| `TraceLog`, `TraceLogProofs` | The log and its backup, with kills, viewers and several processes. |
| `Options`, `MCOptions`, `OptionsProofs` | The command line as a function of its words. |

`Lifecycle`, `OpenSession` and `Campus` are three views of one `Session`; `ConsoleCtrl` and
`Packets` extend `Campus`. The others stand beside them: `Session` takes the outcome of
`auth_8021x_Init`, the wait for `--net-time` and the command line as choices, which
`Adapters`, `NetTime` and `Options` make precise.

### Session: state and actions

| variable | in the code |
|---|---|
| `pc` | where the main thread is: `auth` (entering `Authentication()`), `offSend`/`offWait` (the loop of `auth_8021x_Logoff`), `prepare` (after it: IP and socket), `start` (`loginToGetServerMAC`), `login` (its wait), `eap`, `udp`, `beat` (the three parts of a pass of the session loop), `main` (back in `main()`), `exited` |
| `site`, `logoffCnt` | which call of `auth_8021x_Logoff` runs; `LogoffCnt` |
| `ret` | `ret` of `Authentication()` and then of `main()`: `ok` 0, `restart` 1, `error` -1, `eproto`, `unreach` |
| `times`, `resev`, `success`, `needHB`, `hbDone` | `times`, `resev`, `success_8021x`, `isNeedHeartBeat`, `lastHBDone` |
| `since` | `time(NULL) - BaseHeartbeatTime` |
| `handle`, `sock` | `auth_8021x_handle` is open, `auth_udp_sock` is open |
| `eapBuf` | the frame that is in `send_8021x_data` |
| `timeNotAllowed`, `retryTime` | the same; `retry_time` |
| `client`, `netTime` | the command line: `--logoff` or not, `--net-time` or not |
| `eapTx`, `udpTx` | ports: what the last step sent |
| `starts`, `heard`, `forcedOff` | history, read by properties only |

| actions | in the code |
|---|---|
| `OpenCapture`, `OpenSocket` | `auth_8021x_Init`; `getIfIP` and `auth_UDP_Init`, with their failures |
| `LogoffSend`, `LogoffWait`, `LogoffDone` | the two turns of `auth_8021x_Logoff`, and where its caller goes on: `client == LOGOFF`, `prepare`, or ERR1 |
| `StartLogin`, `LoginFrame`, `LoginTimeout`, `LoginUnreachable` | `loginToGetServerMAC` and the `goto ERR2` after it |
| `LoopFrame`, `LoopQuiet`, `LoopEnds` | the top of the session loop: `auth_8021x_Receiver`, `auth_8021x_Handler`, `while (resev)` and the reset of the statics |
| `Reply`, `LogOnly`, `Refusal`, `Failure`, `Granted` | the branches of `auth_8021x_Handler`; `Refusal` includes `DrcomEAPErrParse` |
| `LoopDatagram` | `auth_UDP_Receiver`, `Drcom_UDP_Handler` and the answer |
| `BeatOverdue`, `BeatFails`, `BeatSent`, `NoBeat` | the `if (success_8021x && isNeedHeartBeat)` block |
| `MainRestart`, `MainBackoff`, `MainWait`, `MainExit` | the branches of the retry loop |

Abstractions. A frame or a datagram is a name for what the handlers tell apart,
and `EapOut`, `UdpOut` name what the builders of drcom.c build; layout and payload
are left out. Time exists only where the code measures it: as the age `since` in the
session loop, which saturates above the larger threshold. One pass of the loop
crosses at most `PollSecs` second boundaries: the capture waits 100 ms, and the
longer sleeps of a pass are followed by `BaseHeartbeatTime = time(NULL)` or by the
end of the loop. A `pcap_sendpacket` that fails is a frame that is lost (its return
value is never looked at). The uninitialised `errcode` is a choice in
`ToldOffHours`. How long a sleep takes, and the wall clock being set, are not
modelled.

### Campus: the peers

The switch goes through `closed`, `identity`, `challenge`, `open`; it repeats a
request that went unanswered, closes an open port (with a FAILURE) at most
`MaxDrops` times, and begins a night of ErrCode=16 at most `MaxNights` times. The
server answers a host whose port is open. The network is FIFO; it loses at most
`MaxLosses` messages out of `Losable`. It is prompt: a wait of the client runs out
only if nothing is under way, and the clock moves only then. `Kill` is Stop-Client of the manager
script, `Restart` its Run-Task or the user. These are external: they are read off what the
handlers in auth.c expect. The host is healthy here, so opening and sending succeed;
`OpenSession` has the failures.

### Lifecycle: the abstract client

Eight phases (`idle`, `clearing`, `ready`, `joining`, `online`, `leaving`, `parting`,
`over`), the last word said to the switch, and whether a keep-alive is awaited. A client
that keeps to it logs off before it begins and after it was in a session, responds only to a
session it began, and talks to the server only while online, one keep-alive at a
time. `OpenSession` maps `pc`, `site`, `success` and `resev` to the phase (`Phase`), `eapBuf` to the word
(`Word`), `udpTx` to what the server hears (`Udp`). Most steps of `Session` are stutters of it.

### ConsoleCtrl: two threads

The main thread is that of `Campus`, except that building a frame and sending it are two steps
(`MainActs`, `MainSends`, with `held` between them). The control thread goes through
`test`, `build`, `check`, `send`, `wait` and `leave` (`ctl`), which are the lines of `auth_8021x_Logoff`,
`auth_8021x_Sender` and `wait_8021x_packet` between which the other thread can act:
it tests the handle and then uses it, builds into the buffer the main thread sends from, and takes
frames the main thread waits for. A second event ends the process at once. A tick of
half a second is the unit of the waits; the main thread may take longer than its waits (`busy` is a
least time, `Occupied`), the control thread does not. Using a capture that was closed
is undefined: the process may end (`CtlCrash`), or nothing is sent. `wasOnline`, `spoke` and `saidOff` are
history: when the event came, whether the main thread has said anything since, and whether the control thread
has logged "Logged off."

### NetTime: the clock

`hour`, `min`, `sec` are the fields of `localtime()`. `Refused` computes `wait_seconds` as the code
does; the hook then takes up to `HookMax` seconds before the Sleep begins, any number, as `system()` has no
bound. The switch is closed from `Closes` to `Opens`, by the same clock as the host's, and open at the time
the user gave.

### Adapters and Contains: the network adapter

`listed`, `usable` and `address` are what the host has and change at any moment; `deviceName`, `selected`
and `localIp` are the statics. `load_adapters` overflows up to three times. What the names of the
adapters contain is a set (`Contained`), so any outcome of the comparison is covered;
`Contains` is the comparison itself, an action per turn of the inner loop.

### TraceLog: the files

A file is the sequence of the numbers of its lines. The steps of `LogWrite` between which another process
or a kill can come are actions: open for the size, compare, remove, rename, open, flush,
close. On Windows a rename fails while anybody has the file open, or if the
backup exists; removing the backup fails while anybody has it open. The code looks at neither result.

### Options: functions

A word is an option in one of five spellings (`--name`, `--name=v`, `-n`, `-n=v`, `-nv`) or plain
text; a text that begins with a dash is told apart from the others, as `-D` does not take it for its level.
`Parse` is one round of the loop of `parse_arguments`, `Rounds` a recursive function over the rounds,
`Outcome` what `main()` makes of it.


## 3. Runs

The runs of the session use the constants of the source: 3 waits, 12 s delay, 2 s timeout, backoff
while at most 256; `PollSecs` is 1. `console_ctrl` shortens the delay to 4 s.

| run | shows |
|---|---|
| `open_session` | What the client promises whatever the network does: 705 132 states, depth 265. The state space is complete: every counter is bounded by the code itself (`times`, `retry_time`) or saturates (`since`). |
| `offline_hook` | Violated: see Findings. |
| `campus` | Two drops, two nights, two kills and the loss of one message, of any kind but five (see Bounds): a client that counts as online is, it gives up only when told, it returns by itself or ends with its port closed. 217 000 states. |
| `packets` | `BeatsAreFresh` and `HangsOnlyUntimed`, with any two messages lost, two drops and two kills. |
| `late_start` | Violated: see Findings. |
| `console_ctrl` | A console event at any moment, and a second one: the process ends and begins nothing anew, and two Logoffs make up for one that is lost. 689 000 states, one drop, one lost Logoff. |
| `console_login` | Violated: see Findings. One event, no message lost. |
| `adapters` | Three adapters of which two match, two addresses, a list that may overflow its buffer: every attempt uses the adapter of the first. |
| `contains_case` | All pairs of texts of up to four octets. |
| `net_time` | `--net-time 6:10`, a refusal at every second of the day, closed from 23:45 to 6:00, a hook of up to 3 s. |
| `trace_log` | One process, limit of 3 lines, 14 lines, kills and viewers anywhere. |
| `options` | All command lines of up to 4 words out of 15. |

**Properties of `OpenSession`.** `IdleMeansLoggedOff` (whenever the capture is closed,
Logoff was the last word), `LogoffBeforeStart`, `EndsInMain` (the exit inside
the FAILURE branch is dead), `NoLeftovers`, `OverdueIsNoticed` (the watchdog sees
every unanswered heartbeat, in time), `UnreachableIsEarned`, `StartsAlternate`,
`UdpOnlyOnline`, `OneBeatAtATime`, and `KeepsPromise`, that it implements `Lifecycle`.

**Properties of `Campus`.** `OnlineIsTrue` relates the client's flag to the switch's
port; `LeavesPortClosed` and `EndsOnlyWhenTold` say how it ends; `StaysAlive` says that
it is online in the end; `HangsOnlyUntimed` names the two places where a lost message
can hang it: waiting for the end of the EAP exchange, and for MISC_RESPONSE_INFO.

**Property of `Packets`.** `BeatsAreFresh`: the heartbeat is held back until the checksum, the digest and
the tail are all of this login. Taking away the `isNeedHeartBeat = 0` of
MISC_RESPONSE_FOR_ALIVE, which looks like the cause of one of the two hangs above,
breaks it. In a network that delivers old datagrams to the next session it would not hold.

**Properties of `ConsoleCtrl`.** `NoTimeToReturn`: an event during an online session ends it for good,
because the FAILURE that answers the control thread's Logoff sends the main thread to sleep for
longer than the process lives. It depends on the waits: without them the main thread logs in again
in time. And on nothing else going wrong in that second: if a night begins at this moment, with one message lost, the
two frames of the night cut the main thread's two waits short, and it comes to a Start. `ExitFreesPort`: two Logoffs make up for
one that is lost. It speaks of a process that one event ended and whose main thread has said nothing more; what
a main thread that goes on speaking does is the subject of `LoggedOffIsOff`. `EndsOnEvent`: it ends, wherever the main thread hangs.
`LoggedOffIsOff` takes the log at its word and is violated: see Findings.

**Properties of `NetTime`.** `SleepsTillOpening` (the client wakes in the right second, later only by the hook),
`WaitsOnce` (it is not refused again, which a hook that runs until the network closes again would bring about),
`EndsInTheEvening` (it gives up only if refused before midnight), `ComesBack`; `TypeOK`
says among others that what becomes a DWORD is not negative.

**Properties of `Adapters`.** `SameAdapter`, `FoundAgain` (the name kept after the first attempt still matches),
`FollowsAddress` (a new address ends the process only between look-up and bind).

**Properties of `TraceLog`.** `KeepsLatest`: log and backup together hold the latest lines without a
gap, at least as many as fit a log, wherever the process was killed and whichever rename failed.
`LogBounded`: one line over the limit at most, if no rename was refused.

**Properties of `Options`.** `SpellingsAgree`, `OrderIsFree` and `DebugTakesNoOption` (a `-D` without a level does not take
the option behind it for one) compare the outcomes of two command lines.

**Bounds.** In `console_ctrl` the delay only shortens the stretches in which nothing happens, and two events are
all that differ (`exiting`); `console_login` needs one, and no disturbance. Four octets are enough for a match that begins inside a failed one and for
a haystack that ends inside the needle; `ContainsProofs` has no bound. Three adapters give a
match, another match and one that does not. Four words are two options with values in separate
words, or credentials and two more options. In the session, two disturbances of each kind are enough for a disturbance during the
recovery from another. Two losses would be too many for `EndsOnlyWhenTold`, and this says
something about the code: the opening Logoff is sent twice, and if both are lost
after a kill, the FAILURE that ends the old session can be the first frame of the new
login, which ends the client for good. `SUCCESS`, `FAILURE`, MISC_INFO and
MISC_RESPONSE_INFO are not losable in `campus` because no timer of the client
notices their loss, nor is the multicast Start, whose loss after a night is the hang of `late_start`; `packets` has no nights
and loses all of these, and any second message.

**Fairness.** `CampusSpec` assumes weak fairness of the client (its thread never
blocks longer than a timeout), of the switch and the server, and of the repetition of
an unanswered request; of a restart after a kill none. It assumes strong fairness of
the clock moving in a pass of the session loop: a loop that polls a quiet
network again and again takes 100 ms each time, so it does not stay in one second. No
fairness is assumed of kills, drops and losses. `ConsoleSpec` assumes weak fairness of the control
thread and of time only, not of the main thread. `NetTime` and `Contains` are one thread that runs.

**Deadlock** is checked in all runs but `options`, whose command lines end at their bound; a client that has
ended stutters in `Terminated` or `Over`.


## 4. Proofs

`OpenSessionProofs` proves, for every `RecvTimes`, `HbDelay`, `HbTimeout`, `RetryLimit`,
`PollSecs` that satisfy `TimerAssumption` and `RetryAssumption` (naturals, the timeout
below the delay, at least one wait, a positive limit), every invariant and action
property of the run `open_session`:

`TypeCorrect`, `IdleIsLoggedOff`, `EndIsInMain`, `NothingLeftOver`, `OverdueNoticed`,
`UnreachableEarned`, `Alternation`, `LogoffFirst`, `UdpNeedsSuccess`, `BeatsAreAnswered`.

The argument is one inductive invariant, `IInv`:

* `TypeOK`, `NoLeftovers`;
* `Resources`: where the capture and the socket are open. The exits are checked against
  it, and with it "capture closed" becomes a statement about `pc`;
* `TimesWhole`: while the loop runs, `times` is `RecvTimes`, as a FAILURE takes one and
  ends the loop. This is why the exit of the FAILURE branch is dead;
* `Watched`: `OverdueIsNoticed`, and at the top of a pass the age is at most the timeout,
  because the watchdog has just looked. Without that the age could grow pass by pass;
* `BufferAt`: where the send buffer holds a Logoff;
* `LoginCount`: the Starts sent and the waits left add up to `RecvTimes + 1`, and the buffer
  holds the Start whose turn it was;
* `Unreached`: `unreach` stays true of the last login as long as `ret` says so.

`HandlerEffect` states what `auth_8021x_Handler` guarantees its two callers, once, over its
five branches. `StepKeepsIInv` has one case per action. TLC finds `IInv` true, as an
invariant in place of those of `OpenSession.cfg`, before anything is proved.

It also proves `Refinement`, `Spec => KeepsPromise`, from `IInv`: every action of `Session` maps to a
step of `Lifecycle` or to a stutter. `QuietStepRefines` disposes of the actions that change
nothing `Lifecycle` sees; `HandlerMeans` says what the handler's branches mean to it, once, for the login
(`LoginFrameRefines`) and the loop (`LoopFrameRefines`). It needs `IInv` where the phase depends on where a buffer
came from: a Logoff may be said to be over only if it was said.

`ContainsProofs` proves `SubstringsFound` for all texts over all alphabets. The invariant says that no position before
`i` matches, that `j` octets at `i` do, and, for the early return, that a haystack too short at
`i` is too short at every later position.

`NetTimeProofs` proves the four invariants of `net_time` for every `--net-time`, opening, closing and hook duration
that `ClockAssumption` admits (open at `--net-time`, closing later that day, at midnight at the latest; a hook of any
length). `OneRefusalPerNight` has the hypothesis `HookInTime`: a hook that returns before the network closes, counted from
`--net-time`; without it `WaitsOnce` is false. The inductive invariant `IInv` fixes the second at which a waiting client will
wake, as long as that is today; `RefusedOnce` adds that a client which tries again after a refusal does so in the open
hours. `WaitReachesTarget` is the arithmetic:
comparing minutes and subtracting seconds agree, because a second is less than a minute.

`TraceLogProofs` proves `OneLineOver` and `LatestKept` for one process, any limit and any number of lines. The inductive
invariant says for each file which lines it ends with, and that a process about to remove the backup has a log of more
than `MaxLines` lines, whether or not the removal then succeeds; that this stays so between the look and the removal is what a
second process breaks.

`AdaptersProofs` proves the three properties of `adapters` for any number of adapters and addresses, any list and any
text of `--iface`. The inductive invariant says that `DeviceName` names the selected adapter (`NameKept`), so that the
first entry that fits is that adapter wherever it stands in the list, and that between look-up and bind the address
taken along is the adapter's unless it has moved (`AddressKnown`).

`OptionsProofs` proves two properties of `options` for any set of words that `WordAssumption` admits and any length of the command line:
`AlwaysOrderIsFree` and `AlwaysSpellingsAgree`. `Rounds` is a recursive function over the rounds of
the loop; `Unrolled` shows that it is well defined, `AfterRounds` what holds after each round, both by induction with
`UpTo` (induction over numbers stated for sets, so that it needs no operator as a parameter; `CampusProofs` has it, too). The theorems compare the runs of the parser over two command lines. Up to the changed place they are the same
(`SamePrefix`); across it, either the two values are assigned in either order (`TakesCommute`), or a value and its
word are taken in one step instead of two (`AlikeTaken`); behind it the two parsers stand at the same word with the same
settings and go on alike (`SameRest`, over `Alike`).

`CampusProofs` proves the three invariants of `Campus`, for any number of drops, nights and kills, any `Losable`, and all
the constants `OpenSessionProofs` admits:

* `OnlineOnlyWhenOpen`: `OnlineIsTrue`, if `Losable` has no FAILURE. With a lost one it is false: the client then learns of the
  end of its session only from the unanswered heartbeat.
* `EndsLoggedOff`: `LeavesPortClosed`, if `MaxLosses` is at most one, which is what the second Logoff is for.
* `GivesUpOnlyWhenTold`: `EndsOnlyWhenTold`, if `MaxLosses` is at most one. With two it is false, see Bounds.

The client in `Campus` takes only steps of `OpenSession`, and a restart makes a state its `Init` admits, so `IInv` holds of a client
that was not killed; this and the types are `Base`. The rest is about what is on the way, and the queues are described by
counting, not by listing their contents:

* `Load` is the number of frames that the messages to the switch can bring about: two for a Start, one for a
  response. `Budget`: these, the frames on the way to the client, the FAILURE the switch owes for its port and the waits
  the client has behind it are three at most, and one more at night. A Start is sent only after two waits, each of which took a
  frame or found the network quiet, so that there is room for it.
* `Backing`: behind every SUCCESS on the way, and a client that is online, the port is open or a FAILURE follows. Only a
  Start heard while the port is open breaks this, and `Budget` excludes it.
* `SaidOff`: of a client that is leaving, each Logoff it has sent has closed the port, is on the way behind all else, or is the
  one that was lost.
* `Untold`: as long as no notification was sent, the budget is two frames (`NarrowBudget`), so that a Start finds
  nothing of an earlier session (`StartFirst`), a login hears nothing but requests (`AtLogin`), and no frame on
  the way ends a session for good (`Unrefused`).

TLC found each of these true, as an invariant of `Campus`, before it was proved.

`PacketsProofs` proves `AlwaysFresh`, `PacketsSpec => []BeatsAreFresh`, with no condition on the bounds or on what
may be lost: a loss delays a keep-alive but never makes it carry anything old. The danger is a message
of an earlier session, a frame or a datagram, that this login takes for an answer of its own. The
inductive invariant `Fresh` has `Base` and `Budget` of `CampusProofs`, and

* `Scarce`: by day, what the earlier session left on the way is Logoffs, FAILUREs and at most one message more
  (`Single`), and the waits of the opening Logoffs still to come take that one too (`Ordered`), so that the
  first Start goes into empty queues but for these. `Spared`: by night the waits take every SUCCESS;
* `Flow`: from the first Start on, the two queues and the port are in one of six turns of the exchange (`InTurn`), and the
  only SUCCESS is that of `Granting`, sent for the digest of this login. `Clear`: online, nothing is on the way that
  could be answered or that would begin the exchange again;
* `Stale`: as long as a datagram of an earlier session is on the way, the frames ahead do not suffice for a login,
  because no wait can run out and each Logoff has taken a frame. Hence none is left when EAP succeeds. This is where the
  network being prompt is used;
* `Data`: online, every datagram on the way was preceded by the parts its handling presupposes (`Needs`), and a
  heartbeat that is due has all three.

The proofs see a step of the client by what it does to the wires: `ClientTurn` shows that each of its actions is one
of nine moves (`Begins` to `Idles`), `ClientCarries` the same for the datagrams, and `PacketsCases` that every step of `Packets` is
one of these, a step of the peers, or a kill or restart. The rest is about the moves. TLC found the conjuncts of `Fresh` true
before they were proved.

Only model-checked: liveness (`StaysAlive`, `HangsOnlyUntimed`, `EndsOnEvent`, `ComesBack`, `Ends`), which is beyond
TLAPS; `DebugTakesNoOption`, whose two command lines differ by a word without a value, a case the lemmas of
`OptionsProofs` do not have; `NoTimeToReturn` and `ExitFreesPort` of `ConsoleCtrl`. No theorem for all constants
can state these two, for beyond the bounds of their run both are false. `console_ctrl` loses Logoffs only and has no
nights, so that the watchdog never ends a session of its own accord. If a datagram is lost instead, it may
do so while the control thread is between building and sending; each thread then may hand the driver a buffer
that the other is writing, the switch understands neither, and `ExitFreesPort` fails. And `NoTimeToReturn` fails if a night begins at that
moment (one loss, `MaxNights` 1), see above. TLC finds both within seconds.


## 5. Findings

* **The offline hook is not run when one is forced offline before midnight**
  (run `offline_hook`). The usage text (main.c:22) says "Command to execute when you
  are forced offline at night." The hook is called only if `--net-time` is still to come on
  the same day (main.c:258). At 23:30 with `--net-time 6:10` the client ends
  without it.
* **A login can wait forever after one lost Start** (run `late_start`). `resev` is not reset by the
  `goto ERR2` of a login that was refused by its first frame. After the wait for
  `--net-time` the next login skips its retry loop (auth.c:588), sends one Start and enters the
  session loop, where no timer runs before EAP success. Neither of the two outcomes its log
  messages name (auth.c:590, 601) occurs.
* **"Logged off." and not off** (run `console_login`). The control thread logs "Logged off." (auth.c:433) when a FAILURE
  answers its Logoff, and then ends the process (main.c:52, 55). The main thread goes on meanwhile. If the event comes during a login
  and the main thread's wait (auth.c:589) runs out in that second, its next Start and its login are through before `ExitProcess`, and
  the process leaves an open port. No message need be lost: the control thread may take the main thread's request.

Three remarks no run carries. The two threads share `send_8021x_data` and nothing is locked: between the control thread's building of a
Logoff (auth.c:427) and its sending (auth.c:429) the main thread may build a Start, which is then sent in its place, after the log has
said "Sending logoff packet." `--iface` (main.c:14) takes the first adapter that contains its text in a name or the
description (auth.c:222-230, 248), even if another has the text for its whole name, and keeps it. Two processes
that find the log too big together lose it: the second removes the backup the first has just made (tracelog.c:67-72);
with two `Writers` TLC finds `KeepsLatest` violated that way.


## 6. Not modelled

* `md5.c`: third-party, a function of its input. `functions.c`: hex dumps and the layout of the digest's input.
* The layout of packets, and `drcom_package_id` and the flux copied by HEART_BEAT_03, which only the
  server reads.
* Two threads on the one static `FILE *` of the log: between the two `fclose` of one stream everything is
  undefined, so no property could hold of it. The overlap lasts from a console event to the end of the process.
* Jumps of the wall clock. Set back, the clock delays the heartbeat and its watchdog by as much; set forward, it
  ends a session whose answer is on the way. No bound in seconds holds across a jump.
* A host whose clock is ahead of the switch's: it wakes while the switch still refuses, finds its time
  past, and ends.
* The manager script but for stopping and running the task: each of its other actions is one call of `schtasks`. The
  openwrt files and the build: not part of this program.

What could be added: a switch that
rejects every login, against which the restart without backoff (main.c:245) is a tight cycle.
