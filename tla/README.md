# Verification of Sipana

Sipana captures SIP traffic, groups the captured messages into sessions and
stores the sessions for analysis. An *agent* (`src/sipana-agent`) sniffs
packets, correlates them and sends the sessions over JMS; a *server*
(`src/sipana-server-*`) stores them and computes performance metrics;
`src/sipana-commons` holds the session and message classes both share.

This directory holds TLA+ models of the parts of Sipana with the most
behaviour, the TLC configurations that check them and TLAPS proofs about them.
Every definition is translated from the Java and JavaScript code; `PROJECT.json`
maps each one to the lines it stands for.

    tlc -config MCSIPHandler_Packets.cfg MCSIPHandler  # one of the runs
    tlapm SIPHandlerProofs.tla                         # the proofs of a module

## 1. Inventory

| Component | State it keeps | Operations | Status |
|---|---|---|---|
| `SIPHandler` (agent/sip) | `sessionList`: Call-ID to `SIPSession`; the mutable `SIPSession` objects | `onPacket`, one handler per request method and response class | modelled: `SIPHandler` |
| `JMSSender`, `DelayedSender`, `SenderReconnector` (agent/sender/jms) | sender state, queues of sessions and messages, discard counter, JMS connection, session and producer, references to the two threads, a flag in each | `send(SIPSession)`, `send(SIPMessage)`, `start`, `stop`, `onException`, the two `run` methods | modelled: `JMSSender` |
| Capture sessions (agent/capture) | state IDLE / RUNNING / ERROR, the thread, the captor | `start`, `stop`, `run`, `receivePacket`; the manager's map | modelled: `SipanaAgent` |
| `SipanaAgent`, `ServiceLocator` | references to the above, a status | `run`, `start`, `stop` | modelled: `SipanaAgent` |
| `ConfigManager`, `SipanaProperties` | properties read once | getters with defaults | mode and buffer size as parameters |
| `SIPFactory`, `SIPMessage`... (commons) | none | parsing, `createSession` | what the handler reads |
| `SIPSessionMDB`, `SIPSessionManagerBean`, `SIPMessageManagerBean` | the database, the JMS queue | `onMessage`, `save`, `findByCallID`; `find` | writing side modelled: `SessionStore` |
| Date pickers of the web pages: `calendar.js`, `calendar-setup.js`, `lang/*.js`, `script.js` | input fields, the popup calendar, listeners and timers of the document | `setup`, `create`, mouse, key and timer callbacks, `print`, `parseDate` | modelled except display: `CalendarDate`, `CalendarLang`, `Calendar`, `CalendarPopup` |
| JSF controller, REST services | one user's form | query parameters to `find` | the converter of the date fields (`getAsObject`) |
| `SIPPerformanceMetricsBean` | none | averages, ratios, delays | not modelled: arithmetic without state |
| `SIPScenario` | a picture being drawn | drawing | not modelled: layout |
| `HTTPSender`, `MessageServiceBean`, the HTTP client | none | stubs | not modelled: they do nothing |
| descriptors, pages, scripts, stripped copies of the calendar | none | none | not modelled |

How they interact. The capture thread calls `SIPHandler.onPacket` for each
packet; the handler changes sessions in place and, when one ends, gives the
*reference* to `Sender.send` and forgets it. In delayed mode the sender queues
the reference and a `DelayedSender` thread serialises the object up to a period
later. The JMS provider calls `onException` on a thread of its own; reconnector
threads call `start` again. The message-driven bean stores what arrives; a
standalone message is attached to the stored session of its Call-ID. A search
page sends two texts, written by date pickers, that a converter turns into the
milliseconds of a query.

Behaviour that is hard, and what must hold of it:

* *Message correlation.* Packets are lost, repeated and reordered, dialogs cross
  (200 OK with CANCEL or BYE, re-INVITE), the capture starts in the middle of a
  call. A session must be handed over once, end exactly when it is, stay as it
  is afterwards, and carry time stamps in an order that the metrics can
  subtract; each packet must be filed once.
* *Threads without a lock.* The sender's fields are read and written by five
  kinds of thread, with `AtomicBoolean`s and concurrent queues but no lock.
  Sessions must not be lost, the queue must stay within its bound, discards must
  be counted, and the queue must be drained whenever the sender is RUNNING with
  a working connection.
* *Failure and stop.* The broker fails before, during and after `start`; `stop`
  races with threads that have just been created.
* *Life cycle of the capture.* `stop` races with the opening of the device; the
  state is RUNNING before the device is open.
* *The server's view.* Standalone messages overtake their session; sessions that
  were sent twice are stored twice; a Call-ID with two sessions makes every later
  message of it fail. Nothing given to the sender may vanish without a cause, and
  a message that always fails must not block the queue.
* *Callbacks of a page.* Mouse, key and timer callbacks share global variables
  and outlive the press, or the popup, that they belong to; a date changes on
  four paths, each of which has to update grid, time and field; months, years,
  weeks and days of summer time differ in length. Grid, date and field must agree.

`PROJECT.json` lists these at their lines ("hazards") with the properties that
cover them.

## 2. Modules

### SIPHandler

| TLA+ | Code |
|---|---|
| `sessionList` | `SIPHandler.sessionList`, `null` when the Call-ID is absent |
| `heap` | the `SIPSession` objects, by reference: the sender keeps the reference, so what a handler does to a session it already sent would be visible |
| `sendCalls`, `refused` | calls of `messageSender.send(session)`, and those that threw |
| `standalone`, `ignored` | messages given to `send(message)`; packets that end nowhere |
| `captured`, `now` | packets so far, capture time of the last one |

One packet is one action, because one thread runs `onPacket` to its end; the
action contains everything the handler does, the removal from the list and the
call of the sender included. `processRequest` and `processResponse` choose the
Call-ID, the method or the status code and the time of the packet, and one
operator per handler method says what happens (`processInvite`,
`processFailureResponse`, ...). A message is its number in capture order.
Methods without a handler of their own are one value, `"OTHER"`. A time stamp
of 0 means "not set", as in the code. `unparsablePacket` is the catch block.

Assumed: packets come on one thread, as `CaptureSessionKFujii` delivers them,
with time stamps that do not decrease.

Properties: `LiveSessionsOpen` (the list only holds open sessions of the right
Call-ID, so the branch of `processAck` that waits for the ACK of a failed
session is dead), `SentOnce`, `EndedIffSent`, `StampsOrdered`, `PacketFiledOnce`
and the action properties `HandedOffFrozen` and `LeavesBySendOrReplacement`.
`EstablishedKeepsSetupTime` is what a comment and a guard of the code say, and
does not hold: the guard reads the state after it was overwritten.

### JMSSender

A step is what one thread does between two accesses to a field that another
thread could see, so `start()` is seven actions and the body of the drain loop
three. Each thread has a place:

| TLA+ | Thread |
|---|---|
| `cpc`, `item`, `capturing` | capture thread, inside `send` |
| `spc[Agent]` | agent's thread: `start()` |
| `stopc` | the thread that calls `SipanaAgent.stop`: inside `stop()`, and how it ended |
| `spc[r]`, `rrunning[r]` | `SenderReconnector` r: `run`, then `start()` |
| `dpc[d]`, `drunning[d]`, `ditem[d]` | `DelayedSender` d: place, its flag, the session it peeked |
| `lpc[k]` | the provider's call of `onException` for connection k |

`isDelayed`, `state`, `sessions`, `messages`, `discardedSessions`, `connection`,
`session`, `producer` (these two by the connection they belong to),
`delayedSender` and `reconnector` are the fields; `accepted`, `polled` and
`delivered` record what was given to `send`, what the overflow branch removed
and how many copies of it the broker has.
Sessions and messages are numbered in the order of `send`, which makes a queue
the set of the numbers in it, with the smallest at its head: only the capture
thread adds to the queues.

The JMS provider is external: a connection is unborn, alive, dead or closed; a
send on one that is not alive throws and delivers nothing; when the broker
fails, every open connection dies and its listener is notified some time later.

Notes on the translation. `DelayedSender.isRunning` hides the outer class's
`isRunning`, so the drain loops read the thread's own flag. The loop over
`messages` peeks, sends and removes from `sessions`, as the code does. A field
that is read again after its test is a second step, in which it may be null.

Properties: `BufferBound`, `NothingLost`, `DiscardsCounted`, `RunningCanSend`,
`SilentAfterStop`, `NoDuplicateWithoutFailure` and, under fairness,
`SessionsDelivered`.

`stop()` may begin before, during or after `start()`, since no lock orders the
two. It ends in one of four ways, the values of `StopReturned`: it closed the
connection; it found a sender that does not run, after `start()` had returned
(`"skipped"`) or before (`"tooEarly"`); or `delayedSender` became null between
its test and its use (`"thrown"`). `SilentAfterStop` leaves out two cases, both
of which the code has: a `stop()` that was too early closes nothing, and
`start()` goes on to make the sender RUNNING; and a reconnector that was started
calls `start()` whatever `stop()` did. The second has a run of its own,
`sender_restart`. `NoDuplicateWithoutFailure` is limited to runs without a
failure, because after one two `DelayedSender`s may drain one queue and send a
session twice; the code makes no other promise. `failures` counts how often the
broker went away; that it may be away when `start()` is first called is a
choice of `Init`, and a property about a broker that is always there says
`[]broker`.

Six statements of the repository do not hold:

* `Reconnects` ("seconds between reconnection try"): the reconnector clears its
  flag after one attempt, and nothing retries again;
* `StoredMessagesSent` ("Storing it for delayed sending"): the loop over the
  messages sends sessions;
* `StopFlushes` ("Notify sender to send remaining messages"): with a broker that
  is up from the beginning and a waiting `DelayedSender` that could send, `stop()`
  wakes the thread and clears the flag that its loops test;
* `StopStopsDelayedSender` ("Stop Delayed sender thread if it's running"): a
  `stop()` before the thread's first step is overwritten;
* `StopIsFinal` ("Message Sender stopped"): a reconnector that waits makes a
  stopped sender RUNNING;
* "number of sessions in memory" (`sipana-agent.properties:53`): the test of
  `isBufferOverflowed` is a `>`, so the queue holds up to one session more than
  the configured number. `BufferBound` states the bound the code keeps,
  `BufferSize + 1`; there is no run for the smaller one.

### SipanaAgent

| TLA+ | Code |
|---|---|
| `pc[Agent]` | `SipanaAgent.run`, which calls `start()` |
| `pc[Capture]` | `AbstractCaptureSession.run`, on the thread that `start()` of the session creates |
| `pc[Control]` | a caller of `SipanaAgent.stop()`, who may call it again when it threw |
| `status` | `SipanaAgent.status` |
| `sessionMap` | keys of `CaptureManagerImpl.captureSessionMap`; the agent creates one session |
| `state`, `owner` | `AbstractCaptureSession.state`; the thread in `stop()`, which holds the monitor |
| `captor`, `broken` | the field of `CaptureSessionKFujii`; whether its loop was told to end |
| `sender` | the last call the agent made of its sender (`JMSSender` models what that does) |
| `packets`, `late` | calls of `onPacket`; those made after `stop()` had returned |

A step of `startCapture` or `stopCapture` is one call of jpcap, because these
are not atomic with respect to the other thread: `stopCapture` runs under the
monitor, `startCapture` does not. `getState` and `setState` take the monitor, so
they wait while another thread is inside `stop()`.

jpcap is external: a device or a filter may be refused, `loopPacket` may return
or throw at any time, gives no packet on a captor that was closed or broken, and
returns once it was broken; a second call on a closed captor may throw. With the
three seconds' wait the code hopes that the capture has started or failed:
`checkSession` may find any state. Nothing in the repository calls `stop()`; the
model lets it come at any moment after `start()` has the capture manager.

Properties: `DeviceReleased`, `OneLatePacket`, `ErrorIsFinal` and, under
fairness, `StopEnds` and `CaptureEnds`. `OneLatePacket` is limited to a `stop()`
that found the session: one that comes while the session is being created finds
nothing to stop, and the capture then starts. `DeviceReleased` leaves out the
session in error: a refused filter does leave the device open.

### CallTracking

What the handler promises, without lists, handlers and states: a packet is filed
in the one open session of its Call-ID, passed on or ignored; a session is open,
then reported once or replaced by a newer one, and never changes afterwards. It
is a specification to implement and models no lines of its own.
`SIPHandler!TracksCalls` is `CallTracking!Spec` under the mapping of `SIPHandler`:
a session is `reported` when it was sent, `open` while it is in `sessionList`,
and `replaced` when it was created and is neither. Every packet, including the
ones that fail to parse, is a step of it.

### SessionStore

| TLA+ | Code |
|---|---|
| `sent`, `waiting` | what the agent gave to a running `JMSSender`; its queue `sessions` |
| `queue` | the JMS queue `org.sipana.sip`, with the deliveries of each message |
| `work[m]` | MDB instance m inside `onMessage`: its message and what it has decided |
| `rows` | committed rows: a session and the messages added to it |
| `discarded`, `dead` | messages for which `findByCallID` found nothing; items the container gave up |

`onMessage` reads what is committed when it runs and becomes visible when its
transaction commits, so it is two steps, between which the other instance may
commit. A session is a new row each time, since its id is 0 when the agent
creates it. The container is external: it redelivers at the head of the queue,
gives up after `MaxDeliveries` attempts and moves the message to a dead letter
queue. A system exception marks the transaction although `onMessage` catches it.
The data source is declared local-tx (`sipana-server-ds.xml` in
`sipana-server-ear`), so the database may commit and the broker not learn of it.

Properties: `NothingLost`, `StoredOnceWithoutFailure` (duplicates and items
settled in two ways come from failures alone), `GivenUpIfAmbiguous` (without
failures the container gives up only a message with two sessions to choose from),
`DiscardedOnlyIfOvertaken` (a message sent after its session is discarded only in
delayed mode, with two instances, or if the session was given up) and, under
fairness, `EverySentSettles`. All the agent's sender does before an item enters
the queue, threads, overflow and reconnects included, is in `JMSSender`; here it
is assumed RUNNING.

### CalendarDate, CalendarLang, Calendar, CalendarPopup

The popup calendar of `calendar.js` fills the two date fields of `list.jsp`,
and `MillisConverter` reads them.

* `CalendarDate`: the part of JavaScript's `Date` that the calendar uses
  (external) and the methods it adds: `getMonthDays`, `getWeekNumber`,
  `setFullYear`, `print`, `parseDate`. A date is a day number and a time; a text
  is the sequence of the numbers printed, a format the sequence of its directives.
* `CalendarLang`: of each language file what the code reads: first day of the
  week, weekend, missing entries, default format.
* `Calendar`: the object as a record, and what its methods, `cellClick` and
  `_keyEvent` make of it. Cell p of the grid shows the day `first + p`.
* `CalendarPopup`: a page. The variables are the input fields, `window.calendar`,
  the listeners of the document, the pressed element (`_C`, `activeDiv`), the
  timers and the combo box; an action is one callback. `getAsObject` is the
  server's converter.

Properties: `DisplaysDate`, `YearInRange`, `WeekNumbersISO`, `PrintedDateIsRead`,
`ReleaseEndsPress` and the action properties `ArrowsMoveOneStep`,
`NavigationKeepsDay`, `PickReachesField`, `ElectricFollowsMouse`, `OpensAtField`.

What modelling it brought to light, and where the properties therefore stop:

* the comment of `electric` promises an update for each move, but `_keyEvent`
  calls `cellClick` without an event: keys do not update the field, so
  `ElectricFollowsMouse` is about the mouse;
* in the month combo, the 31st of a month becomes a day of the month after the
  chosen one, unlike with the buttons (`NavigationKeepsDay` is about those);
* `setup` sets the date of a cached calendar before its range, so `OpensAtField`
  holds for pickers that share a range (`OneRangeOfYears`), as those of a run do;
* `setup` empties `cal.multiple` of a cached calendar for a picker of multiple
  dates, and leaves it as it is for every other (`setMultiple`);
* a date is read back only if the format fixes the year in one way and an hour of
  12 comes before its am or pm (`Readable`, `ReadableFormats`): `print` leaves the
  hour 0 of `%k` in the text as `%k`, and `%p` before `%I` changes an hour that is
  not read yet;
* a drag of the time goes on after Esc hid the calendar and changes the field;
  a lost release leaves a drag that follows the mouse until the next release;
* a language file without `DAY_FIRST` or `WEEKEND` makes `create` throw
  (`triggerFails`); many files have no first day of the week, which leaves an
  empty grid unless the page gives one (`firstDay`).

Two simplifications matter only after a lost release: the combo boxes of months
and of years are one variable, so showing one hides the other; and a press
inside the shown calendar on something without a listener, whose release the
calendar would take for that of the element pressed before, is left out.
`getAsObject` is the converter for a date and a time; a date alone, an empty
text and one it refuses are left out.

Left out: flat calendars, `dateStatusFunc` and disabled dates, positions, styles,
tool tips and branches for browsers of that time; in formats, the names of days
and months, seconds and white space (`Word`). One bound is on what a user may
do: a day cell that a key emptied while it was pressed is not released on
(`Emptied`), because its date is then a leftover of an older grid.

## 3. Runs

| Run | Shows | Bounds |
|---|---|---|
| `handler_packets` | one call: every sequence of packets and every status class; two interleaved calls: where each packet is filed, and the refinement `TracksCalls` | one Call-ID: 6 packets, 2 session objects, seven codes, time steps 0 or 1; two Call-IDs: 5 packets, 3 objects, three codes |
| `handler_setup_time` | violation: a failure response in an established call overwrites `setupTime` | 4 packets |
| `sender_safety` | the queue, the discards, who may send when, silence after `stop()` | both modes, buffer size 0, two calls of `send`, a broker that may be away at first and fails once, `stop()` at any moment |
| `sender_liveness` | sessions reach the broker; no duplicates without a failure | delayed mode, buffer size 1, two calls of `send`, one failure |
| `sender_reconnect` | violation: one failed retry is the last | one failure |
| `sender_stored` | violation: stored messages are never sent | one message |
| `sender_flush` | violation: `stop()` ends a waiting `DelayedSender` with a session in the queue | the broker always up, one call of `send` |
| `sender_stop_lost` | violation: a `stop()` before the thread's first step is lost | no failure |
| `sender_restart` | violation: a stopped sender runs again | the broker away at first |
| `agent_life` | the five properties of the agent's life cycle | one session, 3 packets, `stop()` at any time |
| `calendar_pickers` | the eleven properties of the date pickers | six pages, years 2011 to 2014 with a range of 2012 to 2013, `Days`, `Times`, `FirstDays`, one lost release |
| `store` | nothing lost, no duplicate, give-up or discard without its cause; everything settles | two sessions and a message of one Call-ID, a message of another; both modes, one or two instances, two deliveries, two failures |

Why the bounds are enough. A call needs four packets to be set up, established
and ended (INVITE, 200, BYE, 200); six leave room for a repeated, crossed or
stray packet at every point, and for a second session of the same Call-ID. Time
steps of 0 and 1 give equal and different stamps. The status codes are one for
each case the code distinguishes. With a buffer of size 0 two sends already
overflow it while a `DelayedSender` is at any place of its loop. With one broker
failure at most three connections, reconnectors and `DelayedSender`s are
created, and with no stop two `DelayedSender`s and reconnectors: the bounds never block.
`handler_packets` is two captures in one run, told apart by the variable `scope`
of the MC module, whose steps are steps of `SIPHandler!Next`. That of one call
has every code and stamp and a VIEW without the message numbers, which no action
reads; that of two calls keeps them, and is the one that shows `PacketFiledOnce`
and `TracksCalls`. Session objects are symmetric;
no run with a liveness property uses symmetry. In `agent_life` one packet
may be late; a second and a third would show that more can. In `store`,
two sessions of one Call-ID make a later message ambiguous, one message is
overtaken or not, and the message of the other call never finds a session; two
failures suffice to store twice an item that was also sent twice, and to make the
container give up after two deliveries. `calendar_pickers`
takes each picker only to chosen days: ends of months, 29 February, both turns of
the year at the ends of the range, neighbours in a row and a column, days of
winter and summer time; a callback that leads elsewhere is cut off there. The
pages are one picker as in `list.jsp`; two of 12 hours that share a cached
calendar and show the days of other months; a picker of multiple dates with
and without a first day of the week, and in a language whose file is incomplete;
and one of multiple dates that shares a calendar with one of single dates.
Runs stop at their bounds or because the agent stopped, so deadlock is not
checked, except in `calendar_pickers`.

Fairness. In `JMSSender` and `SipanaAgent` (`FairSpec`): weak fairness of each thread that can run: the JVM's
scheduler, timed waits that end, listeners that the provider calls. Nothing is
assumed about the network, the agent's `stop()` or the broker's return, nor that
packets come; `loopPacket` is only assumed to return once it was broken. In
`SessionStore`: the `DelayedSender` wakes up again and again, the container goes
on delivering, and an instance finishes what it began, by a commit or a rollback.
Nothing makes the agent send. The calendar waits for its user; no fairness there.

## 4. Proofs

| Module | Theorem | For |
|---|---|---|
| `SIPHandlerProofs` | `TypeCorrect`, `LiveSessionsAreOpen`, `SessionsSentOnce`, `SessionsEndWhenSent`, `StampsAreOrdered`, `PacketsFiledOnce`, `SentSessionsFrozen`, `SessionsLeaveBySendOrReplacement`, `HandlerTracksCalls` | any set of Call-IDs, objects and codes, any number of packets |
| `JMSSenderProofs` | `TypeCorrect`, `QueueBounded`, `NoSessionLost`, `AllDiscardsCounted` | any buffer size and mode, any number of threads, connections, failures and calls of `send` |
| `JMSSenderDeliveryProofs` | `RunningSenderCanSend`, `NothingSentTwice`, `SilenceAfterStop` | the same |
| `SipanaAgentProofs` | `TypeCorrect`, `DeviceIsReleased`, `AtMostOneLatePacket`, `ErrorsAreFinal` | any number of packets |
| `SessionStoreProofs` | `TypeCorrect`, `NothingIsLost`, `OnlyAmbiguousGivenUp` | any sessions, messages and Call-IDs, any number of instances, deliveries and failures |
| `SessionStoreDeliveryProofs` | `StoredOnce`, `DiscardsAreExplained` | the same |
| `CalendarDateProofs` | `CivilDate`, `CivilOfDayNumber`, `SetFullYear`, `SetDateOnly`, `SetMonthClamped`, `WeekNumber`, `ParseDate`, `PrintedDate` | every integer as a day or a year, every text, any choice of the days of summer time |
| `CalendarPopupProofs` | `PopupInvariant`, `TypeOKAlways`, `YearInRangeAlways`, `DisplaysDateAlways`, `WeekNumbersISOAlways`, `PrintedDateIsReadAlways`, `ReleaseEndsPressAlways`, `ArrowsMoveOneStepAlways`, `NavigationKeepsDayAlways`, `PickReachesFieldAlways`, `ElectricFollowsMouseAlways`, `OpensAtFieldAlways` | any pages, pickers and parameters, ranges of years, texts in the fields, bounds on days and times, any number of lost releases |

*SIPHandler.* No property is inductive alone: that a session is sent once needs
that the list never holds one that was sent, that two Call-IDs never share an
object, and that an object not yet created is nowhere. The inductive invariant
joins these with the types. A handler changes one object, and either keeps it in
the list (`updateSession`) or sends and removes it (`terminateSession`), so the
proofs have one lemma for each of these kinds of step and each handler is shown
to be one of them. The action properties follow from the same invariant.
`StampsAreOrdered` needs that no stamp lies in the future and that the state
says which stamps are set (`AllStamped`); `PacketsFiledOnce` that the packets in
sessions, passed on and ignored are those captured so far (`FilesPacket`).
`HandlerTracksCalls` is the refinement: `OpenIsListed` says that the open session
of a Call-ID under the mapping is the one in the list, and each kind of step maps
to one of `CallTracking` (`NextTracks`).

*JMSSender.* The bound on the queue is invariant although its test and the
addition are separate steps, because between them other threads can only make
the queue smaller: `RoomInv` says that at the addition there is room.
`NothingLost` needs `RemoveInv`, that a `DelayedSender` about to remove a session
holds one that the broker got; two of them may hold the same one, and the
overflow branch may poll it meanwhile. `DiscardInv` says that the counter is
ahead of the poll. All steps but five leave the queues alone (`Quiet`), and one
lemma deals with all of those. What reaches the broker is in
`JMSSenderDeliveryProofs`: `WorkInv` follows `start()` through its assignments;
`SingleInv` says that before the first failure one thread at a time tries to
start and only one `DelayedSender` runs, and `FreshInv` that what is queued was
not sent, but for the session about to be removed. `SilentInv` says that with no
reconnector there is one connection, that of the agent's thread; that a sender
which is not RUNNING any more, or whose `DelayedSender` `onException` took away
from under `stop()`, has lost it; and so that every way for `stop()` to end but
the early one leaves a connection that is closed or dead.

*SipanaAgent.* `StateInv` ties the state of the session to the place of the
capture thread, which alone changes it after `start()`: that makes an error
final. `CaptorInv` says that there is no captor before the device is opened and
that a thread past `close()` left it closed, so the session that `stop()`
removed from the map (`MapInv`) cannot open its device afterwards, and only the
packet being read can be late (`LateInv`).

*SessionStore.* Steps are seen as what they do to the sets of items on their way
and settled; rows only grow (`RowsGrow`), so what was ambiguous stays so, and an
exception that was thrown for a message is thrown again (`Decided`). That nothing
is stored twice needs that an item is at one place at a time (`OnePlace`), which
holds until the first failure only; that messages go to sessions of their own
Call-ID (`CallInv`) holds always. `DiscardsAreExplained` shows that with a single
instance and no `DelayedSender` a session keeps ahead of a later message
(`Ahead`): in front of it wherever it is in the queue, also after a redelivery,
which goes to the head; then with the instance; then stored or given up.

*Dates.* `CivilDate` is the base: `Civil` divides a day into cycles of 400 years,
years from 1 March and months of 153 days in 5, and the date it finds has the
number it started from. With `DayNumberIsInjective`, that two dates with one
number are equal, it follows that constructor and getters are inverse
(`CivilOfDayNumber`), for every integer and with the proleptic leap years. The
methods added to `Date` follow from these two: `SetFullYear` says that
only 29 February moves, `SetDateOnly` that the detour over the first of the month
loses nothing, `WeekNumber` that rounding absorbs the hour of summer time
whichever days have it. `print` and `parseDate` go through the words of a format
one by one. `ReadUpTo` shows that the function they define exists and is a
fold, by the least number of words for which it would not (`LeastOf`,
`Iteration`); a fact about all its values is proved in the same way (`EveryStep`).
`ToldNext` says what a word adds to the date that is read, and
`PrintedDate` that in the end it is the date printed.

*CalendarPopup.* The inductive invariant `PopupInv` is `MouseInv /\ CalendarInv`.
`MouseInv` ties the listeners, the pressed element, the drag, the timers and the
combo boxes to each other; the lists of listeners are kept up to their order, and
a timer that is forgotten may fire at any later time. `CalendarInv` says that
`window.calendar` is `Good`: its date is in the years of its picker, its grid
starts at `firstCell` of the date's month, the selected cell is the date's and
the time parts are its time; that the pressed element is one of the calendar's
elements; and what a combo box shows. None of the properties is inductive alone:
that a click reaches a date needs the grid, that the grid is right needs that
every path that changes the date ends in `_init`, or stays within the month. The
operators of `Calendar` are shown to keep `Good` one by one, and an action
property then compares the date before and after. `NavigationKeepsDay` and
`ArrowsMoveOneStep` use the theorems on dates. TLC checked both parts as
invariants of `calendar_pickers`.

The assumptions are those named in the modules: the constants have their types,
`null` and the agent's thread are not among the identities, sessions and messages
are different things, a set of instances is finite; the years of every picker
have numbered days, today is one of them, and a grid without a first day of the
week is not combined with the days of other months. Two theorems have a
hypothesis on the pickers: `OpensAtFieldAlways` that those of one page have one
range of years, `PrintedDateIsReadAlways` that a format that names day, month and
year can be read back and has hours and minutes, and that years have three digits
or more. Without them the code does not do it; the run evaluates both
(`HypothesesOfTheorems`), and the pickers of Sipana's pages meet them.

Only model-checked: the liveness properties `SessionsDelivered`, `StopEnds`,
`CaptureEnds` and `EverySentSettles`, since liveness under fairness is beyond the
proof system; and the six statements that runs find violated, of which TLC gives a behaviour.
Every other property of a passing run is a theorem. Both proofs and runs take a
write to an unsynchronized reference field to be seen at once by the other
threads.

## 5. Not modelled

* `SIPPerformanceMetricsBean`: functions from a list of sessions to a number,
  without state, which only a unit test calls. That some of them assign where
  they should add (`result =+ x`, `result = +x`) is listed under "hazards".
* `find` and the other queries, the JSF controller, the REST services: they
  build a query from parameters and change nothing.
* `SIPScenario`: drawing. `HTTPSender`, `MessageServiceBean`, `SipanaHttpClient`:
  stubs. Pages, descriptors, SQL and shell scripts, and the stripped copies of
  the calendar, which are generated from the files that are modelled.
* Reading of the configuration file and of the NIST parser's results: their
  outcomes are parameters and choices of the models.
* The NIST parser, jpcap, the JMS provider, the container, the browser's `Date`
  and its events are not in the repository; the modules say what they assume.
