# A TLA+ development of urmet-ha

This directory models the programs of this repository: a gateway that puts an
Urmet IP doorphone behind HTTP and WebRTC, the Home Assistant integration that
talks to it, and the card a browser shows. The models are TLA+ modules; TLC
checks them on small instances and TLAPS proves what matters most for every
instance.

Paths are relative to `src/`. `GW` stands for
`addon/urmet-gateway/urmet_gateway`, `CC` for `custom_components/urmet`, `CARD`
for `card/src`.

| read this | for |
|---|---|
| section 1 | the parts of the system, their state, and what makes them hard |
| section 2 | which module models what, and how it corresponds to the code |
| section 3 | the runs: what each one checks, its bounds, its fairness |
| section 4 | where the code and what is written about it disagree |
| section 5 | what is proved, from which assumptions, along which argument |
| section 6 | what is only model-checked, and what is not modelled |
| section 7 | the plan |

## 1. The system

```
 panel, cloud            gateway process                       Home Assistant       browser
 ------------   -----------------------------------   -----------------------   --------
 urmet_sdk  <-> SdkWorker (one thread, FIFO)
    |               ^  run()/await
    | callbacks     |
    +-- hop ----> event loop: DoorphoneService, CallBook,
                  MediaSessions, RegistrationSupervisor
                    |  publish                HTTP
                    v                     <---------------  commands, buttons  <-- card
                  EventBus --> one WebSocket handler
                               per subscriber  ---------->  GatewayClient
                                                            -> UrmetCoordinator --> entities,
                                                                                    card
 RTP  <-------- taps (audio sink, recorder) --> MediaSession --- WebRTC leg -------> card
```

Every blocking SDK call runs on one worker thread, in the order it was
submitted. Every SDK callback hops onto the event loop through
`call_soon_threadsafe`. Everything else is coroutines of one loop, so what can
interleave is: the coroutines at their awaits, the worker, the SIP stack with
the panel behind it, the network, and the browsers.

| part | code | state | operations | what is hard | what makes it correct |
|---|---|---|---|---|---|
| Call book | `GW/usecases/calls.py` | dialogs listed, their state and side; the ids that rang | `record`, `mark_incoming`, `find`, `forget`, `streaming`, `clear` | reports, commands and rings write the same entry in any order | an ended dialog leaves and never returns; a live one stays |
| Doorphone service | `GW/usecases/service.py` | INVITEs in flight, the microphone state | `place_call`, `answer`, `hangup`, `open`, `set_mic_muted`, the two callbacks | a coroutine suspended on the SDK while callbacks move its dialog | a look never costs a visitor his call; every request is answered |
| SDK worker, bridge, taps, holder | `GW/sip/worker.py`, `bridge.py`, `tap.py`, `holder.py` | job queue, busy count, current client | `run`, `aclose`, the hops | a cancelled await leaves its native call running | one call at a time, in order, on the client that was current |
| Registration | `GW/sip/supervision.py`, `publisher.py`, `runtime.py` | the client, the backoff, the outcome published | the loop's register, refresh, release, retry; `stop`; the ordered shutdown | refusals, drops, a shutdown between any two steps | one SIP stack at a time; a lost binding is fought for; a shutdown leaves nothing up |
| Media sessions | `GW/usecases/sessions.py`, `media_factory.py` | the legs, one grace per orphan | `answer`, `close_session`, `close_for_call`, `call_ended`, the reap, `aclose` | a leg is closed by five different actors at once | no tap outlives its leg; a monitor nobody watches ends |
| Media session | `GW/media/session.py`, `session_video.py` | peer connection, taps, bridge, pipeline | `answer`, `aclose`, the arm | an offer and a close of one leg, each suspended | an offer undoes what it did; every teardown ends |
| Video pipeline | `GW/media/pipeline.py`, `encoder.py`, `watchdog.py`, `picture_wait.py` | the pipe, its readers, the process, the demux thread, the generation | `start`, `arm`, the stall, `kill`, `stop` | a process, three threads and three tasks that each may end it | the recorder is never left in a write; nothing is closed under its reader; the end is the end |
| Video track | `GW/media/track.py` | a bounded packet queue | `submit`, `recv`, `stop` | overflow, the end through a full queue | order and freshness; the reader ends |
| Audio path | `GW/media/audio/bridge.py`, `tracks.py`, `g711.py`, `measure.py` | two frame queues, a waiter flag | `on_frame`, `next_frame`, `next_downlink`, `push_uplink`, `close` | a native thread wakes the loop without a lock | no wake-up is lost, no loss uncounted; order and freshness |
| Event bus and stream | `GW/usecases/events.py`, `state.py`, `GW/http/ws.py` | subscribers, one bounded queue each | `subscribe`, `publish`, `close`, one handler per connection | slow readers, an end that must fit a full queue, a snapshot behind queued events | no gap within a connection; whoever is dropped is told |
| REST surface | `GW/http/rest.py`, `errors.py`, `models.py`, `app.py` | none | one handler per operation | which class of error becomes which status | a status stands for what the panel did |
| Integration client, coordinator | `CC/client.py`, `coordinator.py` | connected, backoff, last state | connect, dispatch, reconnect, one request with a timeout | reconnects while the gateway still serves the old connection; a request given up that goes on | what is shown comes to be the last state |
| Integration commands, services | `CC/commands.py`, `services.py`, `websocket_api.py`, `__init__.py` | the pending open, the loaded entries | `open`, `answer`, `hang_up`, `look`, `set_microphone`, the offer; setup, unload | a target resolved from a view that is late | the wrong door never moves; nothing is claimed that was not got |
| Integration entities, repairs | `CC/event.py`, `sensor.py`, `repairs.py`, ... | counters, refused offers, issues | one event per open, the restore | a request and the event it causes travel apart; a reload in between | an open is credited to who asked, a request to one open; a counter is unbroken |
| Card controller | `CARD/controller.ts`, `link/webrtc.ts`, `state.ts` | what the card is doing, its link, its pending call | `answer`, `look`, `hangUp`, `toggleTalk`, `react` | awaits nobody cancels resume after what they were for has gone | one peer connection; one offer per press; a leg that ends is closed at the gateway |
| The rest | `GW/diag`, `dashboard`, `tools`, `CC/config_flow.py`, ... | | | | not modelled, see section 6 |

`PROJECT.json` lists every component with what is modelled of it, and every
hazard with the properties that would catch it.

## 2. The modules

| module | models | extends / composes |
|---|---|---|
| `CallBook` | the book: entries, sides, the ids that rang | |
| `DoorphoneService` | the facade, the worker and the callbacks | extends `CallBook` |
| `Registration` | the supervise loop, the worker, the holder, the microphone, the shutdown | |
| `MediaSessions` | the legs, their taps, their picture, the hangup that waits for them | extends `Queues` |
| `MediaLine` | abstract: what a media path promises | |
| `AudioBridge` | one call's voice, across the media clock thread and the loop | implements `MediaLine`, twice |
| `VideoDownlink` | one call's picture, from the recorder to the browser | extends `Queues`, implements `MediaLine` |
| `Queues` | a queue, and what is left of it when the jobs at some places are cancelled | |
| `EventFeed` | abstract: what a connection to the event stream promises | |
| `EventStream` | the bus, its handlers, the integration's client and coordinator | implements `EventFeed` |
| `Commands` | a command from Home Assistant to a panel and back | |
| `Integration` | opens and their origin, counters, repair issues, reloads | |
| `CardController` | the card's gestures, link and microphone | |
| `DoorphoneProof`, `RegistrationProof`, `SessionsProof`, `EventStreamProof`, `AudioBridgeProof`, `VideoDownlinkProof`, `CommandsProof` | the theorems about each | extends the module |
| `HomeAssistantProof` | the theorems about the entry and about the card | extends `Integration` and `CardController` |
| `MC*` | each of them for TLC | |

The style is the same everywhere. An action is what one actor does from one
await to the next: a coroutine up to its next `await`, a job of the worker, a
callback, a move of the far end. `Submit`/`Submits` is `SdkWorker.run` up to its
await; `Returned` actions are the continuations. A guard is the condition or
the early return of the code at that point. Names are the code's where there is
one. A definition whose name begins with `Faulty` stands for a plausible bug of
the definition it precedes, and is used by no specification.

**DoorphoneService.** `dialog` is what the SIP stack has, `inbox` the reports it
made and the loop has not run, `calls`/`rang` the book, `request` the coroutine
of each HTTP request, `queue` the worker's jobs, `inviting` the service's
counter. A request is a record: the operation, the SDK command it awaits, where
it is (`closing` a leg, `native`, `dialled`, `streamed`, `returned`) and the
snapshot of monitors `place_call` has left to hang up. A dialog's own reports
arrive in order and end with the terminal one. `Prompt` says whether the reports
the SDK made before a command returned run before that command's continuation;
they do when the SDK reports from the thread that returns, and the theorems hold
either way.

**Registration.** `stack`, `bound` and `mic` are what the SDK and the registrar
have, per client; `supervisor` is the await at which the loop stands; `queue`
and `returned` are the worker and its continuations; `shutdown` is where
`GatewayRuntime.shutdown` is. `Cancel` is what cancelling an await does: a
queued job is skipped, a running one goes on with nobody waiting for it. A
client that nothing refers to is used again as the next one to be built, so two
client values stand for any number of rebuilds. The backoff ladder is "a delay
ends at any moment the worker is free".

**MediaSessions.** A leg is the offer that makes it (`offer`), its `aclose()`
(`close`), its `PictureWait` (`wait`) and its `VideoDownlink` (`pipe`). The taps
belong to the native side: `audio` and `video` say whose sink and whose pipe is
in. `sessions` is the dict in its order, because `_for_call` returns the first.
`awaited` says who awaits the `aclose()` in progress, if anyone does: everyone
else who calls it returns at once. `SleepsEnd` states the one assumption about
time: a sleep of half a second or more does not end before the continuations the
worker has already handed back have run. A `close` that has its answer from the worker is
`unwatching` until the watchdog has ended (`pipeline.py:200`): the pipeline still has its
generation, and an arm that is read then finds nothing stale (`Arrived`, `slipped`).

**EventStream.** An event is its rank in the order of publication, so a gap is
visible as a number that is skipped. `subscription` is the `Subscription` of
each connection, `handler` where `EventsApi.subscribe` is, `wire` what is
written and not yet read, `link`, `shown` and `available` the integration. `given`
is a history variable: what the client was given on each connection. The state a
snapshot reads is the rank of the last publication, because everything a page
draws changes on the loop with a publication; the registration flag and the
media counters, which change on other threads, are published later and left out.
aiohttp is external: a send waits while the write buffer is over its limit
(`Room`), and a shutdown stops accepting, ends the handlers and runs the cleanup
hook last.

**AudioBridge.** A frame is its rank. The media clock thread (`clock`) and the
loop share two deques and a flag without a lock, so `on_frame` and
`next_downlink` are taken apart at every read and write of them: the drop is
counted, the frame appended, the flag looked at, lowered, the wake-up posted; the
reader pops, clears the event, raises the flag, looks once more and sleeps. Code
that runs on the loop is not interrupted by other code of the loop: `AtAwait` says
where the reader may be when something else runs. `leg` is how far
`MediaSession.aclose()` has come.

**VideoDownlink.** `recorder` writes into a named pipe, under a lock that every
native call needs: `Readers` says who has the read end, and a write goes on,
stays, or is turned away with it. `encoder`, `stdout` and `demux` are the process,
its output and the thread that reads it; `standby` the read end this process keeps
until the first header. `run` is `VideoDownlink._run`, which the watchdog (`dog`),
the wait (`wait`) and the end of the session (`close`) each may take; `stop` is
`EncoderRun.stop()` with who runs it. `posted` is what `submit` and `stop` put on
the loop, `packets` the track's queue. Who takes the run awaits the
watchdog first, and the run is there, of its old generation, meanwhile; `wait` is `arrived`
where an arm was taken for good. A session starts its pipeline once: the generation guard
of a second start is `MediaSessions`' business.

**Commands.** A request is what is asked, of which panel and which dialog, decided
from `shown`, which follows `dialog` late. `served` is the status the gateway has
for it (the table of `errors.py` over the class hierarchy of `domain/errors.py`),
`told` what whoever asked was told. A timeout tells an error and leaves the
request to the gateway. `acted` and `meant` are history: what the panel did, and
which panels and dialogs the command could have been for when it was given. A target has
an entry, devices and `places`, which stand for the entities, areas, floors and labels that
every schema accepts (`services.py:160-163`) and `Named` does not look at, because
`_targeted_entry_id` does not; `Read` is false of a target that names a place and nothing
else.

**Integration.** `sent` is what was sent on the event stream of the entry, in order
and lost with its connection, as `EventStream` shows. The specification is that of one
config entry, hence `EntryInit`, `EntryNext`, `EntrySpec`. `stash` is `runtime_data.pending_open`;
`due`, `credited`, `counted` and `refused` are history. `bound` is the gateway's registration
and `known` what the monitor was last told of it; `Late` says when the two may differ. A reload goes
through `stage`: the client starts before the entities listen, as `__init__.py` does it.

**CardController.** `linkState`, `pending`, `link`, `connecting`, `sessionId` and
`talking` are the controller's fields. A link has a number; `at` is where its
`connect()` stands, and goes on after `closed`. `toggle` is each `toggleTalk()` in
progress, with the link it captured. `held` is the track the link has, `live` the
streams acquired for it and not stopped.

## 3. The runs

All of them run with the `.cfg` named in `PROJECT.json`.

| run | instance | what it shows |
|---|---|---|
| `doorphone` | one visitor, one dialog of ours, two requests of any kind | no ended dialog returns to the book; none that is up leaves it; a look never hangs a visitor up; the counter of INVITEs is exact; every request is answered; a dialog that streams comes to be listed as streaming |
| `registration` | two clients, two commands | one stack at a time; no command caught by a rebuild; the microphone shown is the one heard; a finished shutdown leaves nothing up; a lost binding is fought for |
| `media_sessions` | one monitor, two offers | no tap left but that of an arm that slipped; nobody awaits what will not come; every teardown ends; a monitor its last leg has left gets another or is hung up |
| `audio_bridge` | backlog of two, four frames from the panel, three from the browser | no wake-up lost; no loss uncounted; both directions a `MediaLine`; the voice moves |
| `video_downlink` | queue of two, three packets | the recorder freed; the encoder's output closed under nobody; a `MediaLine`; a session that ends leaves nothing behind but the tap of an arm that slipped, and is gone for good |
| `event_stream` | two connections, room for two events, one lost connection, four events | every connection is an `EventFeed`; the sentinel is where its reader will meet it; what is shown comes to be the last state |
| `commands` | two panels, a visitor and a monitor at one of them, two requests, six targets over devices of one panel, of both and of none, and the area of the other; requests symmetric | only what was meant moves, of a target that is read; nobody is told of what was not done |
| `integration` | two opens of Home Assistant and one from elsewhere, two events on their way, three refusals; opens symmetric | an open that no other crossed is credited to who asked, no two opens to one request; an unbroken counter; a row of refusals met while registered, or before the monitor could know better |
| `card` | a visitor, a monitor, one press besides the card's own, one press of the talk button at a time | one peer connection; an offer per press; a leg closed is closed at the gateway |
| `mic_realign`, `mic_left_on`, `wrong_door` | one command; two presses of the talk button; the instance of `commands` | see section 4 |

**Why the bounds are enough.** A race here is between two things that touch one
dialog, one leg, one client, one queue or one connection.

- `doorphone`: one request that is suspended and one that overtakes it; the dialog
  that is being made, or is there, and a visitor's that can be taken for it. Two
  dialogs of ours cross in nothing but the book, which looks at one entry at a time; a
  third request adds only a longer wait in the worker's queue. The safety properties are
  proved for any number of both.
- `registration`: a client in use and the one that replaces it; the client before
  that one is down and nothing refers to it (`Unused`).
- `media_sessions`: `MaxOffers` bounds the offers ever made. Two give a leg, the
  one that replaces it or comes after it, and every way one can be closed while
  the other opens. One call: legs of two calls share only the worker's queue.
- `audio_bridge`, `video_downlink`: `MaxFrames`, `MaxPushes` and `MaxPackets`
  bound what is produced, past what the queue holds, so that it overflows with
  its reader at every point. The theorems hold for every backlog and depth.
- `event_stream`: `MaxEvents` bounds what is published and `MaxLosses` the lost
  connections. With room for two events and no frame in advance (`Capacity`,
  `Room`), three events after the snapshot overflow a reader, with one left to be
  published after the drop. Two connections: the one that is read, and one whose
  handler has not noticed yet.
- `commands`: each dialog is born and ends once. One visitor, so the refusal of an
  `answer` among several ringing calls is not met here; `OnlyWhatWasMeant` is
  proved for any number of them.
- `integration`: `MaxWire` bounds the events on their way, `MaxTurns` the changes
  of the registration, `MaxRefused` the row, which is as long as the threshold.
- `card`: `MaxGestures` is one press of Décrocher or Regarder, besides the one the
  card makes of itself in the mode "always": two links, of which one is late. A
  gesture that waits and a link that is being closed need no third.

Eight runs do not check for deadlock, because there everything may have been done:
`event_stream`, `audio_bridge` and `video_downlink`, whose events, frames and packets
are bounded, and the bounded worlds of `commands`, `wrong_door`, `integration`, `card`
and `mic_left_on`. The others do.

**Fairness.** Weak fairness everywhere, and only of what the code's scheduling
gives:

- the worker: every SDK call has a timeout of its own, so a job ends, one way or
  another;
- the loop: asyncio runs the callbacks and continuations it holds;
- a sleep, a grace, a negotiation, a join with a timeout and a process that is
  killed come to an end;
- the media clock thread finishes the callback it is in, and a write that can go
  on goes on;
- the event stream: a handler that can go on goes on, the client reads what it
  was sent and tries again.

In `media_sessions` the worker and the loop are fair together, and so are the ends of what
a leg awaits elsewhere and those of a call: that asks for less than fairness of each, and
is enough where each has but so much to do.

Nobody has to ask for anything: no request, offer, hangup, ring, frame, packet,
publication or shutdown is fair, and no failure either: an encoder may hang and
never die. `KeepsTrying` assumes that users leave the worker free from some moment
on, because the code defers a rebuild for as long as a command is in progress;
`CatchesUp` assumes a gateway that serves; `LegsSettle` follows from the bound on
offers, as "once the browsers stop offering" would. `Commands`, `Integration` and
`CardController` state no liveness: a command waits for a person, a panel or a
browser, and none of them owes anything.

## 4. Where the code and its text disagree

Three runs are expected to be violated: each checks one sentence of a comment, and
TLC finds the behaviour of the code that contradicts it.

| run | sentence | what happens |
|---|---|---|
| `mic_realign` | `supervision.py:175`: "can never open the panel's near end behind the owner's back" | `realign()` reads the state while a mute is queued ahead of it, and overwrites that mute |
| `mic_left_on` | `webrtc.ts:112`: "Called on every exit path [...] every track is stopped here" | a microphone granted after the link was closed belongs to a link that is closed already, and stays on |
| `wrong_door` | `services.py:7`: "Every action resolves which doorphone it is aimed at from the call's own target", and 64: it raises "when the named target is not a loaded Urmet entry" | a target that names an entity, an area, a floor or a label passes the schema and is not read: with one panel loaded of two, an open that names the other opens this one |

The models also have behaviours that other sentences do not allow. They are left
in the models, no property contradicts them, and no run is spent on them:

- `calls.py:41`, "a dialog never changes sides afterwards": the side is guessed
  again on every report, and the next report of our own call, once `place_call`
  has returned, is taken for incoming.
- `service.py:123`, "Hanging the older up keeps one": two looks in progress at once
  both find no monitor.
- `runtime.py:47`: what the hook after a connect raised is raised again by
  `stop()`, before the release.
- `sessions.py:109`, "wait until its taps are released": a leg that somebody else is
  closing is not waited for; `sessions.py:6`: a second leg on a call, added while the
  first was being closed, does not end with the dialog.
- `pipeline.py:110-113`, "closing anything a race left armed on a dead pipe"
  (`RaceIsClosed` in `VideoDownlink`): `_stop_run` awaits the end of the watchdog before it
  clears the run and moves the generation (`pipeline.py:197-203`). The offer's pipeline
  may start behind a DELETE whose `close_video` is queued on a slow worker; its first arm
  is queued behind that, and its answer may be read while the close awaits the watchdog. It
  is not stale then, it is told a picture arrived, and its tap stays on a pipe about to be
  killed. `NoTapLeft`, `NothingLeftBehind` and `TeardownEnds` leave this one arm out
  (`slipped`, `Slipped`), and say that there is no other. The next session of the call is
  refused a tap until something closes this one.
- `session_video.py:135`, "Stop asking": a wait that the offer begins behind `aclose()` is
  not stopped; it asks every second for as long as the process lives, and is refused.
- `repairs.py:10`, "three consecutive 503 while registered" (`TrapWhileRegistered` in
  `Integration`): what counts is the registration the monitor was told of. When it is lost
  with the news on its way, or with the stream down, three refused offers raise the issue
  all the same. `TrapIsARow` bounds this: every refusal that counts was met while
  registered, or before the monitor could know better. A 503 met while it knows of no
  registration is neither counted nor breaks the row.
- `services.py:9`, "With more than one and no target named, the action refuses": panels
  that are set up are the loaded ones (`services.py:67`), so an action without a target
  goes to the one panel that is up while the other is being reloaded. `Meant` takes this
  for what was meant.
- `commands.py:12`, "label the gateway ``open`` event it receives back": an open that is
  refused leaves its origin, and the next open, which may come from elsewhere, is put down
  to who asked for the refused one (`event.py:120-124`). `AloneIsCredited` is about the
  event of the open that left the origin.
- `controller.ts:195`, "binds the offer to the fresh call": a look waits for no call in
  particular until the gateway has told its id, and takes any that streams; one whose call
  never appears among those shown waits for ever.
- `entity.py:42`, "Available while the gateway is reachable": a client that never
  connected has no disconnection to tell.
- Two opens that overlap share one `pending_open`: the second overwrites what the first
  left, and the second event finds none. `AloneIsCredited` is about opens that no other
  crossed; of the others, `OriginTakenOnce` says that no two are put down to the same
  request, which is all that one stash can keep.

## 5. What is proved

Each proof module holds for every value of the constants that the assumption of its
component allows: `ServiceAssumption`, `RegistrationAssumption`, `SessionsAssumption`,
`StreamAssumption`, `BridgeAssumption`, `DownlinkAssumption`, `CommandsAssumption`,
`IntegrationAssumption`, `CardAssumption`. TLC evaluates them on every run. Every
invariant and every safety property that a passing run checks is a theorem.

| module | theorem | says |
|---|---|---|
| `DoorphoneProof` | `Inductive`, `TypeCorrect` | `Spec => []IInv`, `TypeOK` |
| | `CounterIsExact` | `InvitingInFlight`: the counter is the number of INVITEs in flight |
| | `NoEntryReturns` | `NoResurrection`: once the last report has run, the dialog is not listed |
| | `VisitorStays` | `VisitorKept`: a look hangs up no visitor who is still there |
| | `EntriesLeaveLate` | `LeavesOnlyWhenOver`, an action property |
| `EventStreamProof` | `Inductive`, `Types` | `Spec => []IInv`, `TypeOK` |
| | `SentinelReached` | `EndAwaitsReader`: a handler that awaits a closed queue finds the sentinel in it |
| | `ShownNotOlder` | `NeverOlderThanLink` |
| | `ImplementsFeed` | `IsFeed`: the stream implements `EventFeed`, step by step |
| `AudioBridgeProof` | `Inductive`, `Types` | `Spec => []IInv`, `TypeOK` |
| | `WakeUpKept` | `NoLostWakeUp` |
| | `Counted` | `LossesAreCounted` |
| | `Refines` | `AreMediaLines`: both directions implement `MediaLine` |
| `VideoDownlinkProof` | `Inductive`, `TypeCorrect` | `Spec => []IInv`, `TypeOK` |
| | `StdoutSafe` | `NotClosedUnderReader` |
| | `OwedInductive`, `NothingLeft` | `Spec => []Owed`, `NothingLeftBehind`: once a session has ended, no pipe, child or live track of it is left, and no tap but that of an arm that slipped |
| | `Refines` | `IsMediaLine`: the picture implements `MediaLine` |
| `SessionsProof` | `Inductive`, `TypeCorrect` | `Spec => []IInv`, `TypeOK` |
| | `NothingLeftArmed` | `NoTapLeft`: a call with no leg and nothing under way has no tap but that of an arm that slipped |
| | `NobodyStranded` | `NoneStranded`: whoever awaits a job, a teardown or a hangup has it under way |
| `RegistrationProof` | `Inductive`, `Types` | `Spec => []IInv`, `TypeOK` |
| | `OneAtATime`, `NoneCaught` | `OneStack`, `CommandMeetsNoRebuild` |
| | `Heard`, `Released` | `MicIsWhatIsShown`, `NothingLeftUp` |
| `CommandsProof` | `Inductive`, `Types` | `Spec => []IInv`, `TypeOK` |
| | `MeantOnly`, `ClaimsHold` | `OnlyWhatWasMeant`, `NeverOverclaims` |
| `HomeAssistantProof` | `EntryInductive`, `EntryTypes` | `EntrySpec => []EntryInv`, `EntryTypeOK` |
| | `Unbroken`, `RowFirst` | `CounterUnbroken`, `TrapIsARow` |
| | `Credited`, `TakenOnce` | `AloneIsCredited`, `OriginTakenOnce` |
| | `Inductive`, `CardTypes` | `Spec => []IInv`, `TypeOK` of the card |
| | `OneLink`, `GestureFirst`, `LegClosed` | `OnePeer`, `OfferPerGesture`, `SessionClosed` |

Hardly any of these properties is inductive. The invariant that is, and why it is
needed:

**DoorphoneProof.** That an ended dialog is not listed depends on where its reports
stand: `DialogOf` says that the terminal report is the last, that nothing is left to
come for a dialog that is not listed and over, and follows a visitor's dialog through
the two orders in which its ring and its first state can arrive. That a look hangs up
no visitor depends on the snapshot `place_call` took: `RequestOf` says that a
visitor's dialog in it streams until it is over, hence has already been found to be
incoming, and that a hangup that did not raise has ended its dialog. `IInv` is these
two, for every dialog and every request, with the types and the counter. The proof has
one lemma per action; `Onward` (no step takes a dialog backwards or hides one that is
up) keeps what the action did not touch.

**RegistrationProof.** None of the four invariants can be shown without knowing what is
on the worker. `JobsOf` says it: whoever waits, waits for one job, queued or ended
(`Once`); each job is on the client the holder points at and is what its owner awaits
where it stands, or is what a cancel left (`Placed`, `Due`). The rebuild keeps it because
it happens only while no command is in progress. From it, `StackOf` follows the client
that is up through a release: once the answer to the stop is on its way, nothing on the
worker can start that client again. `ReleaseOf` does the same for the shutdown, whose
stop is behind whatever the loop had started. `MicOf` says that the state that is owned
will be what the panel hears once the answers on their way have been read in their
order (`Tells`), which is why it must be set after the SDK has obeyed and not before.

**SessionsProof.** That no tap is left says nothing of where one is taken out, and five
actors may be closing a leg. `AudioOwed` and `VideoOwed` say who still owes it: the leg
whose tap it is has not come to that await of its `aclose()` yet, or has the job that
takes the tap out on the worker, or an arm that succeeded is on its way back to a
pipeline that has gone and will take its own tap out, or it has slipped: it came back while
the teardown awaited the watchdog, and nobody owes its tap. Each of these is lost if a job can
be overtaken, so the rest of `IInv` is about one line: what the worker has handed back
and nobody has read, then what it has still to do. `LineOf` says that a task has one
place in it, with the job its await is for; `ClosingOf` that the close of a leg is behind
the attach of its offer, ahead of an arm that was asked for after it, and behind one that
its own cancel left running: `Kept` takes the arm of a wait off the queue unless it runs,
and a job that runs is ahead of what is submitted after it. `BookOf` and `AwaitedOf` say
that a leg is listed until its teardown has ended, and that one offer at most waits for
it. The proof first shows what an append, a read and a cancel do to such a line (`Adds`,
`Reads`, `Drops_`), then that a step of one leg keeps what is said of the others (`Stays`,
`Elsewhere`, `OneLeg`), and then takes the actions one by one (`Steps`).

`NoneStranded` is the part of `LegsSettle` that is about one state: no await is for what is
not coming. It is inductive once `IInv` is known, and needs of the line only its tags,
whose job or result it is (`Tag`, `UnderWay`), which the end of a job keeps. `Waits` says it
of legs, tags and hangups as values; `WaitsKept` shows that a step keeps it when it accounts
for the legs that move, the tags it takes off the line, and whoever awaited the teardown it
ends (`Moving`); and `LegGoesOn` is that for a step of one leg. `AwaitedOf` is needed where a
teardown goes back to an offer: that offer is another leg's, and still waits.

**EventStreamProof.** That each connection is a feed says nothing of queues and wires,
so `IInv` says where an event may be between its publication and the client. `WireOf`
numbers the frames on the link's wire after the last event given: the snapshot first,
then one rank after the other, the close at the end. `JoinOf` says that the queue goes
on where the wire ends, up to the last event unless it was closed: this is what makes
the snapshot and the events one sequence, and it holds because the handler joins the
bus before it reads the snapshot. `QueueOf` bounds the queue, and keeps the sentinel
last. The first section of the proof is about one subscription (`Closed`, `Offered`),
the second lifts it to a turn of the loop; `OneHandler` then reduces a step of one
connection to that connection. The refinement needs `IInv` only for `Reads`, the one
step that moves the feed by what was on the wire.

**AudioBridgeProof.** `LineOf`, used for each direction, says that the deque holds the
last frames produced, in order, and that what is neither there nor handed over has been
counted, with the frame about to be pushed out between the count and the append. Lemmas
about `LineOf` alone (what a count, an append and a pop do to it) are then used by every
action of either thread. `SignalOf` is the handshake: a reader past the raise of the
flag finds it raised or is owed what lowered it, and only with that is a sleep over a
frame impossible.

**VideoDownlinkProof.** `OwnedOf` says a run is taken once and stopped by who took it,
so that what `_join_pump()` found is still true when the child is reaped. `PostedOf`
says that every packet stamped is posted or enqueued, in order, among the sentinels:
without it the packet that enters the queue need not be the next one. `RoomOf` says
that the demux thread stamps the packet it looked for room for, and is what types
`stamped`. `Held` says a packet is at most as many packets old as there are places behind it, and is what
`MediaLine` asks when the reader takes it.

`NothingLeftBehind` is the part of `TeardownEnds` that is about one state, and needs a second
invariant, `Owed`, which is in the proof's module. `RunOf` follows the run, with its watchdog, to the child that
is reaped. The tap is the hard part, because a wait that is cancelled leaves an arm that
runs, and an offer may start its pipeline after the session has begun to close. `WaitOf`
says that the wait has one thing on the worker at a time, and that a tap that is open in the
meantime is one its answer tells of; `CloseOf` that the close of the session is behind
every arm it cancelled, and that an arm asked for since is answered after it, to a run that
is gone; `TapOf` that whoever takes the run leaves an arm that will be undone, a
worker that closes the tap behind every arm (`Settling`), or one that slipped. `Dropped` is
what a cancel does to the queue, `Behind` and `AfterFirst` what an append and a read do to it.

**CommandsProof.** `NotAhead` (what is shown is late, never early) gives that a name
taken from a view was a dialog, and dialogs do not come back; `AimOf`, `StatusOf` and
`ToldOf` follow one request from its target to its status and to what is told; of the
panel, `AimOf` speaks only where the target was read. The table
of statuses is discharged by two lemmas about `Status`.

**HomeAssistantProof.** The entry first. `CountedOf` says where the count is: in the sensor while it is
loaded, in the stored state otherwise. `DueOf` says that an open nothing has crossed
still has its origin in the stash, `TakenOf` that no event has had what the stash holds
and that whoever is in it, or was credited, has asked: a request asks once, so what it
leaves can be neither there twice nor taken twice. `ToldOf` says
that the last news of the registration on the stream is so, and that what the monitor
believes is when there is no news; `RowOf`, which rests on it, that the monitor never
counts more than the true row.

Then the card. `Linked` says that the open link is the current one, that one that is up
owns the session, and that numbers not yet used are untouched; `Counted` that a link is
made for a gesture that was waiting. `Microphones` counts the streams of a link: those of
an open link are the track it holds, or none, and there are never more than the presses of
the talk button that are not waiting for the prompt. It bounds `live`, which is the part of
the type that no single action gives; `MicReleased` (section 4) is what it cannot say.

## 6. What is not proved, and what is not modelled

Only model-checked: the liveness properties (`EveryRequestReturns`, `StreamingIsShown`,
`KeepsTrying`, `LegsSettle`, `OrphanReaped`, `CatchesUp`, `VoiceMoves`, `RecorderFreed`,
`TeardownEnds`). They rest on fairness and ENABLED, which are beyond the prover.

`TypeOK` of `DoorphoneService`, `MediaSessions`, `VideoDownlink`, `AudioBridge`, `EventStream` and
`Commands`, and `EntryTypeOK` of `Integration`, are proved, and not listed in a run.

Left out of the modules, on purpose:

- `DoorphoneService`: the microphone (in `Registration`), the browser legs (in
  `MediaSessions`), the content of the events, `clear()` at shutdown.
- `Registration`: the lengths of the backoff, an exception of `build_client`.
- `MediaSessions`: the views, SDK hangups that fail (in `DoorphoneService`), how long a
  grace lasts, and the shutdown's `aclose()`. That one returns at once for a leg somebody
  else is closing, and then cancels the task that closes it (`sessions.py:130-137`), so
  that a tap may still be armed when the stack comes down, which `runtime.py:47` says it
  cannot. The client is stopped right after it, which ends its dialogs and their taps.
- `AudioBridge`: samples, the cut into frames, the pacing of the sender, the level
  statistics.
- `VideoDownlink`: `restart()`, which nothing calls; the log that `EncoderRun.start()`
  has opened and leaves open when the encoder cannot be started (`encoder.py:99`); a child that
  outlives SIGKILL by the timeout of the reap; timestamps, beyond their order; how long a
  budget is. The await of the watchdog takes any number of steps here and in `MediaSessions`, and two turns of the loop in the
  code.
- `EventStream`: the integration's unload, the length of the backoff, the content of a
  state, the close codes.
- `Commands`: the reads, the session routes other than the offer, what the schemas
  take besides the target and the dialog, an entry resolved while it is being set up. What
  the service does behind a route is one step here and several in `DoorphoneService`.
- `Integration`: the doorbell's coalescing, which needs a clock; a crash of Home
  Assistant, after which the counter is what was last stored.
- `CardController`: the open buttons, the ring clock, the editor, the WebRTC `close` of
  a session whose offer is answered after its link was closed, which the code does not
  send.

Not modelled at all: G.711 and level measuring (pure, exhaustively tested in the
repository), settings and packaging, the diagnostics page, the dashboard, the probes,
Home Assistant's configuration flow and forms, and the card's markup.

## 7. What could come next

1. `MediaSessions`: the shutdown's `aclose()`, and what its cancel leaves of a teardown.
2. `Commands` over `DoorphoneService`: the step behind a route replaced by the service's
   own steps.
3. `Integration`: the doorbell, with a clock that ticks.
