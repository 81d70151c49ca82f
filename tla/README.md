# A TLA+ model of jota-speaker

jota-speaker turns the text of a language model into speech while the text is still being
written. One Python process on one event loop serves three kinds of clients: WebSocket sessions,
HTTP requests in the shape of OpenAI's speech API, and Home Assistant over the Wyoming protocol.
This directory holds specifications of its parts, the TLC runs that check them and the proofs
TLAPS checks. Paths below are relative to the repository root, `src/server/session.py:265` is
line 265 of that file.

    tlc -config SessionFaults.cfg MCSpeakerSession     # any run: <run>.cfg with its MC module
    tlapm SpeakerSessionProofs.tla                     # any module with theorems

## The system

| Component | State | Operations | What is hard |
|---|---|---|---|
| **WebSocket session** `src/server/session.py`, `protocol.py`, `ws_handler.py` | queue of segments, worker task, current chunk id, chunk counter, socket state | authenticate; token, flush, end, interrupt; the worker's synthesis; session timer | two coroutines interleave at every send; cancellation lands at any of them; the peer leaves unnoticed; timer against barge-in |
| **Token accumulator** `src/server/accumulator.py` | text buffer | add, flush | cuts at boundaries and by length, across arbitrary token borders |
| **Kokoro engine** `src/tts/kokoro/engine.py` | inference lock, one-thread executor, model | synthesize, aclose | a timeout gives up on a thread that goes on; cancel, close and finish race |
| **Audio chunking** `src/tts/audio.py` | the previous chunk, per generator | next chunk | seams, short last chunks, interleaved generators |
| **Encoders** `src/openai/encoder.py` | two tasks, an ffmpeg process, three pipes | feed, read, clean up | bounded pipes in a cycle, errors on every side, a client that leaves |
| **OpenAI API** `src/openai/service.py`, `routes.py`, `protocol.py` | one request | validate, authenticate, synthesize, stream or buffer | failures before and after the status is sent |
| **Wyoming server** `src/wyoming/` | connections | describe, synthesize; start, stop | every way a connection can die; shutdown under connections |
| **Lifespan** `src/main.py`, `src/core/` | registry of engines, Wyoming server | start-up, shutdown | what is released, in which order, and what a failed start leaves |
| **Text normalizer** `src/tts/normalizer.py` | none; one call's text and protected parts | normalize | a chain of expressions, each over the result of the one before |
| Auth providers, metrics, mock engine, configuration | – | – | not modelled, see the end |

How they interact. A session, a speech request and a Wyoming connection call `synthesize()` of
the *same* engine object, an async generator that takes the engine's lock; the registry owns the
engines, and only the lifespan closes them. A session puts the accumulator's segments into its
queue; its worker takes them out, has the normalizer put them into words and streams each as a
numbered chunk. A speech request hands the generator to an encoder, which for mp3, opus, aac and
flac runs ffmpeg.

What makes each correct: a session speaks every accepted segment once, in order, and nothing
from before a barge-in after it; its messages form a stream a client can play; it ends. The
accumulator loses no text and cuts where a sentence ends. The normalizer neither loses a number
nor reads one form as another because of its neighbour. The engine never runs two inferences.
The encoder neither reorders nor loses audio nor leaves a process behind. The API tells a
complete response from an incomplete one where HTTP allows it. The lifespan closes no engine
under a connection.

## The modules

| Module | Models | Run | Proofs |
|---|---|---|---|
| `SpeakerSession` | a session: main task, worker tasks, client, socket | `SessionFaults`, `SessionTimerSwallowed`, `SessionDoneOnBargeIn` | `SpeakerSessionProofs`, `SpeakerSessionStream` |
| `ChunkStream` | abstract: what a session promises on the wire | refined in `SessionFaults` | `SpeakerSessionStream` |
| `SpeakerSessionInv` | the inductive invariant of a session, by parts | `SessionFaults` | `SpeakerSessionStream` |
| `KokoroEngine` | the shared engine, its lock and thread | `SessionOnEngine` | `KokoroEngineProofs` |
| `SessionOnEngine` | composition: a session and other callers on one engine | `SessionOnEngine`, `BargeInSwallowed` | `SessionOnEngineProofs` |
| `TokenAccumulator` | the accumulator | `AccumulatorCuts`, `AccumulatorEmptyLine` | `TokenAccumulatorProofs` |
| `SpanishNormalizer` | the normalizer, over tokens | `NormalizerForms` | – |
| `NormalizerForms` | reference: how each form is to be read | `NormalizerForms` | – |
| `FfmpegStream` | one encoded response | `SpeechResponses`, `EncoderLeftPaused` | `SpeechResponsesProofs` |
| `SpeechService` | one HTTP request over an abstract encoder | refined in `SpeechResponses` | `SpeechResponsesProofs` |
| `SpeechResponses` | composition: a request and the encoder behind it | `SpeechResponses` | `SpeechResponsesProofs` |
| `SpeakerApp` | lifespan and Wyoming connections | `AppWyoming` | `SpeakerAppProofs` |
| `AudioChunks` | chunking and cross-fade | `AudioSeams` | `AudioChunksProofs` |

`MC<Module>` is the module TLC is started on. Operators named `<Definition>_<Word>` are
mutations: the definition after them with a plausible bug. Each property of a passing run has
one that violates it, listed in `PROJECT.json`.

### SpeakerSession

An action is what a coroutine does between two points where the event loop may switch. `mpc` is
where the main task stands (`run`, `_authenticate`, `_receive_loop`, `_handle_interrupt`,
`_put`), `wpc[t]` where the t-th worker task stands (`_tts_worker`, `_synthesize_segment`).
A send is two places where the coroutine changes state after it: before the message is written
and, in the states ending in `Sent`, after it but not yet resumed, since a cancel can hit either.
`task.cancel()` sets `wcancel`; `Cancelled` is the `CancelledError` raised at the next
resumption, with the `finally` clauses it passes.

- Text is not modelled as characters. A segment is named by its *epoch*: how many barge-ins had
  happened when its oldest text arrived. This is all that is needed to say that old text is not
  spoken, and how a token is cut is left to `TokenAccumulator`: here a token completes any
  number of segments up to `MaxSegs` and may leave text behind.
- The socket: `ws` is `open`, `closed` (the peer has gone, the server does not know), `failed` (a
  send has raised `WebSocketDisconnect`; Starlette turns further calls into `RuntimeError`) or
  `gone` (the disconnect was read). `Write` and `SendRaises` are the two ways `_send` ends.
- The timer is `wait_for(..., session_timeout)`: it may fire at any suspension of the receive
  loop. Where the loop awaits a cancelled worker, the timer's cancellation is delivered to the
  worker, and the `except CancelledError` around that await swallows it, as in asyncio.
- `epoch`, `owed`, `out`, `open`, `heard` are history: what was accepted and what the client saw.
- An `auth` message in the middle of a session is read and ignored: a stuttering step.
  `_interrupt_lock` is left out because no reachable state reads it set: the one loop that
  sets it is the one that would test it.

### TokenAccumulator

The scan of `_try_extract_one` is translated with its quirk: `enumerate(self._buffer)` goes on
walking the string it started with after the buffer was cut, so `AtBoundary` carries the original
text and the rest separately. The `while` of `_extract_segments` is `pass`, one element per turn,
and stays as it is once a turn has found nothing. Both are compared with `Cuts`, the sentences of a
text: what lies between one boundary and the next. The alphabet has what the code tells apart:
letters, the full stop for every mark, and three kinds of blank, all of which `strip()` drops: the
space, which `rfind(" ")` looks for, the line break, which is a boundary, and `Tab` for those that
are neither (tab, carriage return, no-break space). `MaxText` bounds the text one call works on.

### KokoroEngine

`waiters` and `holder` are the `asyncio.Lock`, which is handed over in order; `works` and
`running` the `ThreadPoolExecutor`; `fut[c]` the future of a call's inference, one for the
executor's and the asyncio future that wraps it. `running` is a set so that the single thread is
a property and not built in. After `aclose()` the attribute `_executor` is `None`: a call that
gets the lock then submits to the loop's default executor and fails on the missing model.
`Hung` calls never return from inference.

### SessionOnEngine

The actions of `SpeakerSession` and of `KokoroEngine`, joined where one calls the other: the worker
speaks chunk `c` through call `c`, a frame is sent only while that call yields, what the call
raises is the session's `EngineFails`, and the `CancelledError` of a barge-in is raised inside the
call if there is one, so that `Cancelled` and the engine's `Cancel` are one step. Calls that are no
number belong to other users. `Calls` also bounds how many chunks are spoken: a worker whose call is
not in it waits (`Speaking`). `SessionAssumption` restates what `SpeakerSession` assumes of the
constants that are passed to it. `SpeakerSession` assumes that the audio of a segment ends;
here this follows from the engine's lock, its thread and its time limit.

`WaitForKeeps` is the version of `asyncio.wait_for`. Up to Python 3.11, a cancellation that arrives
when the awaited future is done, and before the waiting task has resumed, is dropped in favour of
the future's outcome (`CancelDropped`): with its audio the worker goes on, with its exception the
worker reports that and ends. From 3.12 on the cancellation is not dropped.

### SpanishNormalizer

A text is a sequence of tokens: words, runs of digits and single signs. Tokens that stand together
without a space are one word of the text, which makes `\w`, `\b`, `\s*` and the look-arounds of the
code's expressions definable, and lets a pattern match the end of a word. Each `...Span` is one
expression, the operator next to it is what the code replaces a match by, `Sub` is `Pattern.sub`,
and `Normalized` applies them in the order of `normalize()`. `num2words(n)` is the token `Said(n)`.
Six of the eleven abbreviations stand for all of them. Left out: letter case, the letters of a
hexadecimal hash, numbers of more than 15 digits, and the fallback to the original text, which is
reached by an exception only.

`NormalizerForms` lists the forms of the design
(`docs/superpowers/specs/2026-06-29-fase-2-normalizacion-espanol.md`, from line 68) with their
readings, written down without the expressions. Where the code keeps to the design the reading is
the design's; the forms it reads otherwise, or not at all, are `Departures`, with the code's reading
and the design's in a comment beside it.

### FfmpegStream

Each pipe and the asyncio buffer at its end are one bounded queue. ffmpeg is external: it reads,
writes, warns on stderr, may crash, ends at the end of its input, and is blocked by a full pipe.
When it ends its pipes are closed at once (`exited`), and some time later asyncio has reaped it and
`wait()` returns (`dead`); the generator may see the end of stdout in between.
The generator's `finally` is `Cleanup` (the kill) and `Gather` (the wait for both tasks and the
process). A client that leaves while the response waits for ffmpeg cancels it (`LeaveReading`);
one that leaves while a chunk is being sent makes Starlette drop the generators, which the loop
then closes (`LeaveYielding`).

`WaitEOF` is the version of `Process.wait()`: in Python 3.11, which `pyproject.toml` allows and
the CI runs, it returns when the pipes have been read to their end as well; with `FALSE` it
returns when the process has exited.

### SpeechService

One request from FastAPI's validation to the end of the body. `Requests` is everything that decides
its way, chosen at the start: kind of body, token, format, stream flag, whether ffmpeg is there. A
process without a registry, which answers 503, is left out. Of the encoder behind an ffmpeg format
only the promise is here: a prefix of the audio in order, and a clean end even when the engine
fails.

### SpeechResponses

`SpeechService` with `FfmpegStream` in the place of that promise: the encoder starts when the
handler first asks it for a chunk and runs by itself, a chunk it yields is sent or collected by the
handler, and a client that leaves takes it along. `read`, the chunks the handler has read, is the
refinement mapping of the service's `pulled`.

### SpeakerApp

The lifespan's phases, each with its ways to fail, and one handler per Wyoming connection with
the events a client may send, close and reset. Which exceptions the handler catches decides its
`result`: `ConnectionResetError` and a torn event are the client's close; a broken pipe or a line
that is no JSON leaves the handler with the result it had; anything out of a synthesis is an
error and the handler reads on. `AwaitConns` is the version of `Server.wait_closed()`, which
awaits open connections from Python 3.12 on, the version of the Docker image.

### AudioChunks

`crossfade_blend` and `iter_chunks_with_crossfade` over integer samples. An emitted sample is `N`
times its value, so that the weights, multiples of `1/N`, stay integers. The two `raise`s are the
assumption `N <= ChunkSize` and the length test that precedes every call of the blend.

## What is checked

All runs are exhaustive within their bounds.

**SessionFaults** (431,268 states): a queue of two, tokens of up to two segments, two counted
messages, two barge-ins, and all of: the peer leaves, the engine raises, the timer fires. A
queue of two is the smallest in which a segment waits behind another and one token can
overflow it; two barge-ins are the fewest in which one follows another's restart. It shows

- `OneWorker`: two workers never live at once, whatever cancels the old one meanwhile.
- `NoStaleAudio`: no text from before a barge-in is spoken after it.
- `ChunkCountedOnce`: `chunk_finished` is called once per chunk, by the worker or the barge-in.
- `DoneMeansSpoken`: a session that ends without a fault has spoken everything it accepted since
  the last barge-in, and `done` is its last message.
- `StreamProtocol`: the session implements `ChunkStream`. Chunks do not overlap, ids are never
  reused, audio lies between its start and its end, `chunk_aborted` is directly followed by its
  `interrupted`. The specification allows `chunk_aborted(n)` after `audio_end(n)`, since the code does
  this when the interrupt comes while the send of `audio_end` is suspended.
- `InterruptCompletes`: a barge-in always gets past the worker it cancels.
- `SessionEnds`: the session ends, or one of exactly two things happens: the timer fires while a
  barge-in awaits its worker and is swallowed, or `run()` awaits an idle worker because the
  report of the timeout raised. Deadlock is not checked, because a session of the second kind
  is a state without successor; `SessionEnds` takes its place and names the states allowed to
  be stuck.
- `SessionInv`: the inductive invariant behind the theorems about a session.

**AccumulatorCuts** (9,557): tokens of up to four characters, four in all that are not blank, at
most six in the text of one call, and a length limit of three: enough for a blank sentence before
another, two sentences in one token, a sentence over several tokens, a split by length with and
without a space, and a token with as many tabs as the limit in front of a word as long. Nothing is
lost or repeated, no segment is blank, no boundary is left waiting, and cuts are where the
reference cuts when no sentence is blank. `LongBehindBlanks`: a buffer over the limit begins with a
space, or lies directly behind as many blanks as the limit, none a space, that were just cut off.

**SessionOnEngine** (68,270): a session that speaks two chunks and a call of another user on one
engine with a time limit; the inferences of the other and of the second chunk never return; the
engine may raise and the session's timer fire; a queue of one, one counted message and one barge-in.
Two chunks are the fewest in which a barge-in can leave an inference in the thread that the next one
waits for. The peer does not leave: with `"close"` among the `Events` the run has 258,337 states,
takes three minutes and passes as well, and only then can the exception `WorkerOrphaned` of
`SessionOutlastsEngine` occur. It shows

- `OneInference`, `LockFollowsCall`, `NoLateInference`, `ClosedIsQuiet`, `CallEnds`: the engine's
  promises, for calls that are made and cancelled as a session does it. (Without a time limit, which
  is the default, `CallEnds` is false: the hung call keeps the lock.)
- `NoStaleInference`: the thread never begins to infer text that a barge-in has discarded. The
  session takes its segment back, the engine the future, and no step comes between the two.
- `BargeInWaitsForNobody`: a barge-in gets past its worker whoever has the lock and whatever hangs in
  the thread.
- `SessionOutlastsEngine`: the session ends though an inference hangs, its own or another's.

Both liveness properties name one more exception, `CancelLost`: with `WaitForKeeps` a dropped
cancellation lets the worker go on, and the main task awaits it in a barge-in or after a
`queue_full`; if the session's timer is swallowed by the same await nothing ends the session.

**NormalizerForms** (75,304): every two of 24 forms with a space, a comma, a full stop or an
ampersand between them; every text of at most three tokens over a number of one, two or five
digits, ten signs and four words; and every chain of three numbers with two signs, which is what dates,
times and decimals are made of; under both hour formats, with all parts protected and with none.

- `FormsRead`: a form is read the same whatever form stands beside it: as the design says, or as
  `Departures` has it. That the departures are what the design wants is not claimed; they are
  listed below, as are the four exceptions in `Spoiled`, where the code fails.
- `NumbersKept`: whatever the text, each number in it is heard or kept once, in its place and with its
  value, and no placeholder is left.

**SpeechResponses** (33,895): every kind of request, and an engine of six chunks behind pipes that
hold one, two and one: more than all of them hold, so each side must block on the others. Every
fault: ffmpeg missing or crashing, noise on stderr, an engine that raises, a client that leaves.
Deadlock is checked.

- `ServiceKept`: the composition implements `SpeechService`, whatever fails.
- `OutputFaithful`: the output is a prefix of the source's encoding, all of it after a clean end.
- `CleanMeansComplete`, `HeaderExact`, `AudioNeedsToken`: a body that ends cleanly has all of the
  audio, but for an ffmpeg format with a fault; the header tells its size; none of the engine,
  ffmpeg and the voices is touched without an accepted token.
- `ResponseEnds`, `LeaverFreed`: every request is answered to the end, and a client that leaves
  frees everything.
- `NothingLeft`: when the generator has ended none of its tasks is left, and the process is reaped,
  or, when the wait for it was itself cancelled, killed or exited and about to be.

**AppWyoming** (67,134): two connections with one event each, of five kinds, and two audio chunks,
against every failure of start-up and against shutdown. `EngineOutlivesConnections`,
`MetricsBalance` (every handler is counted out once, whatever it died of) and `ShutdownEnds`.

**AudioSeams** (3,613,801): two generators, every pair of 0/1 utterances of at most eight samples,
chunks of three, fades of two: three chunks, the last one full, short enough to be faded and too
short. `SamplesKept`, `NoClick`, `InRange`.

### Fairness

Weak fairness on what the event loop, an operating system or a library does by itself: a ready
coroutine is resumed, an expired timer fires, a started send ends (its peer reads or is gone), an
inference that does not hang returns, ffmpeg goes on when it is not blocked. Clients owe the
server nothing, with two exceptions that are stated: in `FfmpegStream` a client that stays takes
what it is sent, and in `SpeakerApp` a client closes its connection some day, because
`wait_closed()` has no deadline and `ShutdownEnds` is false without. In `SpeakerSession` alone the
engine's audio for a segment ends: fairness of the worker excludes an endless stream of frames
only together with the timer, which cancels it. `SessionOnEngine` makes no such assumption: only the
calls of others are assumed to be read to their end.

### Where the code does not do what it says

Each has a run that TLC finds violated.

1. `SessionTimerSwallowed` – `src/server/session.py:266` swallows the session timer during a
   barge-in; `README.md:289` promises the timeout. In the same way, when the report of the timeout
   raises (line 86) the worker is never cancelled and `run()` does not return: the second exception
   of `SessionEnds`.
2. `SessionDoneOnBargeIn` – `src/server/session.py:205` sends `done` on every barge-in that cancels
   a running worker; `README.md:434` says it answers `end` and tells the client to close on it.
3. `AccumulatorEmptyLine` – `src/server/accumulator.py:45` cuts at positions of the old buffer
   after a blank line: the token "\n\nAh. Eso" is returned as "A" and "h.". `README.md:161`.
4. `BargeInSwallowed` – on Python 3.11, which `pyproject.toml:5` admits and the CI runs, the
   `wait_for` of `src/tts/kokoro/engine.py:68` drops a barge-in's cancellation that comes as the
   inference returns: the worker speaks on, then waits for more, and `_handle_interrupt` awaits it.
   `README.md:254` promises `interrupted`. With `WaitForKeeps = FALSE` the property holds.
5. `EncoderLeftPaused` – on Python 3.11 `src/openai/encoder.py:158` never returns when a client
   leaves more output behind than the `StreamReader` buffers.

The four exceptions of `NormalizerForms` are of the same kind: a whole number before a full stop
stays in digits (`normalizer.py:61`; design, row 9: `\b\d+\b`), a time takes the space after it
along ("tres y diezhola", line 66), of two amounts in a row, "€50 €50", the first takes the sign
of the second (line 64), and an abbreviation is found at the end of a word ("salud." is read
"salusted", line 260; the design has a `\b`).

The departures of `NormalizerForms` are forms the code reads otherwise than the design (line numbers
of the document named above), whatever stands beside them: a date gets an "el" in front (73, 151); a
time has no "las", nor has "3:30 pm" in twelve-hour format, and in the other format an "y" stands
between hour and minutes (74, 149-150); an e-mail address is read without "punto" (157); a lone "@"
(80) and an emoticon (81) have no rule and stay as they are.

Seen while modelling, without a run: a buffered mp3 whose engine fails gets 200 and part of the
audio, since `encoder.py:135` drops the exception (`README.md:524` promises the full response; the
exception in `CleanMeansComplete`); `error` does not close the session after `parse_error`
or `synthesis_error` (`session.py:149-151`, `198-201`, against `README.md:278`); a buffer whose
only space is its first character is never split by length, nor is what follows a stretch of other
blanks as long as the limit, which is cut off in the same call (`accumulator.py:50` and `56`, against
`README.md:162`: with a limit of four, four tabs and "aaaa" leave "aaaa" waiting;
`LongBehindBlanks` states what does hold); a buffered request whose engine fails
gets a plain 500, since the `try` around the generator's creation catches nothing
(`service.py:197`, against `src/openai/protocol.py:6`); `n = chunk_size` is accepted by
`audio.py:58` and clicks at the seam; `JOTA_SESSION_TIMEOUT=0`, "disabled" in `.env.example:28`,
expires at once; on Python 3.11 `wait_closed()` does not wait and engines close under connections.

## What is proved

For every value of the constants the assumptions allow: queue sizes, messages, barge-ins, calls,
models, clients, chunks, pipe sizes, utterances, alphabets, texts and their tokens.

| Theorem | States |
|---|---|
| `SpeakerSessionProofs!TypeCorrect`, `TypeOKCorrect` | types of a session, and the locals each position implies |
| `SpeakerSessionProofs!OneWorkerCorrect`, `NoStaleAudioCorrect` | `OneWorker`, `NoStaleAudio` |
| `SpeakerSessionStream!ChunkCountedOnceCorrect` | `ChunkCountedOnce` |
| `SpeakerSessionStream!StreamProtocolCorrect` | `StreamProtocol`: a session implements `ChunkStream` |
| `SpeakerSessionStream!DoneMeansSpokenCorrect`, `SessionInvCorrect` | `DoneMeansSpoken`, `SessionInv` |
| `KokoroEngineProofs!TypeCorrect`, `LockCorrect`, `InferenceExclusive` | `TypeOK`, `LockFollowsCall`, `OneInference` |
| `KokoroEngineProofs!NoLateInferenceCorrect`, `ClosedIsQuietCorrect` | `NoLateInference`, `ClosedIsQuiet` |
| `SessionOnEngineProofs!EngineKept`, `SessionKept` | the composition implements `KokoroEngine`, and `SpeakerSession` without `WaitForKeeps` |
| `SessionOnEngineProofs!NoStaleInferenceCorrect` | `NoStaleInference` |
| `SessionOnEngineProofs!OneWorkerOnEngine`, `NoStaleAudioOnEngine` | `OneWorker` and `NoStaleAudio`, also when `wait_for` drops a cancellation |
| `SpeechResponsesProofs!OutputFaithfulCorrect`, `NothingLeftCorrect` | `OutputFaithful`, `NothingLeft` |
| `SpeechResponsesProofs!AudioNeedsTokenCorrect`, `HeaderExactCorrect`, `CleanMeansCompleteCorrect` | `AudioNeedsToken`, `HeaderExact`, `CleanMeansComplete` |
| `SpeechResponsesProofs!ServiceKeptCorrect` | `ServiceKept`: request and encoder implement `SpeechService` |
| `SpeakerAppProofs!EngineOutlivesCorrect` | `EngineOutlivesConnections`, assuming `AwaitConns` |
| `SpeakerAppProofs!MetricsBalanceCorrect`, `TypeOKCorrect` | `MetricsBalance`, `TypeOK` |
| `AudioChunksProofs!SamplesKeptCorrect`, `InRangeCorrect` | `SamplesKept`, `InRange` |
| `AudioChunksProofs!NoClickCorrect` | `NoClick`, assuming `N < ChunkSize` |
| `TokenAccumulatorProofs!NothingLostCorrect`, `SegmentsSpeakableCorrect` | `NothingLost`, `SegmentsSpeakable` |
| `TokenAccumulatorProofs!NoSentenceWaitsCorrect`, `LongBehindBlanksCorrect` | `NoSentenceWaits`, `LongBehindBlanks` |
| `TokenAccumulatorProofs!CutAtBoundariesCorrect` | `CutAtBoundaries` |

Three theorems have a hypothesis beyond the assumptions on the constants. Without `AwaitConns`,
Python 3.11, engines do close under connections; with `WaitForKeeps`, the same version, a dropped
cancellation is a step `SpeakerSession` does not have; with `N = ChunkSize`, which `audio.py:58`
accepts, a seam does click.

*Session.* `OneWorker` is not inductive: a barge-in creates a worker when the old one is dead,
which one must know of the only task that could be alive. `TaskInv` says that a live task is the
one in `_tts_task` and that tasks beyond it do not exist. `NoStaleAudio` needs that every text
that is left is of this epoch (`EpochInv`), and since a barge-in starts a new epoch while the
worker it cancelled may still hold a segment, that a barge-in goes on only when that worker is
dead, which is `TaskInv` again. `TypeInv` adds to the types which locals are set where.
Assumptions: `BoundsAssumption`, `NoneAssumption`, `EventsAssumption`.

*Chunks.* A chunk is counted by the worker that finishes it or by the barge-in that cut it. That
never both do rests on `CurrentInv`: the chunk in `_current_chunk_id` is the one the worker
speaks and the one a barge-in remembers, and a barge-in that awaits its worker has cancelled it, so
that it counts nothing more. `QuietInv` keeps the new worker idle until the barge-in is confirmed,
so that no later chunk is taken for the cut one.

*Stream.* A message of either task is allowed by `ChunkStream` only because of what the client has
heard before. `ViewInv` ties that to the positions of the two: while the socket is open, the chunk the
client hears is the worker's, or one that a barge-in, a timeout or a failed synthesis has cut and
that nothing is written after but its end. A socket that is not open writes nothing more. The proof
takes one action at a time and shows the step of `ChunkStream` it maps to.

*Done.* `OwedInv` counts: what is accepted and not spoken is what lies in the queue before the
sentinel, and one segment more in a worker's hand. It holds while nothing has gone wrong, which
`FaultInv` reads off the two positions: only a barge-in, a full queue or the timeout cancels a
worker.

*Engine.* The lock is held where `pc` is `infer`; a future is `running` where the thread has the call;
an item of the executor's queue is pending only while its call waits. The single thread then
gives `OneInference` without the lock, which a timeout releases early.

*Session on the engine.* Each step of the composition is a step of the engine or none for it, so all
theorems about `KokoroEngine` hold with sessions as its callers (`EngineKept`). Each is also a step
of the session or none for it, but for a dropped cancellation: where `wait_for` drops none, all
safety theorems about `SpeakerSession` hold on the engine (`SessionKept`). Where it does, the
invariants `TypeInv`, `TaskInv` and `EpochInv` survive that step, and with `CallInv`, a call that
has not ended is the one a live worker speaks through, they give `NoStaleInference`.

*Request and encoder.* `FlowInv`: the chunks in the response, in stdout, in ffmpeg and in stdin, in
this order, are the source as far as the engine has yielded it, until ffmpeg exits; `DoneInv`: what
has ended was reaped. With these `OutputFaithful` is a lemma on concatenated sequences (`CountsConcat`
and its neighbours). Of the handler, `WayInv` says that nothing is put to work before the token is
accepted, `BodyInv` that what it has collected or sent is what it has read of the encoder.

*App.* Engines are closed in the last phase only, which is reached after `wait_closed()`, and
the server accepts nothing once it is closing (`ServerInv`, `ClosedInv`). `BooksInv` says for each
position of a handler what it has counted.

*Audio.* Every position of a frame is the utterance's own sample or, at the start of all chunks
but the first, a blend of two, and the frames lie where the chunks of the utterance lie; the bound on
a blend is linear arithmetic once the products are named (`Distribute`, `Monotone`).

*Accumulator.* What a scan does to a text is a recursion over its positions. The induction theorems
of the library are out of reach, so `Least` and `Induct` state induction over sets, and
`Recursion` and `SameRecursion` from them that a function defined by recursion exists and is the
only one; the recursive functions of the model are then unfolded by rewriting. The rest is a chain: a
cut divides the text it is made in without losing a character that is not blank (`CutDivides`), so
the scan does (`ScanDivides`), so one turn does, and a turn that finds nothing leaves a buffer in
which nothing is left to find (`SplitExtracts`, `PassExtracts`). Each turn that finds something takes at
least a character (`PassDivides`), so `Len(b) + 1` turns are enough and the last has found nothing
(`SegmentsExtracted`). The inductive invariant `AccumulatorInv` is types, `NothingLost`,
`SegmentsSpeakable` and `Settled(buffer, text)`: no boundary in the buffer, which is the end of the
text of the last call, and a long one only behind blanks. `NoSentenceWaits` and `LongBehindBlanks`
are not enough by themselves, for a call starts from the buffer of the one before. For
`CutAtBoundaries`, the turns follow the sentences of the text one by
one as long as none is blank (`PassFollows`). Assumptions: `LengthsAssumption`, `NoneAssumption`.

Only model-checked:

- Liveness: `SessionEnds`, `InterruptCompletes`, `SessionOutlastsEngine`, `BargeInWaitsForNobody`,
  `CallEnds`, `ResponseEnds`, `LeaverFreed`, `ShutdownEnds`. It needs fairness and `ENABLED`, which the
  prover does not handle.
- `FormsRead` and `NumbersKept` of `NormalizerForms`. They compare the readings of concrete forms, side
  by side: their states are finitely many texts, and a proof could only evaluate each as TLC does.

Not a property of any run: `ChunkCountedOnce`, `StreamProtocol` and `DoneMeansSpoken` of a session
whose cancellation was dropped (`WaitForKeeps`). Tried on a small instance, the first two fail when the
session timer meets such a barge-in: the worker has finished its chunk and counted it, the timer
is swallowed where the barge-in awaits it (`session.py:266`), and `_handle_interrupt` goes on to
count and abort that chunk, after `done`. Without the timer each chunk was counted once.

## Plan

1. *Done:* the session with its abstract stream, the accumulator, the engine, the encoder, the
   speech service, the app and the audio chunks; the session on its engine, the request with its
   encoder, and the normalizer; the theorems above, which are all safety properties of the runs
   but those of the normalizer.
2. *Extend:* the session's end as `ws_handler.py` sees it (`session_ended` and its label, an
   exception out of `run()`), with `MetricsBalance` for sessions as for Wyoming; two sessions over
   one engine; the normalizer over what the accumulator cuts ("3.14" and "Dr." are cut before it
   sees them).
3. *Prove:* what a dropped cancellation leaves of `ChunkCountedOnce` and `StreamProtocol`: both, if no
   timer fires.

## Not modelled

- *Authentication providers*: one call of an external service. Its outcomes, valid, invalid and
  an exception, are inputs of the session and the speech request.
- *Metrics*: counters that never raise. The calls that can be forgotten or doubled are history
  in the models of their callers. `synthesis_started` has no caller.
- *Mock engine, configuration, logging, `/health`, `/ready`, `/metrics`, scripts*: no state of
  their own that other parts depend on.
- Which model, voice and speed a request resolves to: pure lookups that change no step.
- Headers, latencies and wording of messages.
