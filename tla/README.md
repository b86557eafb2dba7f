# Voxform: verification project

Voxform collects survey answers, spoken ones among them. This directory holds
TLA+ models of its backends, the TLC configurations that check them on small
instances, and proofs checked by TLAPS. `PROJECT.json` lists the components,
the runs, the code each definition models, the hazards and the theorems.

Check a run with `tlc -config audio_take.cfg MCAudioPipeline`, a proof with
`tlapm AudioPipelineProofs.tla`.

## 1. The system

Two backends implement one HTTP API over one MySQL schema: `voxform-fastapi`
(Python, asyncio, one process) and `voxform-go` (chi, goroutines). The React
frontend `voxform-vite` holds the dashboard, the survey builder and the public
collect page. There are no tests in the repository.

| component | state | operations | neighbours | hard behaviour |
|---|---|---|---|---|
| Job queue (`job_queue.py`, `queue.go`) | in memory: queue or channel, workers, attempts, sleeping retries | enqueue, get, run, retry, start/recover, stop | called by the upload handlers and at start-up; calls the pipeline; reads `audio_jobs` when it starts | full queue, retries, what a restart recovers, shutdown |
| Audio pipeline (`processor.py`, `processor.go`) | rows of `audio_jobs` and `responses`, files | load, convert, transcribe, extract, complete | workers of the queue; ffmpeg, Groq, Claude | overlapping runs over one row, stale path, a failing statement, a crash between two statements |
| Recording handlers (`routers/audio.py`, `routers/public.py`; `handlers/audio.go`, `public.go`) | the same rows and files | slot, upload | enqueue a job | slot or upload during a run, racing INSERTs |
| Review (`routers/responses.py`, `handlers/response.go`) | `responses.status` | approve, reject | same column as the pipeline | a verdict during a run |
| Sessions, batch sync | `sessions`, `responses` | start, complete, abandon, batch | offline client | answers lost and batches sent again, status checked before use |
| Collect API and page | `sessions`, `responses`, page state | start, submit, slot, upload, complete | page and API over a network | swallowed errors, late commits, double clicks |
| Surveys, versions, plans | `surveys`, `survey_versions`, `organizations` | create, duplicate, update, status, delete, plan | dashboard | check then insert, MAX + 1 |
| Questions | `questions` | create, update, reorder, delete | builder | MAX + 1, reorder without a transaction |
| Authentication | `users`, `refresh_tokens`, `password_resets`, browser token | register, login, refresh, logout, reset | `client.ts` | rotation races, reset against refresh |
| Survey builder | page state, two save timers, query cache | select, edit, toggle, add, delete, save, publish, set options, refetch | surveys, questions | an edit lost to another edit's timer, to a refetch or to a save served later |
| Question widgets | options of a question, the answer, recorder, watch of the position | set, preview, ask, record, capture | builder and collect page | callbacks of a recording or a capture that was given up |
| Responses page and tab | two query caches, mutations under way | select, approve, reject, refetch | review | verdicts given on an old list, the selection moved meanwhile |
| Listing and settings pages | query cache, `globalUser` | list, delete, switch plan, sign out | `client.ts` | a call refused, refreshed and sent again |
| Dashboards, export, theming, configuration | none | reads | - | - |

What makes each correct: every recording handed over is worked off or the loss
is one the code admits to; what is stored with a response is its own; a
verdict stands; every session ends with the answers its client believes
stored; limits and orders hold under concurrent requests; one refresh does not
undo another; no edit vanishes.

## 2. Modules

    AudioTables                rows, files, SQL statements (both backends)
      JobQueue                 job_queue.py
        AudioUpload            routers/audio.py, the verdict of responses.py
          AudioPipeline        processor.py; everything composed; properties
            MCAudioPipeline    instances for TLC
            AudioRetries       a count of runs, for one finding
            AudioPipelineProofs    types, refinement, jobs, verdicts, owners, the take
      GoQueue                  queue.go
        GoUpload               handlers/audio.go, public.go, response.go
          GoPipeline           processor.go; everything composed; properties
            MCGoPipeline, GoDrops
            GoPipelineProofs       types, refinement, jobs, verdicts, runs, the take
    WorkQueue                  abstract: what both queues promise
    CollectApi                 sessions and responses of respondents (both backends)
      CollectPage              CollectPage.tsx; everything composed; properties
        MCCollect
        CollectPageProofs      types, the button, late and whole submissions, thanks
    SurveyStore                surveys, questions, versions (both backends)
      SurveyStoreProofs        types, the limit of the plan; places and versions
    ReviewPage                 ResponsesPage.tsx and the Responses tab
    MCCollectStore             MCCollect, SurveyStore and ReviewPage in one run
      ReviewPageProofs         the last verdict, the list shown, what is overturned;
                               the three parts together
    QuestionEditor             SurveyBuilderPage.tsx, tab Create
    SurveyHeader               SurveyBuilderPage.tsx, title and publish button
      MCBuilder                both in one run
        BuilderProofs          types, edits kept, the editor, the bar
    QuestionTypes              options of every type: settings, preview, widget
    QuestionScreen             the screen of one question
      AudioWidget              its recorder
      LocationWidget           its location
        QuestionWidget         from settings to answer, every type
          QuestionWidgetProofs types, settings and answers, recorder, location
    WebClient                  client.ts, useAuth.ts, Guard; tokens of both backends
      MCPages                  QuestionWidget and WebClient in one run
        WebClientProofs        types, tokens, the session, lists and plan; both
                               parts together

### AudioTables
The row of `audio_jobs` and of `responses` of one answer, and files. A
recording is a member of `Uploads` and nothing else is said about it: a file, a
transcript, an answer are the recording they came from. A path is the slot
request that made it up (`rand_hex` paths do not collide). Each SQL statement is an
operator and one atomic step, as the code runs all of them in autocommit mode.
Columns no property reads are left out, and so are the statements that write
only those (`transcript_raw`, `extracted_data`, `qc_result`).
`responses` start as SUBMITTED, the state the INSERTs give them.

### JobQueue, AudioUpload, AudioPipeline (FastAPI)
* A step is what the event loop runs between two awaits, so `put_nowait` and
  what precedes it is one step (`Enqueue`), and a worker's `pc` names the
  statement `process()` awaits next.
* `Enqueue` drops the job at a full queue, as the code does. `RunFails` is the
  `except` of `_run`, `Retry` the `enqueue` after its sleep; the sleeping worker
  holds its job and takes no other. The delay itself is not modelled: a sleep
  may last arbitrarily long.
* The three `try` levels of `process()` decide where a failing call leads:
  `RunRaises` (out of the run, to the retry), `SkipOnFault`, `Transcribe` and
  `Extract` (on to the playback URL). Groq, Claude and ffmpeg may fail at any
  call; database errors are bounded by `MaxFaults`.
* `Convert` is the call of ffmpeg as one step, and the file write of an upload
  is one (it runs without an await). A failing disk is not modelled.
* `Crash` ends the process with all requests, runs, and jobs; `Restart`,
  `Recover`, `Started` are `start()` within the lifespan handler, before which
  no request is served.
* `lost` and `settled` are history: which responses lost a job at a full queue,
  in a crash or by giving up, and which have a verdict given when no job for
  them existed. Both are cleared when a job is queued. They appear in no guard.

### GoQueue, GoUpload, GoPipeline (Go)
Modelled anew and not as a variant of the above because almost every step
differs: the workers run beside `Start()`; a failed run frees its worker, and a goroutine
sleeps with the job (`sleeping` counts them per job) and keeps its count; only
a failed load makes a run fail; results of `Exec` are ignored, so a failing statement is
skipped (`Skip`) and the run goes on; the upload writes where the URL says and
asks for no row; the conversion writes `wav_path`; nothing writes `audio_url`.
`Shutdown` is the signal with `srv.Shutdown()` and the closing of `quit`:
handlers that run go on, because the wait for them is bounded. A worker with
both a job and a closed `quit` may do either, as in `select`. `Exit` is the end
of `main` and `Killed` also any other death, among them a panic in a worker.
`skipped` (responses with a skipped statement), `newest` (the upload whose path
was put into the row last), `jobs` and `runs` are history. The multipart copy of
an upload to disk is one step, and so is ffmpeg.

### CollectApi, CollectPage
* `CollectApi` is the server's side of each call of the page (`req`, `at`), with
  the variable `backend` for the two that may serve it: Go counts sessions in
  progress where FastAPI asks for the row, ignores failing statements
  (`Skips`), and has no route for images. What follows an upload is the
  business of the pipelines above.
* A step of `CollectPage` is an event handler, a timer or the code between two
  awaits, with the render after it. `next()` acts on the render it was made
  for: the button and Enter have the current one, the timer of a choice the one
  that was clicked (`timers`). Functional updates (`setStep(s => s + 1)`,
  `setAnswers(a => ...)`) act on the state of the moment.
* Types of questions that behave alike are one kind: `text` (all inputs changed in
  place, files too, of which the name is sent), `choice` (moves on by itself), `location`
  and `audio` (an answer arrives later), `image`.
* `missed` (questions with a failed call) and `late` (submissions begun when
  the session was completed) are history.
* Left out: a connection that breaks while the handler is between two
  statements, and the conversion to WAV, which falls back to the original.

### QuestionEditor, SurveyHeader
* An action is a handler, a timer, the answer to a call, or the server serving
  one; the effects of the render that follows are part of it (`Render`). Calls
  are served in any order and answered in any order, and may be lost.
* The whole question is sent with every save, so one number (`text`) stands
  for title, description and options; `required` is sent by a path of its own,
  without the timer. `puts` are the saves under way, `qSaveTimer` the question the one
  timer will send.
* The list is a query with the rules of react-query: a mutation that succeeds
  asks for it again and drops an answer still under way.
* A save stores all its fields at once (`PutServed`), which is FastAPI's one UPDATE,
  or one after the other with other calls between them (`PutBegun`), which is
  Go's UPDATE per field. Go looks at the error of none: `PutSkips`, `DeleteSkips` and in the
  header `TitleSkips`, `StatusSkips` leave a statement out and answer as if it had
  been carried out. `rest` is what a save has still to store.
* In the header every answer of the survey query that differs from the last
  fills the input. FastAPI's `update_survey` stores the row and then fails
  (see `SurveyStore`), which is `TitleServed` with an error for an answer.
* `wanted`, `excuse`, `typed`, `asked`, `lostTitle`, `lostStatus` are history.

### QuestionTypes, QuestionScreen, AudioWidget, LocationWidget, QuestionWidget
* `TypeSettings`, `QuestionPreview` and `QuestionInput` are three components
  with names and defaults of their own; each is a function from the options
  it reads to what it takes for one that is not stored. A question is set in
  the builder, saved, and asked (`Ask`). What it shows of one is `Previewed` and
  `Received`: the tests for labels (`minLabel ?? maxLabel`, which an empty text
  fails), the ends of a SLIDER's range, the sample rate that is part of the preview's
  text. A text is not stored, typed, or typed and cleared (`Empty`).
* Choices and items have ids (`Rechosen`); rows and columns are strings, a new one
  being named by how many there are (`Renamed`), so that names may repeat.
* The recorder: the call of `getUserMedia`, the recorder's parts, the interval
  and `onstop` are separate callbacks; the widget has one ref for each, whichever
  recorder they belong to. `Denied` is a refusal, `GrantedInVain` a failure after
  the microphone was given, which nobody closes then (`stray`). The location: `watchPosition` and the timer of 5.5 s
  are not cancelled by an error nor by leaving.
* The preview is compared by the values it shows, not by its layout.

### WebClient
* A call of the page is a slot that may be served, refused, wait for a refresh,
  go again, and be answered or lost; a refresh on the server is its three
  statements. What fails of them FastAPI notices each time and Go for the SELECTs only
  (`RefreshFails`, which is a user that is gone too): Go's DELETE may leave the row
  (`DeleteToken`) and its INSERT store none, for a token that is given out all the
  same (`StoreToken`).
* A row of `refresh_tokens` that has expired is as if it were not there, and the
  browser drops the cookie about then (`SessionExpires`). Access tokens expire any time.
* The n-th sign-in or refresh gives out access token n and refresh token n.
  One researcher, one tab; a reload forgets what the page waits for.
* That no further token may be issued (`MaxIssued`) shows as a failed INSERT
  (`RefreshFails`), which the code can meet too.
* `mishaps` is the history of what has come between; it appears in no guard.

### SurveyStore
Creation, duplication, update and deletion of surveys and creation, reordering
and deletion of questions, one action per SQL statement where another request
may come between. `doubts` records why what a request has read may be wrong: another one
has written what it works on (`"raced"`), or Go has gone on without a read of
its own (`"failed"`). `FailEnds` and `FailSkips` are a failing statement: the first ends the
request, the second is the Go code that does not look at the error: a COUNT is then 0,
a place 0, a version 1, and an UPDATE missing. `surveyRows`, `tied` and `outdated` keep
these causes for the rows that come of them.
FastAPI's `update_survey` always fails at `json.dumps` of the row's dates, after
the row is stored, so only Go ever stores a version.

### ReviewPage
One recording in each survey, the list of responses under two keys (page and
tab), and verdicts under way with the key they will invalidate: react-query
hands a mutation the `onSuccess` of the latest render, so a verdict follows the
selection (`Followed`). The promise `onSuccess` returns keeps the mutation
pending until the list is there (`Awaited`), which is what the buttons look at.
A mutation survives its page (`mine`). `why`, `late`, `blind`, `judged` and
`muddled` are history.

### WorkQueue
The specification of a bounded FIFO work queue without rows or requests. Both
pipelines implement it (`ImplementsWorkQueue`) with `line` the responses in the
queue and `running` the job each worker holds: FastAPI's retry is `GiveBack`
(or `Done` when there is no room), Go's is `Done` and later `Accept`.

## 3. Properties

| property | says | hazard |
|---|---|---|
| `TypeOK` | types, and the queue within its size, rows behind runs, a file behind each request to Groq (FastAPI), a copy behind each converted path (Go) | |
| `MidJobHasWork` | a row before COMPLETE always has its job somewhere | overlapping runs, retries, full queue, crash |
| `ProcessingHasWork` | so does a response that is PROCESSING | the same; early ends of runs |
| `SettledVerdictStands` | a verdict given with no job outstanding stands until one is queued | verdict against pipeline |
| `NothingMixedUp` | transcript, answer, URL come from an upload for the response | stale path |
| `AcceptedUploadPlayable`, `AcceptedTakeKept` | after a 201 for the single upload of a response and the end of its jobs: COMPLETE, with that recording | recovery over an empty slot, retries |
| `AtMostThreeRuns` (Go) | a job is run three times at most | retry |
| `MidJobEnds`, `ProcessingEnds` | the passing statuses pass | worker or retry that never returns |
| `ImplementsWorkQueue` | see above | order, loss, double delivery |
| `CompletedIsWhole` (collect) | a COMPLETED session holds a whole submission, but for calls that failed | overlapping submissions, the page left, refused calls |
| `NothingAfterCompletion` | submitting again after completion stores nothing (Go) | going back during a submission |
| `DoneIsRecorded` | without choices and failures, thanks mean that a submission is recorded | a second Begin, going back, late answers |
| `SubmittingIsUnderway` | the button says Submitting only while a submission runs | a failing call in the loop |
| `LimitHolds` | more surveys than the plan allows only by a race of two counts, by copies, or in Go alone by a COUNT that failed | count, then INSERT, an error not looked at |
| `RowsAgree` | `PlacesDiffer`: no two questions in one place, but for a race, a MAX that Go failed to read, or a reorder disturbed or cut short, until the next whole one; `VersionIsCurrent`: the last version is the survey after an update nobody came between and all of whose reads went through; a read that failed is to blame in Go only | MAX + 1, reorder without a transaction, errors not looked at |
| `ShownIsStored` | a list at rest shows the stored verdict, but for named reasons | two keys, selection moved, list under way |
| `LastVerdictStands` | the verdict given last is the one stored, unless its page was left or a call went wrong | verdicts served in any order |
| `OverturnedBlindly` | a verdict is overturned only by one given on an old list or from another page, never by a second click | buttons and refetch |
| `EditsKept` (builder) | `LostEditsExplained`: what was edited is stored, or one of seven named things came between; `ListIsCurrent`: the list at rest is what is stored | one timer, saves served in any order and, in Go, in parts, refetches |
| `EditorFollowsSelection`, `TypedTextStays` | the editor edits the selected question; nothing but the user changes the text in it | effect on the id, late lists |
| `HeaderIsTrue` | title and status stored as asked for, or a named reason; shown as stored, but for a title Go did not store | survey query against the input |
| `SavingEnds` | the indicator does not stay at Saving without an error | timer and mutation |
| `AsConfigured` (widgets) | `AnswerFitsSettings`: an answer is one the settings allow; `PreviewIsTrue`: but for three types, the preview differs from what the respondent gets with the options of `Misleading`, and only with those | three components with names of their own |
| `RecordingsApart` | `RecordingIsOwn`, `DoneHasRecording`, `MicrophoneReleased` | shared refs, `onstop` after reset |
| `CaptureShown` | what the location widget says is so, through errors, retries and late timers | a capture that failed runs on |
| `SessionHolds` (client) | `SessionKept`, `SignedOutIsGone`, `AppHasToken`: a session is kept, ended, and never half there, or lost for a named reason | refreshes together, late answers, reset, expiry, statements that fail |
| `PagesCurrent` | `DeletedIsNotListed`, `PlanIsShown`: at rest the pages show what is stored | a call sent again, a list that arrives late |
| `AllSettle` | the recording arrives, the capture ends, the loader and the plan buttons are released | waiting for callbacks |

A property with named reasons is checked with each reason as a history variable that only
the step in question sets; all of them were found by dropping the reason and
reading the trace.

The pipelines' properties, but for the types, exclude jobs that are `lost` (and in Go `skipped`): the code has no way to
notice those, and the finding about dropped jobs is about exactly them.

What does not hold and is not claimed: a verdict given while a job is
outstanding may be replaced by PROCESSING, REVIEWED or SUBMITTED; with two
overlapping runs the transcript and the answer may come from different
recordings of the same response; COMPLETE may be followed by TRANSCRIBING.
No document of the repository says otherwise. On the collect page: a required
question can be stepped past (a choice clicked twice), an answer changed during a
submission is not sent, FastAPI stores answers sent twice twice, and a session
begun twice leaves one without answers.

Nor do these hold; the properties name the exception or leave the case out:
* Two requests answered 401 refresh together and the slower one signs the user
  out; a refresh that fails late clears a newer token; a refresh that has read
  its token before a password reset stores one after it; a deletion sent again
  after a refresh has its 204 taken for a failure; on the sign-in page the user
  stays known without a token. A session ends after JWT_REFRESH_TTL; in Go a
  failed INSERT gives the browser a refresh token that is not in the database.
* A deletion answered on another page has no list asked for again, so that one
  still on its way is shown; an answer to `me` or to a sign-in that was served before the
  plan changed may arrive after the new plan and is shown. (Larger instances and the
  proof attempt found these two; the run's is too small to meet them.)
* An edit within 800 ms of an edit of another question is not saved; an answer
  of the survey query takes away a title just typed. In Go a save of a question
  may be stored by half or not at all and is answered 200, and so is a title, which the
  page goes on to show; a DELETE that failed is answered 204.
* In Go a COUNT that failed passes the limit of the plan, and a MAX that failed puts a
  question beside the first.
* A required MULTIPLE_CHOICE or RANKING passes when it was emptied; the range of
  NUMERIC, the limits of FILE_UPLOAD and the default items of RANKING never
  reach the respondent; previews of NUMERIC, FILE_UPLOAD and MATRIX differ, and so
  do those of a RANKING never touched, of a LIKERT whose low label was cleared (the
  respondent loses the high one too), of a SLIDER with one label (the respondent gets the end
  of the range for the other), and of a voice question at another rate than 16 kHz.
* Rows and columns of a MATRIX may have the same name: remove Row 1, add one, and Row 2
  is there twice.
* A recording whose start failed after the microphone was given leaves it open until
  the page goes.
* A duplicate asks for no plan limit; two updates together lose a version;
  the questions of a deleted survey stay (no foreign keys).
* A verdict given on the page is not seen on the tab for 30 seconds and can be
  overturned there; a selection changed before the answer leaves the first list old.

## 4. Runs

| run | instance | shows |
|---|---|---|
| `audio_take` | 1 response, slot, upload; 2 workers; queue of 1; 1 crash; 1 fault; fair | the life of a recording with everything that can happen to it, and that it ends |
| `audio_two` | 2 responses, 2 slots, 2 uploads; queue of 2 | overlapping runs on a row, the INSERT race, no mixing, FIFO order and the refinement |
| `go_take` | 1 response, slot, upload; 2 workers; channel of 1; 1 stop; 1 fault; fair | the same as `audio_take`, with shutdown and skipped statements |
| `go_retake` | 1 response, 2 slots, 2 uploads; channel of 1 | overlapping runs, the INSERT race, the full channel |
| `go_refines` | 2 responses, 2 slots, 2 uploads; channel of 2; 1 fault; no Groq key, which only shortens the runs | refinement, with a retry among two jobs |
| `collect` | `part` is one of: surveys of 2 questions with all kinds, 2 starts, 2 submissions, 1 timer, 1 failed call, both backends; 2 requests together, 3 in all, a plan of 2, 1 failing statement, both backends; 2 surveys, 2 verdicts, 3 moves, 1 lost call | the collect page over the network; surveys and questions in the database; the verdicts of a researcher |
| `builder` | `part` is one of: 2 questions, 1 existing, 3 acts (a save in parts, and a call or statement lost, cost one too), 2 saves together, 1 call or statement lost; 3 titles, clicks, calls or statements lost, 2 calls of each kind together | the Create tab; the bar above it |
| `pages` | `part` is one of: every type, 3 settings, 3 answers, 2 recorders, 3 captures, 1 leave; 2 calls together, 3 in all, 2 tokens, 1 turn (a page opened, a loss, a reset, an expiry or a failing statement); fair | a question from settings to answer; the session of a researcher |
| `audio_retries`, `go_drops`, `go_final_path`, `collect_done` | | findings, section 6 |

Why the bounds are enough: the rows of different responses share nothing but
the queue and the workers, so one response with two of everything else shows
the interleavings on a row, and two responses show mixing and order. Two
workers are needed for overlapping runs; a third would only repeat them. One
crash shows each state a restart may find. A queue of one is full as soon as a
job waits; 500 is only a number. A request is served once, so `Slots` and
`Uploads` bound the requests, `MaxCrashes`/`MaxStops` and `MaxFaults` the
failures; no other bound exists. Deadlock is not checked because the system
comes to rest when all requests are served and the failures used up.

In `collect` two questions are a first and a last one; a second start and a
second submission are what can race with the first; one answer to a question is
enough to tell a stale answer (none) from the current one. `MaxTimers` = 2, two
clicks on choices at once, was checked too (2.6 million states), and so were two
failed calls with one start.

`builder`, `pages` and `collect` each hold parts that share no state: `part` says
which one a behaviour works, the others stay at an initial state, so a run
checks the parts one after the other and not their product.
In `builder` two questions are the selected one and another, three acts an
edit, another that disturbs it and one more; two saves together can be served
in the other order. In `pages` two recorders and three captures are one that is
given up, the retry, and (for the location) the one begun after coming back; two
calls can be refused together, and two tokens are one and its successor. In the
store two requests interleave and a third comes after; a plan of 2 is passed by the
second of two that race beside the first survey. `ReviewPage` was also checked
alone with four moves (10.6 million states), two verdicts are one and the one that
overturns it.

`WebClient` was also checked alone with three calls together and two turns (9.4
million states).

Larger instances of FastAPI (one response, two uploads and a crash: 1.2 million
states; or a fault) were checked as well; the proofs cover all bounds.

Fairness (`FairSpec`): weak fairness of every worker, since the event loop and
the Go scheduler run what is ready and each external call fails or returns; of the step from
the marked row to `enqueue`; in Go also of sleeping retries and of the exit of
a process whose workers have left. No fairness of clients, of restarts, or of success.
`EditorFairness`: saves are served and answered and the timer fires, as the
browser sees to. `Fairness` of the widgets: a recorder that was stopped ends, a
timer fires; nobody need give a position. `ClientFairness`: a call is served and
answered, or fails when the browser gives it up. No user has to do anything.

## 5. Proofs

Eight modules hold 42 theorems about everything the runs check but liveness. They hold for every set of
responses, workers, requests, calls, recorders, ..., every size and all bounds, assuming
only the named assumptions on constants: sizes are numbers, the sets of slots, calls, questions and
recorders are finite, and a model value that stands for nothing (`None`, `Nothing`,
`Nowhere`) is none of the values it stands beside.

Each module proves first what every step does to the data (`TailFacts`, `EnqueueFacts`,
`RespsOf...`, `ToFacts`, ...), then one lemma per action or group of actions that
keeps the invariant, then the theorem. The invariants were checked by TLC before they
were proved; what is said below is why the property alone is not inductive.

### FastAPI pipeline (`AudioPipelineProofs`)
* `TypeCorrect`: `TypeOK` contains what makes it inductive: a busy worker holds a
  response, a run past its load has a row and a path, a run past the gate has a
  file (files and rows never go away), a run with text has heard something.
* `QueueIsWorkQueue`: the refinement. `Init` maps to `Init` of `WorkQueue`, and each step to
  one of its steps or a stutter: a job put, dropped, taken, given back, or finished, or
  a crash, by what it does to the sequence of responses in the queue.
* `NoForgottenJob`, `NoStrayProcessing`, `SettledVerdictSafe` follow from `WorkInv`.
  `MidJobHasWork` does not say what a run that ends leaves behind; `WorkInv` adds that a
  run at `reset` is not what a row before COMPLETE relies on, and that
  PROCESSING may rely on any run, that one included.
* `RecordingsStayApart` follows from `OwnInv`: every path in the row of `r`,
  in a run for `r` or in an upload for `r` is a slot requested for `r`, and
  every file and copy under a slot of `r` was uploaded for `r`.
* `AcceptedTakePlayable` follows from `TakeInv`, which relates each run to what is still to
  be written: a path in a row is that of a slot whose request is over (`SlotsStored`), an
  upload past its write has its file (`UploadsWritten`), and after a 201 the row is no longer
  UPLOADING and the URL is there or somebody is on the way to write it (`AnnouncedAt`,
  `UrlComing`): through failed runs, whose job waits for its retry, and through recoveries,
  which enqueue a job again.

### Go pipeline (`GoPipelineProofs`)
* `TypeCorrect`, `ChannelIsWorkQueue`: as above; here a failed run is `Done` and the end of
  its sleep an `Accept`, and the recovery puts jobs in while workers take them.
* `NoForgottenJob`, `NoStrayProcessing`, `SettledVerdictSafe`: `WorkInv` says where the job of a row
  before COMPLETE is (channel, sleeper, worker, recovery or the upload about to send it) and that
  a sleeping job is outstanding.
* `NoFourthRun` follows from `Account`: runs so far and runs left to its jobs are at most three
  for each job sent. The jobs are counted by the cardinality of their places: in the
  channel, asleep (by their count of attempts), with workers.
* `TakeKept` follows from `OwnInv`: uploads, files, copies, and the paths of rows and runs
  belong to their response, and a row that was announced is UPLOADING again only because
  of another slot (`RowsAnnounced`).

### Collect page (`CollectPageProofs`)
* `TypeCorrect` rests on `PageInv`: what kind of call each handler waits for
  (`KindsOfCalls`), and that the page's session is one that was begun.
* `ButtonComesBack` needs `PageInv` only: each step that ends a submission ends the wait.
* `LateStoresNothing` follows from `LateInv`: a submission begun when its session was
  COMPLETED has no call past Go's check of the session, which stays COMPLETED.
* `CompletionIsWhole` follows from `WholeInv`: while its session is in progress, what the loop
  of a submission has passed is stored or `missed` (`Behind`), the question it is at has what
  its calls have brought so far (`Current`), and `complete` comes at the end of the loop.
* `ThanksAreTrue` follows from `DoneInv`: with no call failing a start leaves a session, and
  without choices a page past the intro has one and only the end of a submission leads past
  the last question.

### Surveys, questions, versions (`SurveyStoreProofs`)
* `StoreTypeCorrect` for all variables, most of them as parts of `RowsInv`.
* `LimitKept`: `LimitInv` counts the rows without a cause and says of a request that has
  counted, and that no INSERT or DELETE has come after, that there is room still
  (`CountTrusted`); the counts are compared with the library's facts on finite sets.
* `RowsKept`: `RowsInv` says of each request between its read and its write what its
  read is still worth while it has no doubts: the place it read
  is above all places, the version is the last (`VersionDue`, `PlaceDue`), and the part of
  a reorder that is done lies below what is left (`OrderDue`).

### Responses page (`ReviewPageProofs`)
* `LastVerdictKept`: the property says nothing while a verdict is under way;
  `OnlyLastSent` does: of the verdicts on a survey at most one has not
  reached the server, and that one is the last given.
* `ShownListCurrent` follows from `ListInv`: what each list holds, or the answer it waits
  for, is what was stored when the server read it, and a later verdict asks again.
* `NoSightedOverturn`, an action property, follows from `BlindInv`: of two verdicts under way on
  one survey each was given without sight of the other (`BlindTogether`), and one given with
  sight of a list still finds SUBMITTED when it is served (`SightedFirst`).

* `ReviewTypeCorrect` from `ListInv` and the bounds.
* `AllTypeCorrect`, `CollectStoreHolds`: a behaviour of `MCCollectStore`, which the run checks, is
  one of each of its three parts (`PartsOfCollect`), so that what is proved of each holds there. For
  this the module extends `CollectPageProofs` and `SurveyStoreProofs`.

### Widgets (`QuestionWidgetProofs`)
* `ConfiguredAsShown`: `OptionsInv` (ids of choices below the next one, numbers that are
  numbers) and `AnswerInv`; `PreviewHolds` compares the three tables and what is made of
  labels and of the sample rate, type by type and in both directions (`LikertLabels`,
  `SliderLabels`, `SameOption`).
* `RecordingsKeptApart`: `VoiceInv` says that recorders are made in order, that the parts in
  the shared ref are of one of them (`OwnParts`), and who still owns an open microphone
  (`OneRecorder`).
* `CaptureTruthful`: `LocationInv` ties what the widget shows to the capture whose callbacks can
  still fire, one given up or failed included.
* `TypeCorrect` for the question with its widgets.

### Client (`WebClientProofs`)
* `ClientTypeCorrect`: `TypeInv` adds what a call in each state may be (`CallOK`) and that a call somebody
  waits for has a reader (`Waits`).
* `SessionIsWhole` has three parts. A token on its way is in no other call and not in the
  cookie (`NewTokens`). Unless something has come between, at most one refresh is under way, and
  the cookie is in the database unless that one has taken it out (`Kept`): hence `SessionKept`.
  Among what may have come between are an expired session and a failed statement: after
  either, as after a reset, the cookie need not be in the database.
  `EndInv` says that after a sign-out, or without a token, nothing but a sign-in without a token
  is still listened to (`Lone`), which no answer can turn into half a session: hence
  `SignedOutIsGone` and `AppHasToken`.
* `PagesTellTheTruth` follows from `ShownInv`: while the list shows a deleted survey somebody will
  put it right, the answer to the DELETE or a list that was asked for after it; while a
  page shows another plan the answer to the change or `refreshUser()` will. That
  these go out with a token is `EndInv` again.

* `PagesTypeCorrect`, `PagesHold`: a behaviour of `MCPages`, which the run checks, is one of the
  widgets and one of the client (`PartsOfPages`), so that what is proved of each holds there. For
  this the module extends `QuestionWidgetProofs`.

### Survey builder (`BuilderProofs`)
A save that was sent says nothing until it is served, and the last one served wins. Both
parts of the page therefore rest on what is due: a value is stored already and no save
is under way, or the last save under way brings it (`Due`, `DueRow`). A save served after
a later one is the named cause `overtaken`, a statement that Go leaves out `unstored`; otherwise
what is due stays so. Of a question this is said of each field, for Go stores a save in parts.
* `EditsAreKept`: `WantedIsDue` says of a question nothing has come between that it is due, or
  on the timer, or to be deleted. It needs `Unborn` (nothing under way names a question before it is
  created) and `WantedIsThere` (a save of a question that is gone stores nothing). The list is
  current by `ListCurrent`: each change that is stored leaves an answer the page has not handled
  (`NoNews`), and handling it asks for the list again, or lets an older answer pass (`outrun`).
* `EditorIsSelected`: the property looks at the editor only while it shows; `EditorFollows` holds
  behind the type picker too, since the effect on the id does not run when it closes, and
  `AwayIsBlank` for a return to the page.
* `TypedIsKept`, an action property: what each step makes of the editor (`PageSteps`) and what a
  render leaves (`RenderFacts`).
* `HeaderTrue` follows from `HeaderInv`: title and status are due (`TitleDue`, `StatusDue`), the page
  never knows more than is stored (`NotAhead`), and the input shows another title than the survey
  only for a title under way, failed, or newer than the survey (`TitleAhead`).
* `TypeCorrect` for both.

### Only model-checked
Liveness (`MidJobEnds`, `ProcessingEnds`, `SavingEnds`, `AllSettle`), which is out of the
prover's reach.

Where an argument needs a least or a greatest number (the greatest place, the first free
id) the library's facts on well-founded sets do, which take sets; a definition by
recursion over data would need induction with an operator, which the provers lack. No
such definition is used in the modules proved about.

## 6. Findings

* `audio_retries`: the retry of FastAPI has no limit (`attempts` starts at 0 in
  each new `Job`), where the module promises three attempts.
* `go_drops`: a dropped job is not retried on the next start, which the log
  promises: recovery looks at QUEUED and UPLOADING, and no statement writes QUEUED. The
  recovery of FastAPI is the same.
* `collect_done`: a choice on an optional last question is not submitted, because
  the timer that submits belongs to the render before the click; the page thanks
  for recorded responses all the same.
* `go_final_path`: a run that overlaps a re-recording writes the path of its own copy over the new one.

## 7. Plan

1. (done) FastAPI and Go pipelines.
2. (done) Collect page and API over a lossy network.
3. (done) `WebClient`: rotation, reset, and `client.ts` with the pages on it.
4. (done) `SurveyStore`: plan limit, versions, duplicates, order.
5. (done) `QuestionEditor`, `SurveyHeader`: timers, mutations and refetches.
6. (done) `QuestionWidget` and its parts: settings, preview, widgets, recorder, location.
7. (done) `ReviewPage`.
8. (done) Proofs of the invariants of 1 to 7, of both refinements, and of what the
   composed runs check.

### Not modelled

* Sessions of surveyors and the batches of `/sync/batch`: the handlers are there,
  but the program that collects offline is not in the repository, so neither what
  it sends again nor what it makes of an answer is known. As the code stands, the two
  backends differ: FastAPI makes up an id for a record without one, so that
  sending it again stores it twice, and begins its sessions IN_PROGRESS; Go leaves
  such a record out, begins sessions COMPLETED and counts an INSERT
  that failed as synced.
* `create_response` and `CreateResponse`, called by no page; the place a question
  update may set, which no page sends.
* The Share and Preview tabs of the builder, which only show; the creation of a
  survey on its page, which is one call; names, themes, search.
* Registration, mails, and the links of forgotten passwords and addresses.
* Dashboards, analytics, CSV and ZIP export (they read and lay out),
  configuration, migrations, logging.
