-------------------------------- MODULE Scraper ---------------------------------
(***************************************************************************)
(* The scraper of src/scrape/scraper.ts: timers start scrapes of the       *)
(* plugin's own metric stores and of HTTP targets, each scrape is a task   *)
(* of several awaits, and every change of the settings or of the set of    *)
(* stores starts the scraper anew while the old tasks are still under way. *)
(* A generation number tells the old from the new.                         *)
(*                                                                         *)
(* A scrape's samples are represented by its `up' sample, which the same   *)
(* batch carries; summarizeScraperHealth of src/health.ts reads the        *)
(* statuses.                                                               *)
(***************************************************************************)
EXTENDS Integers, FiniteSetsExt

CONSTANTS
    Selves,         \* the metric stores scraped in the process
    Targets,        \* the URLs scraped over HTTP
    Null,           \* no time
    MaxRedirects,   \* of fetchText
    MaxStarts,      \* bound on the calls of start
    MaxTime         \* bound on the clock

Keys == Selves \cup Targets

ASSUME ScraperAssumption ==
    /\ Selves \cap Targets = {} /\ IsFiniteSet(Keys) /\ Null \notin Int /\ Null \notin BOOLEAN
    /\ MaxRedirects \in Nat /\ MaxStarts \in Nat /\ MaxTime \in Nat

VARIABLES
    generation, \* bumped by stop and by start
    running,    \* the keys whose interval timers are set
    inFlight,   \* inFlight: the generation that scrapes a key, or 0
    statuses,   \* statuses: by key, for the keys of the configuration
    tasks,      \* the calls of scrapeSelf and scrapeTarget under way
    stored,     \* the scrapes whose batch the store has committed, up = 1 in it
    now,        \* the clock
    disposed    \* dispose was called: the sink discards

scraperVars == <<generation, running, inFlight, statuses, tasks, stored, now, disposed>>

\* Start bumps the generation twice, dispose once.
MaxGeneration == 2 * MaxStarts + 1
Status == [last : 0..MaxTime \cup {Null}, up : BOOLEAN \cup {Null}, of : 1..MaxGeneration]
ScrapeTask == [key : Keys, of : 1..MaxGeneration, started : 0..MaxTime,
         at : {"fetch", "ingest", "record"}, hops : 0..MaxRedirects]

\* The invariant of types.
ScraperTypeOK ==
    /\ generation \in 0..MaxGeneration /\ running \subseteq Keys
    /\ inFlight \in [Keys -> 0..MaxGeneration]
    /\ DOMAIN statuses \subseteq Keys /\ \A k \in DOMAIN statuses : statuses[k] \in Status
    /\ tasks \subseteq ScrapeTask /\ stored \subseteq Keys \X (0..MaxTime)
    /\ now \in 0..MaxTime /\ disposed \in BOOLEAN

ScraperInit ==
    /\ generation = 0 /\ running = {} /\ inFlight = [k \in Keys |-> 0]
    /\ statuses = [k \in {} |-> Null] /\ tasks = {} /\ stored = {}
    /\ now = 0 /\ disposed = FALSE

-----------------------------------------------------------------------------
Current(t) == t.of = generation
NewTask(k, g) == [key |-> k, of |-> g, started |-> now, at |-> "fetch", hops |-> 0]
Pending == [last |-> Null, up |-> Null, of |-> generation + 2]

\* start: stop what runs, list the new configuration and scrape it at once.
Start(K) ==
    /\ ~disposed /\ generation + 2 < MaxGeneration
    /\ generation' = generation + 2 /\ running' = K
    /\ inFlight' = [k \in Keys |-> IF k \in K THEN generation + 2 ELSE 0]
    /\ statuses' = [k \in K |-> Pending]
    /\ tasks' = tasks \cup {NewTask(k, generation + 2) : k \in K}
    /\ UNCHANGED <<stored, now, disposed>>

Dispose ==
    /\ ~disposed /\ disposed' = TRUE
    /\ generation' = generation + 1 /\ running' = {}
    /\ inFlight' = [k \in Keys |-> 0] /\ statuses' = [k \in {} |-> Null]
    /\ UNCHANGED <<tasks, stored, now>>

\* An interval timer; a key whose scrape of this generation is under way is left alone.
Interval(k) ==
    /\ k \in running /\ inFlight[k] # generation
    /\ inFlight' = [inFlight EXCEPT ![k] = generation]
    /\ tasks' = tasks \cup {NewTask(k, generation)}
    /\ UNCHANGED <<generation, running, statuses, stored, now, disposed>>

Goes(t, u) == tasks' = (tasks \ {t}) \cup {u} /\ UNCHANGED inFlight

\* Mutant of Cleared: the mark is removed whoever set it.
ClearedAnyway(t) == [inFlight EXCEPT ![t.key] = 0]

\* Mutant of Cleared: the mark of a failed scrape stays.
ClearedOnSuccess(t) ==
    IF inFlight[t.key] = t.of /\ t.at = "ingest" THEN [inFlight EXCEPT ![t.key] = 0] ELSE inFlight

\* The finally of a scrape.
Cleared(t) == IF inFlight[t.key] = t.of THEN [inFlight EXCEPT ![t.key] = 0] ELSE inFlight

Finish(t) == tasks' = tasks \ {t} /\ inFlight' = Cleared(t)

SetStatus(t, up) == [k \in DOMAIN statuses \cup {t.key} |->
    IF k = t.key THEN [last |-> t.started, up |-> up, of |-> t.of] ELSE statuses[k]]

\* Mutant of MayReport: the generation is not compared again after the ingest.
MayReportAlways(t) == TRUE

MayReport(t) == Current(t)

\* A redirect of an HTTP target, followed as long as redirects are left.
FetchRedirected(t) ==
    /\ t.at = "fetch" /\ t.key \in Targets /\ t.hops < MaxRedirects
    /\ Goes(t, [t EXCEPT !.hops = @ + 1])
    /\ UNCHANGED <<generation, running, statuses, stored, now, disposed>>

\* The samples are there: they are ingested unless the scraper was started anew.
FetchAnswered(t) ==
    /\ t.at = "fetch"
    /\ IF Current(t) THEN Goes(t, [t EXCEPT !.at = "ingest"]) ELSE Finish(t)
    /\ UNCHANGED <<generation, running, statuses, stored, now, disposed>>

\* The catch: of a target the status is set before the failure is recorded.
Failed(t) ==
    IF ~Current(t) THEN Finish(t) /\ UNCHANGED statuses
    ELSE /\ Goes(t, [t EXCEPT !.at = "record"])
         /\ statuses' = IF t.key \in Targets THEN SetStatus(t, FALSE) ELSE statuses

\* The timeout, an error, another status than 200, or one redirect too many.
FetchFails(t) ==
    /\ t.at = "fetch" /\ Failed(t)
    /\ UNCHANGED <<generation, running, stored, now, disposed>>

IngestAnswered(t) ==
    /\ t.at = "ingest"
    /\ stored' = stored \cup {<<t.key, t.started>>}
    /\ statuses' = IF MayReport(t) THEN SetStatus(t, TRUE) ELSE statuses
    /\ Finish(t)
    /\ UNCHANGED <<generation, running, now, disposed>>

IngestFails(t) ==
    /\ t.at = "ingest" /\ Failed(t)
    /\ UNCHANGED <<generation, running, stored, now, disposed>>

\* recordFailure is answered, or its error swallowed.
RecordEnds(t) ==
    /\ t.at = "record"
    /\ statuses' = IF t.key \in Selves /\ MayReport(t) THEN SetStatus(t, FALSE) ELSE statuses
    /\ Finish(t)
    /\ UNCHANGED <<generation, running, stored, now, disposed>>

Tick ==
    /\ now < MaxTime /\ now' = now + 1
    /\ UNCHANGED <<generation, running, inFlight, statuses, tasks, stored, disposed>>

Answers(t) == FetchAnswered(t) \/ FetchFails(t) \/ IngestAnswered(t) \/ IngestFails(t)
                \/ RecordEnds(t)

\* Nothing is scraped any more; the program may stop.
ScraperFinished == /\ disposed /\ tasks = {} /\ now = MaxTime
            /\ UNCHANGED scraperVars

ScraperNext ==
    \/ \E K \in SUBSET Keys : Start(K)
    \/ Dispose \/ Tick \/ ScraperFinished
    \/ \E k \in Keys : Interval(k)
    \/ \E t \in tasks :
        \/ FetchRedirected(t) \/ FetchAnswered(t) \/ FetchFails(t)
        \/ IngestAnswered(t) \/ IngestFails(t) \/ RecordEnds(t)

ScraperSpec == ScraperInit /\ [][ScraperNext]_scraperVars

\* Interval timers fire; a fetch is answered or times out, and the store answers.
FairScraperSpec ==
    /\ ScraperSpec
    /\ \A k \in Keys :
        /\ WF_scraperVars(Interval(k))
        /\ \A g \in 1..MaxGeneration :
            WF_scraperVars(\E t \in tasks : t.key = k /\ t.of = g /\ Answers(t))

-----------------------------------------------------------------------------
(* summarizeScraperHealth.                                                 *)

\* lastError and lastErrorMs, by a pass over the statuses.
NewestError(S) == FoldSet(LAMBDA k, e :
    IF statuses[k].up = FALSE /\ (e.last = Null \/ statuses[k].last >= e.last)
    THEN [key |-> k, last |-> statuses[k].last] ELSE e, [key |-> Null, last |-> Null], S)

Health ==
    LET K == DOMAIN statuses IN
    [up |-> Cardinality({k \in K : statuses[k].up = TRUE}),
     down |-> Cardinality({k \in K : statuses[k].up = FALSE}),
     pending |-> Cardinality({k \in K : statuses[k].last = Null}),
     error |-> NewestError(K)]

-----------------------------------------------------------------------------
(* Properties.                                                             *)

\* Within a generation a target is never scraped twice at once, although the tasks of
\* earlier generations end, and clear their marks, at any time.
OneScrapePerTarget ==
    \A t, u \in tasks : t.key = u.key /\ Current(t) /\ Current(u) => t = u

\* The status list holds exactly the keys that run, each with what a scrape of this very
\* generation found, and a key shown as up has its samples in the database.
StatusesAreCurrent ==
    /\ DOMAIN statuses = running
    /\ \A k \in running :
        /\ statuses[k].of = generation
        /\ statuses[k].up = TRUE => <<k, statuses[k].last>> \in stored

\* The health summary counts every status once and has the newest of the errors.
HealthFollowsStatuses ==
    /\ Health.up + Health.down + Health.pending = Cardinality(DOMAIN statuses)
    /\ \A k \in DOMAIN statuses : statuses[k].up = FALSE =>
        Health.error.last # Null /\ statuses[k].last <= Health.error.last

\* The status list and the health endpoint tell the truth: late answers of an earlier
\* generation, which arrive at any time after a restart, never show up in them.
StatusTellsTheTruth == StatusesAreCurrent /\ HealthFollowsStatuses

\* As long as the scraper runs, each of its targets is scraped again and again.
KeepsScraping ==
    \A k \in Keys :
        /\ []<>(k \notin running \/ inFlight[k] # generation)
        /\ []<>(k \notin running \/ inFlight[k] = generation)
================================================================================
