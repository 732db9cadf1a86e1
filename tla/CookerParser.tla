---------------------------- MODULE CookerParser ----------------------------
(***************************************************************************)
(* Parsing the recipes: the server's loop (server/process.py), an          *)
(* asynchronous command that needs the cache (command.py), updateCache     *)
(* and CookerParser (cooker.py), whose Feeder hands recipes to parser      *)
(* processes beside the server, and the client, which sends commands,      *)
(* stops the cooker and ends the server when it likes.                     *)
(*                                                                         *)
(* A multiprocessing queue passes a message on some time after put returns *)
(* and its readers poll, so a process may miss a message that is there.    *)
(* The order of recipes in a queue is left open.                           *)
(***************************************************************************)
EXTENDS Naturals, FiniteSets

CONSTANTS
    Recipe,                 \* filelist
    Process,                \* the parser processes
    Commands,               \* asynchronous commands with needcache
    None,                   \* no command
    Caches,                 \* sets of recipes that may be in the cache
    MaxCommands, MaxResets, \* bounds: commands and resets a client sends
    MaxDeaths               \* bound: processes killed in one parse

\* Commands whose method calls updateCache before anything else: of those that
\* need the cache, all but two (command.py:335-351).
UpdatesCache == Commands \ {"compareRevisions", "reparseFiles"}

ASSUME CookerAssumption ==
    /\ IsFiniteSet(Recipe)
    /\ IsFiniteSet(Process) /\ Process # {}
    /\ None \notin Commands
    /\ Caches \subseteq SUBSET Recipe
    /\ MaxCommands \in Nat /\ MaxResets \in Nat /\ MaxDeaths \in Nat

VARIABLES
    state,                  \* BBCooker.state
    currentAsyncCommand,
    server,                 \* where the server is
    keep_running,
    status,                 \* recipes added to the cooker's CacheData
    parser,                 \* CookerParser
    feeder,                 \* its Feeder process
    jobs, nones,            \* the job queue: recipes, and None messages
    running, died,          \* parser processes that run, and that were killed
    hand,                   \* the recipe each of them is parsing
    results,                \* the result queue
    parser_quit,            \* messages in the queue
    bad,                    \* recipes that cannot be parsed
    sent                    \* commands and resets sent so far

processVars == <<feeder, jobs, nones, running, died, hand, results, parser_quit, bad>>

vars == <<state, currentAsyncCommand, server, keep_running, status, parser,
          processVars, sent>>
-----------------------------------------------------------------------------
Busy == currentAsyncCommand # None

toparse == Cardinality(parser.willparse)

num_processes == Cardinality(Process)

NoParser ==
    [haveshutdown |-> FALSE, fromcache |-> {}, willparse |-> {},
     parsed |-> 0, raised |-> FALSE, told |-> 0]

NoFeeder == [running |-> FALSE, quit |-> FALSE, jobs |-> {}, hand |-> {}]

Init ==
    /\ state = "initial"
    /\ currentAsyncCommand = None
    /\ server = "loop"
    /\ keep_running = TRUE
    /\ status = {}
    /\ parser = NoParser
    /\ feeder = NoFeeder
    /\ jobs = {} /\ nones = 0
    /\ running = {} /\ died = {}
    /\ hand = [p \in Process |-> {}]
    /\ results = {}
    /\ parser_quit = 0
    /\ bad = {}
    /\ sent = [commands |-> 0, resets |-> 0]
-----------------------------------------------------------------------------
(* The client, whose commands the server takes between two idle calls.     *)

Listening == server = "loop" /\ keep_running

\* runCommand: an asynchronous command is refused while another is active.
AsyncCommand(c) ==
    /\ Listening
    /\ ~Busy
    /\ sent.commands < MaxCommands
    /\ sent' = [sent EXCEPT !.commands = @ + 1]
    /\ currentAsyncCommand' = c
    /\ UNCHANGED <<state, server, keep_running, status, parser, processVars>>

\* stateShutdown, stateStop
Request(s) ==
    /\ Listening
    /\ state' = s
    /\ UNCHANGED <<currentAsyncCommand, server, keep_running, status, parser,
                   processVars, sent>>

\* resetCooker or initCooker, which a client sends between commands.
Reset ==
    /\ Listening
    /\ ~Busy
    /\ sent.resets < MaxResets
    /\ sent' = [sent EXCEPT !.resets = @ + 1]
    /\ state' = "initial"
    /\ UNCHANGED <<currentAsyncCommand, server, keep_running, status, parser,
                   processVars>>

Terminate ==
    /\ keep_running
    /\ keep_running' = FALSE
    /\ UNCHANGED <<state, currentAsyncCommand, server, status, parser,
                   processVars, sent>>

Client ==
    \/ \E c \in Commands : AsyncCommand(c)
    \/ \E s \in {"shutdown", "stop"} : Request(s)
    \/ Reset
    \/ Terminate
-----------------------------------------------------------------------------
(* The idle call of the active command: updateCache and parse_next.        *)

\* For a mutant: one process is not told.
Abandon_OneShort ==
    IF toparse = 0 \/ parser.haveshutdown
    THEN UNCHANGED <<feeder, parser_quit>> /\ parser' = parser
    ELSE /\ parser' = [parser EXCEPT !.haveshutdown = TRUE]
         /\ feeder' = [feeder EXCEPT !.quit = TRUE]
         /\ parser_quit' = num_processes - 1

\* shutdown(clean=False), up to its sys.exit or to that of its caller.
Abandon ==
    IF toparse = 0 \/ parser.haveshutdown
    THEN UNCHANGED <<feeder, parser_quit>> /\ parser' = parser
    ELSE /\ parser' = [parser EXCEPT !.haveshutdown = TRUE]
         /\ feeder' = [feeder EXCEPT !.quit = TRUE]
         /\ parser_quit' = num_processes

\* The processes of an earlier CookerParser share nothing with the new one and
\* leave the model here: see NoOrphans.
StartParsing(cached, broken) ==
    /\ Listening /\ Busy
    /\ state = "initial"
    /\ state' = "parsing"
    /\ status' = {}
    /\ parser' = [NoParser EXCEPT !.fromcache = cached,
                                  !.willparse = Recipe \ cached]
    /\ feeder' = [NoFeeder EXCEPT !.running = cached # Recipe,
                                  !.jobs = Recipe \ cached]
    /\ jobs' = {} /\ nones' = 0
    /\ running' = IF cached # Recipe THEN Process ELSE {}
    /\ died' = {}
    /\ hand' = [p \in Process |-> {}]
    /\ results' = {}
    /\ parser_quit' = 0
    /\ bad' = broken
    /\ server' = "next"
    /\ UNCHANGED <<currentAsyncCommand, keep_running, sent>>

ContinueParsing ==
    /\ Listening /\ Busy
    /\ state = "parsing"
    /\ server' = "next"
    /\ UNCHANGED <<state, currentAsyncCommand, keep_running, status, parser,
                   processVars, sent>>

LoadCached ==
    /\ server = "next"
    /\ \E r \in parser.fromcache :
        /\ status' = status \cup {r}
        /\ parser' = [parser EXCEPT !.fromcache = @ \ {r}]
    /\ server' = "loop"
    /\ UNCHANGED <<state, currentAsyncCommand, keep_running, processVars, sent>>

\* For a mutant: one result is not waited for.
Exhausted_OffByOne == parser.raised \/ parser.parsed + 1 >= toparse

\* parse_generator has nothing more to yield; a generator that has raised an
\* exception has ended.
Exhausted == parser.raised \/ parser.parsed >= toparse

\* result_queue.get, which the server polls until there is a result.
NextResult(r) ==
    /\ server = "next"
    /\ parser.fromcache = {}
    /\ ~Exhausted
    /\ r \in results
    /\ results' = results \ {r}
    /\ server' = "loop"

TakeResult ==
    \E r \in Recipe \ bad :
        /\ NextResult(r)
        /\ status' = status \cup {r}
        /\ parser' = [parser EXCEPT !.parsed = @ + 1]
        /\ UNCHANGED <<state, currentAsyncCommand, keep_running, feeder, jobs,
                       nones, running, died, hand, parser_quit, bad, sent>>

\* The exception is raised again in the server, which abandons the parse and
\* ends the command; the cooker's state stays as it was.
ParsingFailed ==
    \E r \in bad :
        /\ NextResult(r)
        /\ parser' = [parser EXCEPT !.raised = TRUE, !.haveshutdown = TRUE]
        /\ feeder' = [feeder EXCEPT !.quit = TRUE]
        /\ parser_quit' = num_processes
        /\ currentAsyncCommand' = None
        /\ UNCHANGED <<state, keep_running, status, jobs, nones, running, died,
                       hand, bad, sent>>

\* StopIteration, and shutdown(): each process is to be sent a None.
ParsingEnds ==
    /\ server = "next"
    /\ parser.fromcache = {}
    /\ Exhausted
    /\ IF toparse = 0 \/ parser.haveshutdown
       THEN /\ server' = "loop"
            /\ state' = "running"
            /\ UNCHANGED <<parser, feeder>>
       ELSE /\ server' = "put"
            /\ parser' = [parser EXCEPT !.haveshutdown = TRUE]
            /\ feeder' = [feeder EXCEPT !.quit = TRUE]
            /\ UNCHANGED state
    /\ UNCHANGED <<currentAsyncCommand, keep_running, status, jobs, nones,
                   running, died, hand, results, parser_quit, bad, sent>>

HasRoom == Cardinality(jobs) + nones < num_processes

\* jobs.put(None), once for each process, waits for room.
PutNone ==
    /\ server = "put"
    /\ HasRoom
    /\ nones' = nones + 1
    /\ parser' = [parser EXCEPT !.told = @ + 1]
    /\ server' = IF parser'.told = num_processes THEN "join" ELSE "put"
    /\ UNCHANGED <<state, currentAsyncCommand, keep_running, status, feeder,
                   jobs, running, died, hand, results, parser_quit, bad, sent>>

ChildrenEnded == running = {} /\ ~feeder.running

Joined ==
    /\ server = "join"
    /\ ChildrenEnded
    /\ server' = "loop"
    /\ state' = "running"
    /\ UNCHANGED <<currentAsyncCommand, keep_running, status, parser,
                   processVars, sent>>

\* The command's method once parsing is over or the cooker stopped: updateCache
\* does nothing, or abandons the parse and exits.  (Without a parser it fails.)
Method ==
    IF currentAsyncCommand \in UpdatesCache /\ state \in {"shutdown", "stop"}
    THEN Abandon
    ELSE UNCHANGED <<parser, feeder, parser_quit>>

RunMethod ==
    /\ Listening /\ Busy
    /\ state \notin {"initial", "parsing"}
    /\ Method
    /\ currentAsyncCommand' = None
    /\ UNCHANGED <<state, server, keep_running, status, jobs, nones, running,
                   died, hand, results, bad, sent>>

\* main's loop ends: the cooker is stopped.
LeaveLoop ==
    /\ server = "loop" /\ ~keep_running
    /\ state' = "stop"
    /\ server' = "lastidle"
    /\ UNCHANGED <<currentAsyncCommand, keep_running, status, parser,
                   processVars, sent>>

\* For a mutant: the idle functions are not called once more.
LastIdle_None ==
    /\ server = "lastidle"
    /\ currentAsyncCommand' = None
    /\ server' = "exit"
    /\ UNCHANGED <<state, keep_running, status, parser, processVars, sent>>

LastIdle ==
    /\ server = "lastidle"
    /\ IF Busy THEN Method ELSE UNCHANGED <<parser, feeder, parser_quit>>
    /\ currentAsyncCommand' = None
    /\ server' = "exit"
    /\ UNCHANGED <<state, keep_running, status, jobs, nones, running, died,
                   hand, results, bad, sent>>

\* A process that exits waits for its children.
Exit ==
    /\ server = "exit"
    /\ ChildrenEnded
    /\ server' = "exited"
    /\ UNCHANGED <<state, currentAsyncCommand, keep_running, status, parser,
                   processVars, sent>>

Server ==
    \/ \E cached \in Caches : \E broken \in SUBSET (Recipe \ cached) :
            StartParsing(cached, broken)
    \/ ContinueParsing \/ LoadCached \/ TakeResult \/ ParsingFailed
    \/ ParsingEnds \/ PutNone \/ Joined
    \/ RunMethod \/ LeaveLoop \/ LastIdle \/ Exit
-----------------------------------------------------------------------------
(* The Feeder and Parser processes.                                        *)

serverVars == <<state, currentAsyncCommand, server, keep_running, status,
                parser, sent>>

FeederQuits ==
    /\ feeder.running
    /\ feeder.hand = {}
    /\ feeder.quit \/ feeder.jobs = {}
    /\ feeder' = [feeder EXCEPT !.running = FALSE]
    /\ UNCHANGED <<serverVars, jobs, nones, running, died, hand, results,
                   parser_quit, bad>>

FeederPops ==
    /\ feeder.running /\ feeder.hand = {}
    /\ \E r \in feeder.jobs :
            feeder' = [feeder EXCEPT !.jobs = @ \ {r}, !.hand = {r}]
    /\ UNCHANGED <<serverVars, jobs, nones, running, died, hand, results,
                   parser_quit, bad>>

\* For a mutant: a job is lost when the queue is full.
FeederPuts_Lost ==
    /\ feeder.running /\ feeder.hand # {}
    /\ jobs' = IF HasRoom THEN jobs \cup feeder.hand ELSE jobs
    /\ feeder' = [feeder EXCEPT !.hand = {}]
    /\ UNCHANGED <<serverVars, nones, running, died, hand, results, parser_quit,
                   bad>>

\* For a mutant: the job goes back in either case.
FeederPuts_Twice ==
    /\ feeder.running /\ feeder.hand # {}
    /\ jobs' = IF HasRoom THEN jobs \cup feeder.hand ELSE jobs
    /\ feeder' = [feeder EXCEPT !.hand = {}, !.jobs = @ \cup feeder.hand]
    /\ UNCHANGED <<serverVars, nones, running, died, hand, results, parser_quit,
                   bad>>

\* The queue has room within half a second, or the job goes back.
FeederPuts ==
    /\ feeder.running /\ feeder.hand # {}
    /\ IF HasRoom
       THEN /\ jobs' = jobs \cup feeder.hand
            /\ feeder' = [feeder EXCEPT !.hand = {}]
       ELSE /\ feeder' = [feeder EXCEPT !.hand = {}, !.jobs = @ \cup feeder.hand]
            /\ UNCHANGED jobs
    /\ UNCHANGED <<serverVars, nones, running, died, hand, results, parser_quit,
                   bad>>

ParserGets(p) ==
    /\ p \in running /\ hand[p] = {}
    /\ \E r \in jobs :
        /\ jobs' = jobs \ {r}
        /\ hand' = [hand EXCEPT ![p] = {r}]
    /\ UNCHANGED <<serverVars, feeder, nones, running, died, results,
                   parser_quit, bad>>

ParserPuts(p) ==
    /\ p \in running /\ hand[p] # {}
    /\ results' = results \cup hand[p]
    /\ hand' = [hand EXCEPT ![p] = {}]
    /\ UNCHANGED <<serverVars, feeder, jobs, nones, running, died, parser_quit,
                   bad>>

\* None in the job queue, or a message in parser_quit.
ParserQuits(p) ==
    /\ p \in running /\ hand[p] = {}
    /\ \/ parser_quit > 0 /\ parser_quit' = parser_quit - 1 /\ UNCHANGED nones
       \/ nones > 0 /\ nones' = nones - 1 /\ UNCHANGED parser_quit
    /\ running' = running \ {p}
    /\ UNCHANGED <<serverVars, feeder, jobs, died, hand, results, bad>>

\* A process is killed over a recipe.
Die(p) ==
    /\ p \in running /\ hand[p] # {}
    /\ Cardinality(died) < MaxDeaths
    /\ running' = running \ {p}
    /\ died' = died \cup {p}
    /\ hand' = [hand EXCEPT ![p] = {}]
    /\ UNCHANGED <<serverVars, feeder, jobs, nones, results, parser_quit, bad>>

Feeder == FeederQuits \/ FeederPops \/ FeederPuts

Parser(p) == ParserGets(p) \/ ParserPuts(p) \/ ParserQuits(p)

Next ==
    \/ Client
    \/ Server
    \/ Feeder
    \/ \E p \in Process : Parser(p) \/ Die(p)

Spec == Init /\ [][Next]_vars

\* The server and the processes go on, and the feeder, which looks at its quit
\* queue in every round, finds the message there some time.
FairSpec ==
    /\ Spec
    /\ WF_vars(Server)
    /\ WF_vars(Feeder) /\ SF_vars(FeederQuits)
    /\ \A p \in Process : WF_vars(Parser(p))
-----------------------------------------------------------------------------
(* Properties.                                                             *)

\* Every variable keeps its type.
ParseType ==
    /\ state \in {"initial", "parsing", "running", "shutdown", "stop"}
    /\ currentAsyncCommand \in Commands \cup {None}
    /\ server \in {"loop", "next", "put", "join", "lastidle", "exit", "exited"}
    /\ status \subseteq Recipe
    /\ parser \in [haveshutdown : BOOLEAN, fromcache : SUBSET Recipe,
                   willparse : SUBSET Recipe, parsed : Nat, raised : BOOLEAN,
                   told : 0..num_processes]
    /\ feeder \in [running : BOOLEAN, quit : BOOLEAN, jobs : SUBSET Recipe,
                   hand : SUBSET Recipe]
    /\ jobs \subseteq Recipe /\ results \subseteq Recipe
    /\ hand \in [Process -> SUBSET Recipe]
    /\ nones \in Nat /\ parser_quit \in Nat
    /\ running \subseteq Process

\* A recipe that is being parsed is in one place at most, and not in status yet.
OnTheWay ==
    LET left == parser.willparse \ status IN
    /\ feeder.jobs \subseteq left
    /\ feeder.hand \subseteq left \ feeder.jobs
    /\ jobs \subseteq left \ (feeder.jobs \cup feeder.hand)
    /\ results \subseteq left \ (feeder.jobs \cup feeder.hand \cup jobs)
    /\ \A p \in Process :
        /\ hand[p] \subseteq
                left \ (feeder.jobs \cup feeder.hand \cup jobs \cup results)
        /\ \A q \in Process \ {p} : hand[p] \cap hand[q] = {}

\* What has been counted, and is in status, when the cooker goes on.
Counted ==
    /\ parser.fromcache \cap parser.willparse = {}
    /\ parser.parsed = Cardinality(parser.willparse \cap status)
    /\ state \in {"parsing", "running"} =>
            Recipe \subseteq parser.willparse \cup parser.fromcache \cup status
    /\ server \in {"next", "put", "join"} => state = "parsing"
    /\ server \in {"put", "join"} \/ state = "running" =>
            /\ parser.fromcache = {}
            /\ parser.raised \/ parser.parsed >= toparse

\* Who has been told to end, or is about to be.
ShutDown ==
    /\ parser.willparse = {} => running = {} /\ ~feeder.running
    /\ parser.haveshutdown =>
        /\ feeder.quit
        /\ Cardinality(running) <= parser_quit + nones
                + (IF server = "put" THEN num_processes - parser.told ELSE 0)
    /\ ~parser.haveshutdown => parser.told = 0
    /\ server \in {"put", "join"} => parser.haveshutdown
    /\ server \in {"next", "put", "join"} => Busy
    /\ server = "put" => parser.told < num_processes
    /\ server = "lastidle" => state = "stop"
    /\ ~Busy \/ state = "running" => parser.willparse = {} \/ parser.haveshutdown

\* The inductive invariant, where every command updates the cache first.
ParseInv == ParseType /\ OnTheWay /\ Counted /\ ShutDown

\* Unless parsing has failed, commands run only on the whole set of recipes:
\* none is lost or counted twice between the processes, and the server does
\* not stop waiting early.
AllParsed == state = "running" /\ ~parser.raised => status = Recipe

\* Between commands no process is left that has not been told to end, however
\* the last command ended.
NoOrphans ==
    ~Busy =>
        /\ Cardinality(running) <= parser_quit + nones
        /\ feeder.running => feeder.quit

\* An asynchronous command ends, whether parsing succeeds, fails or is stopped,
\* unless a parser process is killed: the server waits for its result for ever.
CommandEnds == Busy ~> ~Busy \/ died # {}

\* Whenever the client ends the server, the server ends, and its children.
ServerExits == ~keep_running ~> server = "exited" \/ died # {}
=============================================================================
