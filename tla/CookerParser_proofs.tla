------------------------ MODULE CookerParser_proofs ------------------------
(***************************************************************************)
(* Theorems about CookerParser, for any numbers of recipes, processes,     *)
(* commands, resets and killed processes: ParseInv is inductive where      *)
(* every command updates the cache first, and gives AllParsed and          *)
(* NoOrphans.                                                              *)
(***************************************************************************)
EXTENDS CookerParser, FiniteSetTheorems, TLAPS

\* Subsets of Recipe and of Process are finite, and have a size.
LEMMA Sizes ==
  /\ num_processes \in Nat \ {0}
  /\ \A X \in SUBSET Recipe : IsFiniteSet(X) /\ Cardinality(X) \in Nat
  /\ \A X \in SUBSET Process :
        IsFiniteSet(X) /\ Cardinality(X) \in Nat /\ Cardinality(X) <= num_processes
<1>1. IsFiniteSet(Process) /\ num_processes \in Nat /\ num_processes # 0
  BY CookerAssumption, FS_EmptySet, FS_CardinalityType DEF num_processes
<1>2. \A X \in SUBSET Recipe : IsFiniteSet(X) /\ Cardinality(X) \in Nat
  BY CookerAssumption, FS_Subset, FS_CardinalityType
<1>3. \A X \in SUBSET Process :
        IsFiniteSet(X) /\ Cardinality(X) \in Nat /\ Cardinality(X) <= num_processes
  BY <1>1, FS_Subset, FS_CardinalityType DEF num_processes
<1> QED
  BY <1>1, <1>2, <1>3

\* One recipe more in status: a recipe to be parsed that was not there counts.
LEMMA OneMore ==
  ASSUME NEW X \in SUBSET Recipe, NEW S \in SUBSET Recipe, NEW r \in Recipe
  PROVE  Cardinality(X \cap (S \cup {r})) =
            IF r \in X \ S THEN Cardinality(X \cap S) + 1 ELSE Cardinality(X \cap S)
<1>1. IsFiniteSet(X \cap S)
  BY Sizes
<1>2. CASE r \in X \ S
  <2>1. X \cap (S \cup {r}) = (X \cap S) \cup {r}
    BY <1>2
  <2> QED
    BY <1>1, <1>2, <2>1, FS_AddElement
<1>3. CASE r \notin X \ S
  <2>1. X \cap (S \cup {r}) = X \cap S
    BY <1>3
  <2> QED
    BY <1>3, <2>1
<1> QED
  BY <1>2, <1>3

\* One process less that runs.
LEMMA OneLess ==
  ASSUME NEW X \in SUBSET Process, NEW p \in X
  PROVE  Cardinality(X \ {p}) = Cardinality(X) - 1
BY Sizes, FS_RemoveElement

\* Every value keeps its type.
LEMMA TypeStep ==
  ASSUME ParseType, Counted, ShutDown, [Next]_vars
  PROVE  ParseType'
<1> USE DEF ParseType
<1>0. num_processes \in Nat /\ num_processes # 0
  BY Sizes
<1>1. CASE \E c \in Commands : AsyncCommand(c)
  BY <1>0, <1>1 DEF AsyncCommand, Listening, processVars, Counted, ShutDown, Busy, UpdatesCache
<1>2. CASE \E s \in {"shutdown", "stop"} : Request(s)
  BY <1>0, <1>2 DEF Request, Listening, processVars, Counted, ShutDown, Busy, UpdatesCache
<1>3. CASE Reset
  BY <1>0, <1>3 DEF Reset, Listening, processVars, Counted, ShutDown, Busy, UpdatesCache
<1>4. CASE Terminate
  BY <1>0, <1>4 DEF Terminate, processVars, Counted, ShutDown, Busy, UpdatesCache
<1>5. CASE \E cached \in Caches : \E broken \in SUBSET (Recipe \ cached) :
                StartParsing(cached, broken)
  <2> PICK cached \in Caches : \E broken \in SUBSET (Recipe \ cached) :
        StartParsing(cached, broken)
    BY <1>5
  <2> PICK broken \in SUBSET (Recipe \ cached) : StartParsing(cached, broken)
    OBVIOUS
  <2>1. cached \in SUBSET Recipe
    BY CookerAssumption
  <2>2. parser' \in [haveshutdown : BOOLEAN, fromcache : SUBSET Recipe,
                    willparse : SUBSET Recipe, parsed : Nat, raised : BOOLEAN,
                    told : 0..num_processes]
    <3>1. 0 \in 0..num_processes
      BY <1>0
    <3>2. parser' = [haveshutdown |-> FALSE, fromcache |-> cached,
                     willparse |-> Recipe \ cached, parsed |-> 0, raised |-> FALSE,
                     told |-> 0]
      BY DEF StartParsing, NoParser
    <3> QED
      BY <2>1, <3>1, <3>2
  <2>3. feeder' \in [running : BOOLEAN, quit : BOOLEAN, jobs : SUBSET Recipe,
                    hand : SUBSET Recipe]
    BY <2>1 DEF StartParsing, NoFeeder
  <2> QED
    BY <2>1, <2>2, <2>3 DEF StartParsing, Listening, Busy
<1>6. CASE ContinueParsing
  BY <1>0, <1>6 DEF ContinueParsing, Listening, processVars, Counted, ShutDown, Busy, UpdatesCache
<1>7. CASE LoadCached
  BY <1>0, <1>7 DEF LoadCached, processVars, Counted, ShutDown, Busy, UpdatesCache
<1>8. CASE TakeResult
  BY <1>0, <1>8 DEF TakeResult, NextResult, Exhausted, processVars, Counted, ShutDown, Busy, UpdatesCache
<1>9. CASE ParsingFailed
  BY <1>0, <1>9 DEF ParsingFailed, NextResult, Exhausted, processVars, Counted, ShutDown, Busy, UpdatesCache
<1>10. CASE ParsingEnds
  BY <1>0, <1>10 DEF ParsingEnds, Exhausted, processVars, Counted, ShutDown, Busy, UpdatesCache
<1>11. CASE PutNone
  BY <1>0, <1>11 DEF PutNone, processVars, Counted, ShutDown, Busy, UpdatesCache
<1>12. CASE Joined
  BY <1>0, <1>12 DEF Joined, processVars, Counted, ShutDown, Busy, UpdatesCache
<1>13. CASE RunMethod
  BY <1>0, <1>13 DEF RunMethod, Method, Abandon, Listening, processVars, Counted, ShutDown, Busy, UpdatesCache
<1>14. CASE LeaveLoop
  BY <1>0, <1>14 DEF LeaveLoop, processVars, Counted, ShutDown, Busy, UpdatesCache
<1>15. CASE LastIdle
  BY <1>0, <1>15 DEF LastIdle, Method, Abandon, processVars, Counted, ShutDown, Busy, UpdatesCache
<1>16. CASE Exit
  BY <1>0, <1>16 DEF Exit, processVars, Counted, ShutDown, Busy, UpdatesCache
<1>17. CASE FeederQuits
  BY <1>0, <1>17 DEF FeederQuits, serverVars, Counted, ShutDown, Busy, UpdatesCache
<1>18. CASE FeederPops
  <2> PICK r \in feeder.jobs : feeder' = [feeder EXCEPT !.jobs = @ \ {r}, !.hand = {r}]
    BY <1>18 DEF FeederPops
  <2>1. feeder' \in [running : BOOLEAN, quit : BOOLEAN, jobs : SUBSET Recipe,
                    hand : SUBSET Recipe]
    BY Zenon
  <2> QED
    BY <1>18, <2>1 DEF FeederPops, serverVars
<1>19. CASE FeederPuts
  <2>1. feeder' \in [running : BOOLEAN, quit : BOOLEAN, jobs : SUBSET Recipe,
                    hand : SUBSET Recipe]
    <3>1. \/ feeder' = [feeder EXCEPT !.hand = {}]
          \/ feeder' = [feeder EXCEPT !.hand = {}, !.jobs = @ \cup feeder.hand]
      BY <1>19 DEF FeederPuts
    <3> QED
      BY <3>1
  <2>2. jobs' \subseteq Recipe
    BY <1>19 DEF FeederPuts
  <2> QED
    BY <1>19, <2>1, <2>2 DEF FeederPuts, serverVars
<1>20. CASE \E p \in Process : ParserGets(p)
  BY <1>0, <1>20 DEF ParserGets, serverVars, Counted, ShutDown, Busy, UpdatesCache
<1>21. CASE \E p \in Process : ParserPuts(p)
  BY <1>0, <1>21 DEF ParserPuts, serverVars, Counted, ShutDown, Busy, UpdatesCache
<1>22. CASE \E p \in Process : ParserQuits(p)
  BY <1>0, <1>22 DEF ParserQuits, serverVars, Counted, ShutDown, Busy, UpdatesCache
<1>23. CASE \E p \in Process : Die(p)
  BY <1>0, <1>23 DEF Die, serverVars, Counted, ShutDown, Busy, UpdatesCache
<1>24. CASE UNCHANGED vars
  BY <1>0, <1>24 DEF vars, processVars, Counted, ShutDown, Busy, UpdatesCache
<1> QED
  BY <1>1, <1>2, <1>3, <1>4, <1>5, <1>6, <1>7, <1>8, <1>9, <1>10, <1>11, <1>12, <1>13, <1>14, <1>15, <1>16, <1>17, <1>18, <1>19, <1>20, <1>21, <1>22, <1>23, <1>24
  DEF Next, Client, Server, Feeder, Parser

\* No recipe is lost into two places.
LEMMA PlacesStep ==
  ASSUME ParseType, OnTheWay, Counted, [Next]_vars
  PROVE  OnTheWay'
<1> USE DEF ParseType, OnTheWay
<1>0. num_processes \in Nat /\ num_processes # 0
  BY Sizes
<1>1. CASE \E c \in Commands : AsyncCommand(c)
  BY <1>0, <1>1 DEF AsyncCommand, Listening, processVars, Counted
<1>2. CASE \E s \in {"shutdown", "stop"} : Request(s)
  BY <1>0, <1>2 DEF Request, Listening, processVars, Counted
<1>3. CASE Reset
  BY <1>0, <1>3 DEF Reset, Listening, processVars, Counted
<1>4. CASE Terminate
  BY <1>0, <1>4 DEF Terminate, processVars, Counted
<1>5. CASE \E cached \in Caches : \E broken \in SUBSET (Recipe \ cached) :
                StartParsing(cached, broken)
  BY <1>0, <1>5 DEF StartParsing, NoParser, NoFeeder, Listening, serverVars, Counted
<1>6. CASE ContinueParsing
  BY <1>0, <1>6 DEF ContinueParsing, Listening, processVars, Counted
<1>7. CASE LoadCached
  BY <1>0, <1>7 DEF LoadCached, processVars, Counted
<1>8. CASE TakeResult
  BY <1>0, <1>8 DEF TakeResult, NextResult, Exhausted, processVars, Counted
<1>9. CASE ParsingFailed
  BY <1>0, <1>9 DEF ParsingFailed, NextResult, Exhausted, processVars, Counted
<1>10. CASE ParsingEnds
  BY <1>0, <1>10 DEF ParsingEnds, Exhausted, processVars, Counted
<1>11. CASE PutNone
  BY <1>0, <1>11 DEF PutNone, processVars, Counted
<1>12. CASE Joined
  BY <1>0, <1>12 DEF Joined, processVars, Counted
<1>13. CASE RunMethod
  BY <1>0, <1>13 DEF RunMethod, Method, Abandon, Listening, processVars, Counted
<1>14. CASE LeaveLoop
  BY <1>0, <1>14 DEF LeaveLoop, processVars, Counted
<1>15. CASE LastIdle
  BY <1>0, <1>15 DEF LastIdle, Method, Abandon, processVars, Counted
<1>16. CASE Exit
  BY <1>0, <1>16 DEF Exit, processVars, Counted
<1>17. CASE FeederQuits
  BY <1>0, <1>17 DEF FeederQuits, serverVars, Counted
<1>18. CASE FeederPops
  BY <1>0, <1>18 DEF FeederPops, serverVars, Counted
<1>19. CASE FeederPuts
  <2>1. CASE HasRoom
    <3>1. feeder' = [feeder EXCEPT !.hand = {}] /\ jobs' = jobs \cup feeder.hand
      BY <1>19, <2>1 DEF FeederPuts
    <3> QED
      BY <1>19, <3>1 DEF FeederPuts, serverVars
  <2>2. CASE ~HasRoom
    <3>1. /\ feeder' = [feeder EXCEPT !.hand = {}, !.jobs = @ \cup feeder.hand]
          /\ jobs' = jobs
      BY <1>19, <2>2 DEF FeederPuts
    <3> QED
      BY <1>19, <3>1 DEF FeederPuts, serverVars
  <2> QED
    BY <2>1, <2>2
<1>20. CASE \E p \in Process : ParserGets(p)
  BY <1>0, <1>20 DEF ParserGets, serverVars, Counted
<1>21. CASE \E p \in Process : ParserPuts(p)
  BY <1>0, <1>21 DEF ParserPuts, serverVars, Counted
<1>22. CASE \E p \in Process : ParserQuits(p)
  BY <1>0, <1>22 DEF ParserQuits, serverVars, Counted
<1>23. CASE \E p \in Process : Die(p)
  BY <1>0, <1>23 DEF Die, serverVars, Counted
<1>24. CASE UNCHANGED vars
  BY <1>0, <1>24 DEF vars, processVars, Counted
<1> QED
  BY <1>1, <1>2, <1>3, <1>4, <1>5, <1>6, <1>7, <1>8, <1>9, <1>10, <1>11, <1>12, <1>13, <1>14, <1>15, <1>16, <1>17, <1>18, <1>19, <1>20, <1>21, <1>22, <1>23, <1>24
  DEF Next, Client, Server, Feeder, Parser

\* The count is that of the recipes in status, and parsing ends with all of them.
LEMMA CountedStep ==
  ASSUME ParseType, OnTheWay, Counted, ShutDown, [Next]_vars
  PROVE  Counted'
<1> USE DEF ParseType, Counted, toparse
<1>0. num_processes \in Nat /\ num_processes # 0
  BY Sizes
<1>1. CASE \E c \in Commands : AsyncCommand(c)
  BY <1>0, <1>1 DEF AsyncCommand, Listening, processVars, ShutDown, Busy
<1>2. CASE \E s \in {"shutdown", "stop"} : Request(s)
  BY <1>0, <1>2 DEF Request, Listening, processVars, ShutDown, Busy
<1>3. CASE Reset
  BY <1>0, <1>3 DEF Reset, Listening, processVars, ShutDown, Busy
<1>4. CASE Terminate
  BY <1>0, <1>4 DEF Terminate, processVars, ShutDown, Busy
<1>5. CASE \E cached \in Caches : \E broken \in SUBSET (Recipe \ cached) :
                StartParsing(cached, broken)
  <2>1. parser'.willparse \cap status' = {} /\ parser'.parsed = 0
    BY <1>5 DEF StartParsing, NoParser
  <2>2. parser'.parsed = Cardinality(parser'.willparse \cap status')
    BY <2>1, FS_EmptySet
  <2> QED
    BY <1>5, <2>2 DEF StartParsing, NoParser
<1>6. CASE ContinueParsing
  BY <1>0, <1>6 DEF ContinueParsing, Listening, processVars, ShutDown, Busy
<1>7. CASE LoadCached
  BY <1>0, <1>7 DEF LoadCached, processVars, ShutDown, Busy
<1>8. CASE TakeResult
  <2> PICK r \in Recipe \ bad :
        /\ NextResult(r)
        /\ status' = status \cup {r}
        /\ parser' = [parser EXCEPT !.parsed = @ + 1]
        /\ UNCHANGED state
    BY <1>8 DEF TakeResult
  <2>1. r \in parser.willparse \ status
    BY DEF NextResult, OnTheWay
  <2>2. parser'.parsed = Cardinality(parser'.willparse \cap status')
    BY <2>1, OneMore
  <2> QED
    BY <2>2 DEF NextResult
<1>9. CASE ParsingFailed
  BY <1>0, <1>9 DEF ParsingFailed, NextResult, Exhausted, processVars, ShutDown, Busy
<1>10. CASE ParsingEnds
  BY <1>0, <1>10 DEF ParsingEnds, Exhausted, processVars, ShutDown, Busy
<1>11. CASE PutNone
  BY <1>0, <1>11 DEF PutNone, processVars, ShutDown, Busy
<1>12. CASE Joined
  BY <1>0, <1>12 DEF Joined, processVars, ShutDown, Busy
<1>13. CASE RunMethod
  BY <1>0, <1>13 DEF RunMethod, Method, Abandon, Listening, processVars, ShutDown, Busy
<1>14. CASE LeaveLoop
  BY <1>0, <1>14 DEF LeaveLoop, processVars, ShutDown, Busy
<1>15. CASE LastIdle
  BY <1>0, <1>15 DEF LastIdle, Method, Abandon, processVars, ShutDown, Busy
<1>16. CASE Exit
  BY <1>0, <1>16 DEF Exit, processVars, ShutDown, Busy
<1>17. CASE FeederQuits
  BY <1>0, <1>17 DEF FeederQuits, serverVars, ShutDown, Busy
<1>18. CASE FeederPops
  BY <1>0, <1>18 DEF FeederPops, serverVars, ShutDown, Busy
<1>19. CASE FeederPuts
  BY <1>0, <1>19 DEF FeederPuts, serverVars, ShutDown, Busy
<1>20. CASE \E p \in Process : ParserGets(p)
  BY <1>0, <1>20 DEF ParserGets, serverVars, ShutDown, Busy
<1>21. CASE \E p \in Process : ParserPuts(p)
  BY <1>0, <1>21 DEF ParserPuts, serverVars, ShutDown, Busy
<1>22. CASE \E p \in Process : ParserQuits(p)
  BY <1>0, <1>22 DEF ParserQuits, serverVars, ShutDown, Busy
<1>23. CASE \E p \in Process : Die(p)
  BY <1>0, <1>23 DEF Die, serverVars, ShutDown, Busy
<1>24. CASE UNCHANGED vars
  BY <1>0, <1>24 DEF vars, processVars, ShutDown, Busy
<1> QED
  BY <1>1, <1>2, <1>3, <1>4, <1>5, <1>6, <1>7, <1>8, <1>9, <1>10, <1>11, <1>12, <1>13, <1>14, <1>15, <1>16, <1>17, <1>18, <1>19, <1>20, <1>21, <1>22, <1>23, <1>24
  DEF Next, Client, Server, Feeder, Parser

\* Abandon tells everybody, unless that has been done or there is nobody.
LEMMA Told ==
  ASSUME ParseType, ShutDown, Abandon
  PROVE  /\ parser'.willparse = {} \/ parser'.haveshutdown
         /\ UNCHANGED <<running, nones>> =>
              /\ parser'.willparse = {} => running' = {} /\ ~feeder'.running
              /\ parser'.haveshutdown /\ server # "put" =>
                    /\ feeder'.quit
                    /\ Cardinality(running') <= parser_quit' + nones'
         /\ parser'.told = parser.told
         /\ parser.haveshutdown => parser'.haveshutdown
<1> USE DEF ParseType, ShutDown
<1>1. /\ num_processes \in Nat
      /\ Cardinality(running) \in Nat /\ Cardinality(running) <= num_processes
  BY Sizes
<1>2. toparse = 0 => parser.willparse = {}
  BY Sizes, FS_EmptySet DEF toparse
<1>3. CASE toparse = 0 \/ parser.haveshutdown
  BY <1>1, <1>2, <1>3 DEF Abandon
<1>4. CASE ~(toparse = 0 \/ parser.haveshutdown)
  BY <1>1, <1>4 DEF Abandon
<1> QED
  BY <1>3, <1>4

\* Whoever runs has been told, or a command is active that will tell it.
LEMMA ShutDownStep ==
  ASSUME Commands = UpdatesCache, ParseType, Counted, ShutDown, [Next]_vars
  PROVE  ShutDown'
<1> USE DEF ParseType, ShutDown, Busy
<1>0. num_processes \in Nat /\ num_processes # 0
  BY Sizes
<1>1. CASE \E c \in Commands : AsyncCommand(c)
  BY <1>0, <1>1 DEF AsyncCommand, Listening, processVars, Counted
<1>2. CASE \E s \in {"shutdown", "stop"} : Request(s)
  BY <1>0, <1>2 DEF Request, Listening, processVars, Counted
<1>3. CASE Reset
  BY <1>0, <1>3 DEF Reset, Listening, processVars, Counted
<1>4. CASE Terminate
  BY <1>0, <1>4 DEF Terminate, processVars, Counted
<1>5. CASE \E cached \in Caches : \E broken \in SUBSET (Recipe \ cached) :
                StartParsing(cached, broken)
  <2> PICK cached \in Caches : \E broken \in SUBSET (Recipe \ cached) :
        StartParsing(cached, broken)
    BY <1>5
  <2> PICK broken \in SUBSET (Recipe \ cached) : StartParsing(cached, broken)
    OBVIOUS
  <2>1. cached \in SUBSET Recipe
    BY CookerAssumption
  <2>2. parser'.willparse = {} => cached = Recipe
    BY <2>1 DEF StartParsing, NoParser
  <2> QED
    BY <2>2 DEF StartParsing, NoParser, NoFeeder
<1>6. CASE ContinueParsing
  BY <1>0, <1>6 DEF ContinueParsing, Listening, processVars, Counted
<1>7. CASE LoadCached
  BY <1>0, <1>7 DEF LoadCached, processVars, Counted
<1>8. CASE TakeResult
  BY <1>0, <1>8 DEF TakeResult, NextResult, Exhausted, processVars, Counted
<1>9. CASE ParsingFailed
  <2>1. Cardinality(running) <= num_processes /\ Cardinality(running) \in Nat
    BY Sizes
  <2> QED
    BY <1>0, <1>9, <2>1 DEF ParsingFailed, NextResult, Counted
<1>10. CASE ParsingEnds
  <2>1. Cardinality(running) <= num_processes /\ Cardinality(running) \in Nat
    BY Sizes
  <2>2. toparse = 0 => parser.willparse = {}
    BY Sizes, FS_EmptySet DEF toparse
  <2>3. CASE toparse = 0 \/ parser.haveshutdown
    BY <1>0, <1>10, <2>2, <2>3 DEF ParsingEnds
  <2>4. CASE ~(toparse = 0 \/ parser.haveshutdown)
    BY <1>0, <1>10, <2>1, <2>4 DEF ParsingEnds, Counted
  <2> QED
    BY <2>3, <2>4
<1>11. CASE PutNone
  BY <1>0, <1>11 DEF PutNone, processVars, Counted
<1>12. CASE Joined
  BY <1>0, <1>12 DEF Joined, processVars, Counted
<1>13. CASE RunMethod
  <2>1. CASE state \in {"shutdown", "stop"}
    <3>1. Abandon
      BY <1>13, <2>1 DEF RunMethod, Method
    <3>2. running' = running /\ nones' = nones /\ server \notin {"put", "join"}
      BY <1>13 DEF RunMethod, Listening
    <3>3. /\ parser'.willparse = {} => running' = {} /\ ~feeder'.running
          /\ parser'.haveshutdown =>
                feeder'.quit /\ Cardinality(running') <= parser_quit' + nones'
          /\ parser'.willparse = {} \/ parser'.haveshutdown
          /\ ~parser'.haveshutdown => parser'.told = 0
      BY <3>1, <3>2, Told DEF ShutDown
    <3>4. Cardinality(running') \in Nat /\ parser_quit' + nones' \in Nat
      BY <3>2, TypeStep, Sizes DEF ParseType
    <3> QED
      BY <1>13, <3>2, <3>3, <3>4 DEF RunMethod, Listening
  <2>2. CASE state = "running"
    BY <1>13, <2>2 DEF RunMethod, Method, Listening
  <2> QED
    BY <1>13, <2>1, <2>2 DEF RunMethod
<1>14. CASE LeaveLoop
  BY <1>0, <1>14 DEF LeaveLoop, processVars, Counted
<1>15. CASE LastIdle
  <2>1. CASE Busy
    <3>1. Abandon
      BY <1>15, <2>1 DEF LastIdle, Method
    <3>2. running' = running /\ nones' = nones /\ server \notin {"put", "join"}
      BY <1>15 DEF LastIdle
    <3>3. /\ parser'.willparse = {} => running' = {} /\ ~feeder'.running
          /\ parser'.haveshutdown =>
                feeder'.quit /\ Cardinality(running') <= parser_quit' + nones'
          /\ parser'.willparse = {} \/ parser'.haveshutdown
          /\ ~parser'.haveshutdown => parser'.told = 0
      BY <3>1, <3>2, Told DEF ShutDown
    <3>4. Cardinality(running') \in Nat /\ parser_quit' + nones' \in Nat
      BY <3>2, TypeStep, Sizes DEF ParseType
    <3> QED
      BY <1>15, <3>2, <3>3, <3>4 DEF LastIdle
  <2>2. CASE ~Busy
    BY <1>15, <2>2 DEF LastIdle
  <2> QED
    BY <2>1, <2>2
<1>16. CASE Exit
  BY <1>0, <1>16 DEF Exit, processVars, Counted
<1>17. CASE FeederQuits
  BY <1>0, <1>17 DEF FeederQuits, serverVars, Counted
<1>18. CASE FeederPops
  BY <1>0, <1>18 DEF FeederPops, serverVars, Counted
<1>19. CASE FeederPuts
  BY <1>0, <1>19 DEF FeederPuts, serverVars, Counted
<1>20. CASE \E p \in Process : ParserGets(p)
  BY <1>0, <1>20 DEF ParserGets, serverVars, Counted
<1>21. CASE \E p \in Process : ParserPuts(p)
  BY <1>0, <1>21 DEF ParserPuts, serverVars, Counted
<1>22. CASE \E p \in Process : ParserQuits(p)
  <2> PICK p \in running :
        /\ \/ parser_quit > 0 /\ parser_quit' = parser_quit - 1 /\ UNCHANGED nones
           \/ nones > 0 /\ nones' = nones - 1 /\ UNCHANGED parser_quit
        /\ running' = running \ {p}
        /\ UNCHANGED <<state, currentAsyncCommand, server, parser, feeder>>
    BY <1>22 DEF ParserQuits, serverVars
  <2>1. Cardinality(running') = Cardinality(running) - 1
    BY OneLess
  <2>2. Cardinality(running) \in Nat
    BY Sizes
  <2> QED
    BY <1>0, <2>1, <2>2
<1>23. CASE \E p \in Process : Die(p)
  <2> PICK p \in running :
        /\ running' = running \ {p}
        /\ UNCHANGED <<state, currentAsyncCommand, server, parser, feeder, nones,
                      parser_quit>>
    BY <1>23 DEF Die, serverVars
  <2>1. Cardinality(running') = Cardinality(running) - 1
    BY OneLess
  <2>2. Cardinality(running) \in Nat
    BY Sizes
  <2> QED
    BY <1>0, <2>1, <2>2
<1>24. CASE UNCHANGED vars
  BY <1>0, <1>24 DEF vars, processVars, Counted
<1> QED
  BY <1>1, <1>2, <1>3, <1>4, <1>5, <1>6, <1>7, <1>8, <1>9, <1>10, <1>11, <1>12, <1>13, <1>14, <1>15, <1>16, <1>17, <1>18, <1>19, <1>20, <1>21, <1>22, <1>23, <1>24
  DEF Next, Client, Server, Feeder, Parser

\* ParseInv is an invariant where every command updates the cache first: a
\* recipe is in one place at a time, the count is that of the recipes parsed,
\* and whoever runs has been told to end or a command is active that will tell
\* it.  (compareRevisions and reparseFiles break the last of these.)
THEOREM ParseInvariance ==
  ASSUME Commands = UpdatesCache
  PROVE  Spec => []ParseInv
<1>1. Init => ParseInv
  <2> SUFFICES ASSUME Init PROVE ParseInv
    OBVIOUS
  <2>1. parser.willparse = {} /\ Cardinality({}) = 0
    BY FS_EmptySet DEF Init, NoParser
  <2>2. 0 \in 0..num_processes
    BY Sizes
  <2>3. ParseType
    BY <2>2 DEF Init, NoParser, NoFeeder, ParseType
  <2>4. OnTheWay
    BY DEF Init, NoParser, NoFeeder, OnTheWay
  <2>5. parser.willparse \cap status = {}
    BY <2>1
  <2>6. Counted
    BY <2>1, <2>5 DEF Init, NoParser, Counted
  <2>7. ShutDown
    BY DEF Init, NoParser, NoFeeder, ShutDown, Busy
  <2> QED
    BY <2>3, <2>4, <2>6, <2>7 DEF ParseInv
<1>2. ParseInv /\ [Next]_vars => ParseInv'
  BY TypeStep, PlacesStep, CountedStep, ShutDownStep DEF ParseInv
<1> QED
  BY <1>1, <1>2, PTL DEF Spec

\* The command whose parsing did not fail goes on with every recipe: as many
\* results were counted as recipes were handed out, all of them different.
THEOREM Parsed ==
  ASSUME Commands = UpdatesCache
  PROVE  Spec => []AllParsed
<1>1. ParseInv => AllParsed
  <2> SUFFICES ASSUME ParseInv, state = "running", ~parser.raised
               PROVE  status = Recipe
    BY DEF AllParsed
  <2> DEFINE W == parser.willparse
  <2>1. /\ W \in SUBSET Recipe /\ status \subseteq Recipe
        /\ parser.fromcache = {} /\ Recipe \subseteq W \cup status
        /\ Cardinality(W \cap status) >= Cardinality(W)
    BY DEF ParseInv, ParseType, Counted, toparse
  <2>2. IsFiniteSet(W) /\ Cardinality(W) \in Nat /\ Cardinality(W \cap status) \in Nat
    BY <2>1, Sizes
  <2>3. W \cap status = W
    BY <2>1, <2>2, FS_Subset
  <2> QED
    BY <2>1, <2>3
<1> QED
  BY <1>1, ParseInvariance, PTL

\* No command, ended in whatever way, leaves a process behind that is not told
\* to end.
THEOREM Orphans ==
  ASSUME Commands = UpdatesCache
  PROVE  Spec => []NoOrphans
<1>1. ParseInv => NoOrphans
  <2> SUFFICES ASSUME ParseInv, ~Busy
               PROVE  /\ Cardinality(running) <= parser_quit + nones
                      /\ feeder.running => feeder.quit
    BY DEF NoOrphans
  <2>1. parser_quit \in Nat /\ nones \in Nat /\ Cardinality(running) \in Nat
    BY Sizes DEF ParseInv, ParseType
  <2>2. CASE parser.willparse = {}
    BY <2>1, <2>2, FS_EmptySet DEF ParseInv, ShutDown
  <2>3. CASE parser.haveshutdown
    BY <2>1, <2>3 DEF ParseInv, ShutDown
  <2> QED
    BY <2>2, <2>3 DEF ParseInv, ShutDown
<1> QED
  BY <1>1, ParseInvariance, PTL
=============================================================================
