----------------------- MODULE FunctionIndexingProofs -----------------------
(***************************************************************************)
(* What the workers answer about an app is true, for any apps, settings,   *)
(* placeholders, workers and failures.                                     *)
(*                                                                         *)
(* Neither LoadTruthful nor MetadataTruthful is inductive: they speak of   *)
(* answers, and a worker answers a load from what another worker told the  *)
(* host, and a metadata request from what it kept of its start.  IInv adds *)
(* that the host knows no function that the site has not (Known), and what *)
(* a worker's result says of its registry (Results), and that functions    *)
(* are loaded in workers that work (LoadedIsLive).                         *)
(***************************************************************************)
EXTENDS FunctionIndexing, TLAPS

\* The host knows functions of the site only.
Known == known \subseteq NamesOf(site)

\* A result that is kept is the whole app, and the app is registered; a worker
\* without the site has none; and a worker that was to index the app at its
\* start has done so or keeps the exception.
Sound(c) ==
    /\ c.phase \in {"created", "placeholder"} => c.result = None
    /\ c.result # None => /\ c.result = NamesOf(site)
                          /\ NamesOf(site) \subseteq c.registered
    /\ c.phase = "serving" /\ site.init_indexing = "true" /\ ~c.exception =>
            c.result # None \/ site.app.legacy \/ Functions(site) = <<>>

Results == \A w \in Workers : Sound(worker[w])

\* Functions are loaded in workers that were initialised and did not fail.
LoadedIsLive ==
    \A w \in Workers :
        loaded[w] # {} => worker[w].phase \in {"placeholder", "serving"}

IInv ==
    TypeOK /\ Known /\ Results /\ LoadedIsLive /\ LoadTruthful /\ MetadataTruthful

-----------------------------------------------------------------------------
(* What the operators keep of a worker's state.                            *)

AllSites == Sites \cup Placeholders

Live(c) == c \in WorkerStates /\ c.phase \in {"placeholder", "serving"}

\* d is a state of the worker after c: functions stay registered.
Follows(c, d) ==
    /\ d \in WorkerStates
    /\ d.phase = c.phase
    /\ c.registered \subseteq d.registered

\* d has the same indexing result as c.
Keeps(c, d) == d.result = c.result /\ d.exception = c.exception

\* The result of an app that was indexed to the end.
WholeApp(d, s) ==
    \/ s.app.legacy /\ d.result = None
    \/ /\ ~s.app.legacy
       /\ NamesOf(s) \subseteq d.registered
       /\ \/ Functions(s) = <<>> /\ d.result = None
          \/ Functions(s) # <<>> /\ d.result = NamesOf(s)

Function == [name : STRING, http : HttpKinds, returns : ReturnKinds, defect : Defects]

LEMMA SitesFunctions ==
    ASSUME NEW s \in AllSites
    PROVE  /\ IsSite(s)
           /\ Functions(s) \in Seq(Function)
           /\ NamesOf(s) \subseteq AllNames
           /\ \A i \in DOMAIN Functions(s) : Functions(s)[i].name \in AllNames
<1>1. IsSite(s)
    BY SitesAreSites DEF AllSites
<1>2. Functions(s) \in Seq(Function)
    BY <1>1 DEF IsSite, Functions, Function
<1>3. NamesOf(s) \subseteq AllNames
    BY DEF AllNames, AllSites
<1>4. \A i \in DOMAIN Functions(s) : Functions(s)[i].name \in AllNames
    BY <1>3 DEF NamesOf
<1> QED
    BY <1>1, <1>2, <1>3, <1>4

LEMMA AskedFollows ==
    ASSUME NEW c, Live(c), NEW s \in AllSites
    PROVE  /\ Live(Asked(c, s)) /\ Follows(c, Asked(c, s)) /\ Keeps(c, Asked(c, s))
           /\ http_v2_enabled(c, s) \in BOOLEAN
<1>1. s.app.base \in BOOLEAN /\ s.app.web \in BOOLEAN
    BY SitesFunctions DEF IsSite
<1>2. http_v2_enabled(c, s) \in BOOLEAN
    BY <1>1 DEF http_v2_enabled, Live, WorkerStates
<1> QED
    BY <1>2 DEF Asked, Live, Follows, Keeps, WorkerStates, Phases

LEMMA ImportingFollows ==
    ASSUME NEW c, Live(c), NEW s \in AllSites
    PROVE  Live(Importing(c, s)) /\ Follows(c, Importing(c, s)) /\ Keeps(c, Importing(c, s))
<1>1. s.app.web \in BOOLEAN
    BY SitesFunctions DEF IsSite
<1> QED
    BY <1>1 DEF Importing, Live, Follows, Keeps, WorkerStates, Phases

\* A failed import leaves the state or imports.
LEMMA FailedImportFollows ==
    ASSUME NEW c, Live(c), NEW s \in AllSites, NEW d \in FailedImport(c, s)
    PROVE  Live(d) /\ Follows(c, d) /\ Keeps(c, d)
<1>1. d = c \/ d = Importing(c, s)
    BY DEF FailedImport
<1>2. CASE d = c
    BY <1>2 DEF Live, Follows, Keeps
<1> QED
    BY <1>1, <1>2, ImportingFollows

\* Registering functions keeps what was registered; without a failure all of
\* them are registered after it, and the first unless it is refused.
LEMMA RegisteredFollows ==
    ASSUME NEW c, Live(c), NEW s \in AllSites,
           NEW fs \in Seq(Function), \A i \in DOMAIN fs : fs[i].name \in AllNames
    PROVE  /\ Live(Registered(fs, c, s))
           /\ Follows(c, Registered(fs, c, s))
           /\ Keeps(c, Registered(fs, c, s))
           /\ (\A i \in DOMAIN fs : ~Fails(fs[i], c, s)) =>
                {fs[i].name : i \in DOMAIN fs} \subseteq Registered(fs, c, s).registered
           /\ fs # <<>> /\ ~Refuses(fs[1], c, s) =>
                fs[1].name \in Registered(fs, c, s).registered
<1> DEFINE reached == {i \in DOMAIN fs : \A j \in 1..(i - 1) : ~Fails(fs[j], c, s)}
           kept == {i \in reached : ~Refuses(fs[i], c, s)}
           names == {fs[i].name : i \in kept}
           after == IF \E i \in reached : Asks(fs[i]) THEN Asked(c, s) ELSE c
<1>1. Registered(fs, c, s) = [after EXCEPT !.registered = @ \cup names]
    BY DEF Registered
<1>2. Live(after) /\ Follows(c, after) /\ Keeps(c, after)
    BY AskedFollows DEF Live, Follows, Keeps
<1>3. names \subseteq AllNames
    OBVIOUS
<1>4. ASSUME \A i \in DOMAIN fs : ~Fails(fs[i], c, s)
      PROVE  {fs[i].name : i \in DOMAIN fs} \subseteq names
  <2>1. DOMAIN fs = 1..Len(fs) /\ Len(fs) \in Nat
    OBVIOUS
  <2>2. \A i \in DOMAIN fs : i \in reached
    BY <1>4, <2>1
  <2> QED
    BY <1>4, <2>2 DEF Fails
<1>6. ASSUME fs # <<>>, ~Refuses(fs[1], c, s)
      PROVE  fs[1].name \in names
  <2>1. 1 \in DOMAIN fs /\ \A j \in 1..(1 - 1) : FALSE
    BY <1>6
  <2> QED
    BY <1>6, <2>1
<1> HIDE DEF names, after
<1>5. /\ [after EXCEPT !.registered = @ \cup names] \in WorkerStates
      /\ [after EXCEPT !.registered = @ \cup names].registered = after.registered \cup names
      /\ [after EXCEPT !.registered = @ \cup names].phase = after.phase
      /\ [after EXCEPT !.registered = @ \cup names].result = after.result
      /\ [after EXCEPT !.registered = @ \cup names].exception = after.exception
    BY <1>2, <1>3 DEF Live, WorkerStates
<1> QED
    BY <1>1, <1>2, <1>4, <1>5, <1>6 DEF Live, Follows, Keeps

\* The ends of an indexing: an exception keeps the result there was, and an
\* indexing without one has registered the whole app.
LEMMA IndexFollows ==
    ASSUME NEW c, Live(c), NEW s \in AllSites,
           NEW end \in load_function_metadata(c, s)
    PROVE  /\ Live(end.state) /\ Follows(c, end.state)
           /\ end.state.exception = c.exception
           /\ end.raised \in BOOLEAN
           /\ end.raised => end.state.result = c.result
           /\ ~end.raised => WholeApp(end.state, s)
<1> DEFINE fs == Functions(s)
           ready == Importing(c, s)
           after == Registered(fs, ready, s)
           named == IF fs = <<>> THEN None ELSE NamesOf(s)
<1>1. CASE ~s.script_valid
  <2>1. end = Raised(c)
    BY <1>1 DEF load_function_metadata
  <2> QED
    BY <2>1 DEF Raised, Follows, Live
<1>2. CASE s.script_valid /\ s.app.legacy
  <2> DEFINE none == [c EXCEPT !.result = None]
  <2>1. end.state = none /\ end.raised = FALSE
    BY <1>2 DEF load_function_metadata, Ended
  <2>2. /\ none \in WorkerStates /\ none.phase = c.phase /\ none.result = None
        /\ none.registered = c.registered /\ none.exception = c.exception
    BY DEF Live, WorkerStates
  <2> HIDE DEF none
  <2> QED
    BY <2>1, <2>2, <1>2 DEF Follows, Live, WholeApp
<1>3. CASE s.script_valid /\ ~s.app.legacy
  <2>1. end \in index_functions(c, s)
    BY <1>3 DEF load_function_metadata
  <2>2. CASE \E d \in FailedImport(c, s) : end = Raised(d)
    BY <2>2, FailedImportFollows DEF Raised, Keeps
  <2>3. /\ Live(ready) /\ Follows(c, ready) /\ Keeps(c, ready)
    BY ImportingFollows
  <2>4. fs \in Seq(Function) /\ \A i \in DOMAIN fs : fs[i].name \in AllNames
    BY SitesFunctions
  <2> HIDE DEF ready, fs
  <2>5. /\ Live(after) /\ Follows(ready, after) /\ Keeps(ready, after)
        /\ (\A i \in DOMAIN fs : ~Fails(fs[i], ready, s)) =>
              {fs[i].name : i \in DOMAIN fs} \subseteq after.registered
    BY <2>3, <2>4, RegisteredFollows
  <2>6. CASE end = Raised(after)
    <3> HIDE DEF after
    <3> QED
      BY <2>3, <2>5, <2>6 DEF Raised, Follows, Keeps
  <2>7. CASE /\ \A i \in DOMAIN fs : ~Fails(fs[i], ready, s)
             /\ end = Ended([after EXCEPT !.result = named])
    <3>1. NamesOf(s) = {fs[i].name : i \in DOMAIN fs}
      BY DEF NamesOf, fs
    <3>2. named \in (SUBSET AllNames) \cup {None}
      BY SitesFunctions DEF fs
    <3>3. fs = Functions(s)
      BY DEF fs
    <3> DEFINE last == [after EXCEPT !.result = named]
    <3> HIDE DEF after, named
    <3>4. /\ last \in WorkerStates /\ last.phase = after.phase
          /\ last.registered = after.registered /\ last.result = named
          /\ last.exception = after.exception
      BY <2>5, <3>2 DEF Live, WorkerStates
    <3>5. end.state = last /\ end.raised = FALSE
      BY <2>7 DEF Ended
    <3> HIDE DEF last
    <3>6. WholeApp(last, s)
      <4>1. (fs = <<>> /\ named = None) \/ (fs # <<>> /\ named = NamesOf(s))
        BY DEF named
      <4> QED
        BY <1>3, <2>5, <2>7, <3>1, <3>3, <3>4, <4>1 DEF WholeApp
    <3> QED
      BY <2>3, <2>5, <3>4, <3>5, <3>6 DEF Follows, Keeps, Live
  <2>8. \/ \E d \in FailedImport(c, s) : end = Raised(d)
        \/ end = Raised(after)
        \/ /\ \A i \in DOMAIN fs : ~Fails(fs[i], ready, s)
           /\ end = Ended([after EXCEPT !.result = named])
    BY <2>1 DEF index_functions, ready, fs
  <2> QED
    BY <2>2, <2>6, <2>7, <2>8
<1> QED
    BY <1>1, <1>2, <1>3

\* Keeping the exception changes nothing else.
LEMMA SavedFollows ==
    ASSUME NEW c, Live(c), NEW s \in AllSites,
           NEW end \in load_function_metadata(c, s)
    PROVE  /\ Live(Saved(end)) /\ Follows(c, Saved(end))
           /\ Saved(end).exception = (c.exception \/ end.raised)
           /\ Saved(end).result = end.state.result
           /\ Saved(end).registered = end.state.registered
<1>1. /\ Live(end.state) /\ Follows(c, end.state)
      /\ end.state.exception = c.exception /\ end.raised \in BOOLEAN
    BY IndexFollows
<1> QED
    BY <1>1 DEF Saved, Live, Follows, WorkerStates

\* What an indexing leaves as a result: the one there was, or the whole app.
LEMMA SavedResult ==
    ASSUME NEW c, Live(c), NEW s \in AllSites,
           NEW end \in load_function_metadata(c, s)
    PROVE  \/ Saved(end).exception /\ Saved(end).result = c.result
           \/ WholeApp(Saved(end), s)
<1>1. CASE end.raised
    BY <1>1, IndexFollows, SavedFollows
<1>2. CASE ~end.raised
    BY <1>2, IndexFollows, SavedFollows DEF WholeApp
<1> QED
    BY <1>1, <1>2, IndexFollows

\* An app indexed to the end stays so.
LEMMA WholeAppKept ==
    ASSUME NEW c, NEW d, NEW s, Follows(c, d), Keeps(c, d), WholeApp(c, s)
    PROVE  WholeApp(d, s)
BY DEF Follows, Keeps, WholeApp

\* An exception kept is nothing but that.
LEMMA SavedRaised ==
    ASSUME NEW c, Live(c)
    PROVE  LET d == Saved(Raised(c)) IN
           /\ Live(d) /\ Follows(c, d) /\ d.result = c.result /\ d.exception = TRUE
<1> DEFINE d == [c EXCEPT !.exception = @ \/ TRUE]
<1>1. Saved(Raised(c)) = d
    BY DEF Saved, Raised
<1>2. d = [c EXCEPT !.exception = TRUE]
    OBVIOUS
<1>3. d \in WorkerStates /\ d.phase = c.phase /\ d.registered = c.registered
      /\ d.result = c.result /\ d.exception = TRUE
    BY <1>2 DEF Live, WorkerStates
<1> HIDE DEF d
<1> QED
    BY <1>1, <1>3 DEF Live, Follows

\* What an initialisation leaves: the app indexed to the end, or the result
\* there was with an exception, unless it was not to index.
LEMMA InitIndexingFollows ==
    ASSUME NEW c, Live(c), NEW s \in AllSites, NEW out \in InitIndexing(c, s)
    PROVE  /\ out.state \in WorkerStates
           /\ out.state.phase \in {c.phase, "failed"}
           /\ c.registered \subseteq out.state.registered
           /\ out.address \in BOOLEAN
           /\ \/ WholeApp(out.state, s)
              \/ out.state.exception /\ out.state.result = c.result
<1>1. CASE \E end \in load_function_metadata(c, s) :
                end.raised /\ out = [state |-> Saved(end), address |-> FALSE]
  <2>1. PICK end \in load_function_metadata(c, s) :
            end.raised /\ out = [state |-> Saved(end), address |-> FALSE]
    BY <1>1
  <2>2. out.state = Saved(end) /\ out.address = FALSE
    BY <2>1
  <2>3. /\ Live(Saved(end)) /\ Follows(c, Saved(end))
        /\ Saved(end).exception = (c.exception \/ end.raised)
        /\ Saved(end).result = end.state.result
    BY SavedFollows
  <2>4. end.state.result = c.result
    BY <2>1, IndexFollows
  <2> QED
    BY <2>1, <2>2, <2>3, <2>4 DEF Live, Follows
<1>2. ASSUME NEW end \in load_function_metadata(c, s), ~end.raised,
             \/ out = [state |-> Saved(Raised(Asked(end.state, s))), address |-> FALSE]
             \/ out = [state |-> Asked(end.state, s),
                       address |-> http_v2_enabled(end.state, s)]
             \/ out = [state |-> [Asked(end.state, s) EXCEPT !.phase = "failed"],
                       address |-> FALSE]
      PROVE  /\ out.state \in WorkerStates
             /\ out.state.phase \in {c.phase, "failed"}
             /\ c.registered \subseteq out.state.registered
             /\ out.address \in BOOLEAN
             /\ WholeApp(out.state, s)
  <2> DEFINE d == Asked(end.state, s)
  <2>1. Live(end.state) /\ Follows(c, end.state) /\ WholeApp(end.state, s)
    BY <1>2, IndexFollows
  <2>2. /\ Live(d) /\ Follows(end.state, d) /\ Keeps(end.state, d)
        /\ http_v2_enabled(end.state, s) \in BOOLEAN
    BY <2>1, AskedFollows
  <2>3. WholeApp(d, s)
    BY <2>1, <2>2, WholeAppKept
  <2> HIDE DEF d
  <2>4. CASE out = [state |-> Saved(Raised(d)), address |-> FALSE]
    <3> DEFINE e == Saved(Raised(d))
    <3>1. Live(e) /\ Follows(d, e) /\ e.result = d.result
      BY <2>2, SavedRaised
    <3>2. out.state = e /\ out.address = FALSE
      BY <2>4
    <3> HIDE DEF e
    <3> QED
      BY <2>1, <2>2, <2>3, <3>1, <3>2 DEF Follows, WholeApp
  <2>5. CASE out = [state |-> d, address |-> http_v2_enabled(end.state, s)]
    BY <2>1, <2>2, <2>3, <2>5 DEF Follows
  <2>6. CASE out = [state |-> [d EXCEPT !.phase = "failed"], address |-> FALSE]
    <3> DEFINE e == [d EXCEPT !.phase = "failed"]
    <3>1. /\ e \in WorkerStates /\ e.phase = "failed" /\ e.result = d.result
          /\ e.registered = d.registered
      BY <2>2 DEF Live, WorkerStates, Phases
    <3>2. out.state = e /\ out.address = FALSE
      BY <2>6
    <3> HIDE DEF e
    <3> QED
      BY <2>1, <2>2, <2>3, <3>1, <3>2 DEF Follows, WholeApp
  <2> QED
    BY <1>2, <2>4, <2>5, <2>6 DEF d
<1>3. \/ \E end \in load_function_metadata(c, s) :
            end.raised /\ out = [state |-> Saved(end), address |-> FALSE]
      \/ \E end \in load_function_metadata(c, s) :
            /\ ~end.raised
            /\ \/ out = [state |-> Saved(Raised(Asked(end.state, s))), address |-> FALSE]
               \/ out = [state |-> Asked(end.state, s),
                         address |-> http_v2_enabled(end.state, s)]
               \/ out = [state |-> [Asked(end.state, s) EXCEPT !.phase = "failed"],
                         address |-> FALSE]
    BY ZenonT(60) DEF InitIndexing
<1> QED
    BY <1>1, <1>2, <1>3

\* Initialising a worker that has no result.
LEMMA InitialisedFollows ==
    ASSUME NEW c, Live(c), c.result = None,
           NEW s \in AllSites, NEW out \in Initialised(c, s)
    PROVE  /\ out.state \in WorkerStates
           /\ out.state.phase \in {c.phase, "failed"}
           /\ c.registered \subseteq out.state.registered
           /\ out.address \in BOOLEAN
           /\ WholeApp(out.state, s) \/ out.state.result = None
           /\ s.init_indexing = "true" /\ ~out.state.exception =>
                WholeApp(out.state, s)
<1>1. CASE s.init_indexing = "true"
    BY <1>1, InitIndexingFollows DEF Initialised
<1>2. CASE s.init_indexing # "true"
  <2>1. out.state = c /\ out.address = FALSE
    BY <1>2 DEF Initialised
  <2> QED
    BY <1>2, <2>1 DEF Live
<1> QED
    BY <1>1, <1>2

-----------------------------------------------------------------------------
(* What the steps have in common.                                          *)

\* A worker that serves the site is sound when it has indexed the whole app.
LEMMA WholeAppSound ==
    ASSUME TypeOK, NEW d, d.phase \in {"serving", "failed"}, WholeApp(d, site)
    PROVE  Sound(d)
<1>1. NamesOf(site) \in SUBSET AllNames
    BY SitesFunctions DEF TypeOK, AllSites
<1>2. NamesOf(site) # None
    BY <1>1, NoneIsNoResult
<1> QED
    BY <1>2 DEF Sound, WholeApp

\* A sound worker stays so when it keeps its result and loses no function.
LEMMA KeptSound ==
    ASSUME NEW c, NEW d, Sound(c), Follows(c, d), d.result = c.result,
           ~d.exception => ~c.exception
    PROVE  Sound(d)
BY DEF Sound, Follows

\* A step of a worker that leaves it sound and loses none of its functions.
LEMMA WorkerStep ==
    ASSUME TypeOK, Results,
           NEW w \in Workers, NEW d \in WorkerStates, Sound(d), Become(w, d),
           worker[w].registered \subseteq d.registered,
           UNCHANGED <<site, placeholder>>
    PROVE  /\ site' \in Sites /\ placeholder' \in Placeholders
           /\ worker' \in [Workers -> WorkerStates]
           /\ worker'[w] = d /\ \A v \in Workers \ {w} : worker'[v] = worker[v]
           /\ Results'
           /\ \A v \in Workers : worker[v].registered \subseteq worker'[v].registered
<1>1. /\ worker' \in [Workers -> WorkerStates]
      /\ worker'[w] = d
      /\ \A v \in Workers \ {w} : worker'[v] = worker[v]
    BY DEF TypeOK, Become
<1>2. site' \in Sites /\ placeholder' \in Placeholders
    BY DEF TypeOK
<1>3. \A c : Sound(c) => Sound(c)'
    BY DEF Sound, NamesOf, Functions
<1>4. \A v \in Workers : Sound(worker'[v])
    BY <1>1 DEF Results
<1>5. Results'
    BY <1>4 DEF Results, Sound, NamesOf, Functions
<1> QED
    BY <1>1, <1>2, <1>5

\* The answers stay true when no function is lost.
LEMMA AnswersKept ==
    ASSUME LoadTruthful, MetadataTruthful,
           \A v \in Workers : worker[v].registered \subseteq worker'[v].registered,
           UNCHANGED site
    PROVE  /\ UNCHANGED loaded => LoadTruthful'
           /\ UNCHANGED reply => MetadataTruthful'
BY DEF LoadTruthful, MetadataTruthful, NamesOf, Functions

-----------------------------------------------------------------------------
(* The initial states and the steps.                                       *)

LEMMA InitIInv == Init => IInv
<1> SUFFICES ASSUME Init PROVE IInv
    OBVIOUS
<1>1. Created \in WorkerStates
    BY DEF Created, WorkerStates, Phases
<1>2. TypeOK
    BY <1>1 DEF Init, TypeOK
<1>3. Created.result = None /\ Created.phase = "created"
    BY DEF Created
<1>4. Known /\ Results /\ LoadedIsLive /\ LoadTruthful /\ MetadataTruthful
    BY <1>3 DEF Init, Known, Results, Sound, LoadedIsLive, LoadTruthful, MetadataTruthful
<1> QED
    BY <1>2, <1>4 DEF IInv

\* A worker without the site is initialised for s, as a placeholder or for the
\* site.
LEMMA InitialisedStep ==
    ASSUME IInv, NEW w \in Workers, NEW c, Live(c), c.result = None,
           c.registered = worker[w].registered, NEW s,
           \/ c.phase = "placeholder" /\ s = placeholder
           \/ c.phase = "serving" /\ s = site,
           NEW out \in Initialised(c, s),
           Become(w, out.state), address' = [address EXCEPT ![w] = out.address],
           loaded' = [loaded EXCEPT ![w] = {}],
           UNCHANGED <<site, placeholder, reply, known, invoked>>
    PROVE  IInv'
<1>1. s \in AllSites
    BY DEF IInv, TypeOK, AllSites
<1>2. /\ out.state \in WorkerStates
      /\ out.state.phase \in {c.phase, "failed"}
      /\ c.registered \subseteq out.state.registered
      /\ out.address \in BOOLEAN
      /\ WholeApp(out.state, s) \/ out.state.result = None
      /\ s.init_indexing = "true" /\ ~out.state.exception => WholeApp(out.state, s)
    BY <1>1, InitialisedFollows
<1>3. Sound(out.state)
  <2>1. CASE s = placeholder /\ c.phase = "placeholder"
    <3>1. s.app.legacy
      BY <2>1, PlaceholdersAreLegacy DEF IInv, TypeOK
    <3>2. out.state.result = None
      BY <1>2, <3>1 DEF WholeApp
    <3> QED
      BY <1>2, <2>1, <3>2 DEF Sound
  <2>2. CASE s = site /\ c.phase = "serving"
    <3>1. CASE WholeApp(out.state, s)
      BY <1>2, <2>2, <3>1, WholeAppSound DEF IInv
    <3>2. CASE ~WholeApp(out.state, s)
      BY <1>2, <2>2, <3>2 DEF Sound
    <3> QED
      BY <3>1, <3>2
  <2> QED
    BY <2>1, <2>2
<1>4. /\ site' \in Sites /\ placeholder' \in Placeholders
      /\ worker' \in [Workers -> WorkerStates]
      /\ \A v \in Workers \ {w} : worker'[v] = worker[v]
      /\ Results'
      /\ \A v \in Workers : worker[v].registered \subseteq worker'[v].registered
    BY <1>2, <1>3, WorkerStep DEF IInv
<1>5. LoadTruthful' /\ LoadedIsLive'
    BY <1>4 DEF IInv, TypeOK, LoadTruthful, LoadedIsLive
<1>6. MetadataTruthful'
    BY <1>4, AnswersKept DEF IInv
<1>7. Known'
    BY DEF IInv, Known, NamesOf, Functions
<1>8. TypeOK'
    BY <1>2, <1>4 DEF IInv, TypeOK
<1> QED
    BY <1>4, <1>5, <1>6, <1>7, <1>8 DEF IInv

LEMMA WorkerInitKeeps ==
    ASSUME IInv, NEW w \in Workers, NEW phase \in {"placeholder", "serving"},
           WorkerInit(w, phase)
    PROVE  IInv'
<1> DEFINE c == [worker[w] EXCEPT !.phase = phase]
           s == IF phase = "placeholder" THEN placeholder ELSE site
<1>1. worker[w] \in WorkerStates /\ worker[w].result = None /\ loaded[w] = {}
    BY DEF IInv, TypeOK, Results, Sound, LoadedIsLive, WorkerInit
<1>2. /\ c \in WorkerStates /\ c.phase = phase /\ c.result = None
      /\ c.registered = worker[w].registered
    BY <1>1 DEF WorkerStates, Phases
<1>3. PICK out \in Initialised(c, s) :
        Become(w, out.state) /\ address' = [address EXCEPT ![w] = out.address]
    BY DEF WorkerInit
<1>4. UNCHANGED <<site, placeholder, reply, known, loaded, invoked>>
    BY DEF WorkerInit
<1>5. \/ phase = "placeholder" /\ s = placeholder
      \/ phase = "serving" /\ s = site
    OBVIOUS
<1> HIDE DEF c, s
<1>6. Live(c)
    BY <1>2 DEF Live
<1>7. loaded' = [loaded EXCEPT ![w] = {}]
    BY <1>1, <1>4 DEF IInv, TypeOK
<1> QED
    BY <1>2, <1>3, <1>4, <1>5, <1>6, <1>7, InitialisedStep

LEMMA FunctionEnvironmentReloadKeeps ==
    ASSUME IInv, NEW w \in Workers, FunctionEnvironmentReload(w)
    PROVE  IInv'
<1> DEFINE c == [worker[w] EXCEPT !.phase = "serving"]
<1>1. worker[w] \in WorkerStates /\ worker[w].result = None
    BY DEF IInv, TypeOK, Results, Sound, FunctionEnvironmentReload
<1>2. /\ c \in WorkerStates /\ c.phase = "serving" /\ c.result = None
      /\ c.registered = worker[w].registered
    BY <1>1 DEF WorkerStates, Phases
<1>3. PICK out \in Initialised(c, site) :
        Become(w, out.state) /\ address' = [address EXCEPT ![w] = out.address]
    BY DEF FunctionEnvironmentReload
<1>4. /\ UNCHANGED <<site, placeholder, reply, known, invoked>>
      /\ loaded' = [loaded EXCEPT ![w] = {}]
    BY DEF FunctionEnvironmentReload
<1> HIDE DEF c
<1>5. Live(c)
    BY <1>2 DEF Live
<1> QED
    BY <1>2, <1>3, <1>4, <1>5, InitialisedStep

\* A serving worker that indexes the app is sound after it, and has the whole
\* app unless it keeps an exception.
LEMMA IndexingSound ==
    ASSUME TypeOK, NEW c, Live(c), c.phase = "serving", Sound(c),
           NEW end \in load_function_metadata(c, site)
    PROVE  /\ Saved(end) \in WorkerStates /\ Sound(Saved(end))
           /\ Saved(end).phase = c.phase
           /\ c.registered \subseteq Saved(end).registered
           /\ ~Saved(end).exception => WholeApp(Saved(end), site)
<1>1. site \in AllSites
    BY DEF TypeOK, AllSites
<1>2. /\ Live(Saved(end)) /\ Follows(c, Saved(end))
      /\ \/ Saved(end).exception /\ Saved(end).result = c.result
         \/ WholeApp(Saved(end), site)
    BY <1>1, SavedFollows, SavedResult
<1>3. Sound(Saved(end))
  <2>1. CASE WholeApp(Saved(end), site)
    BY <1>2, <2>1, WholeAppSound DEF Follows
  <2>2. CASE Saved(end).exception /\ Saved(end).result = c.result
    BY <1>2, <2>2, KeptSound
  <2> QED
    BY <1>2, <2>1, <2>2
<1> QED
    BY <1>2, <1>3 DEF Follows, Live

LEMMA FunctionsMetadataKeeps ==
    ASSUME IInv, NEW w \in Workers, FunctionsMetadata(w)
    PROVE  IInv'
<1>1. /\ Live(worker[w]) /\ worker[w].phase = "serving" /\ Sound(worker[w])
      /\ worker[w] \in WorkerStates
    BY DEF IInv, TypeOK, Results, Live, FunctionsMetadata
<1>2. PICK c \in IF site.init_indexing = "true" THEN {worker[w]}
                 ELSE {Saved(end) : end \in load_function_metadata(worker[w], site)} :
        /\ Become(w, c)
        /\ \/ /\ c.exception
              /\ reply' = [reply EXCEPT ![w] = "failure"]
              /\ UNCHANGED known
           \/ /\ ~c.exception /\ c.result = None
              /\ reply' = [reply EXCEPT ![w] = "default"]
              /\ known' = IF site.app.legacy THEN NamesOf(site) ELSE {}
           \/ /\ ~c.exception /\ c.result # None
              /\ reply' = [reply EXCEPT ![w] = "functions"]
              /\ known' = c.result
    BY DEF FunctionsMetadata
<1>3. UNCHANGED <<site, placeholder, address, loaded, invoked>>
    BY DEF FunctionsMetadata
<1>4. /\ c \in WorkerStates /\ Sound(c) /\ c.phase = "serving"
      /\ worker[w].registered \subseteq c.registered
      /\ ~c.exception /\ c.result = None => site.app.legacy \/ Functions(site) = <<>>
  <2>1. CASE site.init_indexing = "true"
    BY <1>1, <1>2, <2>1 DEF Sound
  <2>2. CASE site.init_indexing # "true"
    <3>1. PICK end \in load_function_metadata(worker[w], site) : c = Saved(end)
      BY <1>2, <2>2
    <3>2. /\ c \in WorkerStates /\ Sound(c) /\ c.phase = "serving"
          /\ worker[w].registered \subseteq c.registered
          /\ ~c.exception => WholeApp(c, site)
      BY <1>1, <3>1, IndexingSound DEF IInv
    <3>3. NamesOf(site) # None
      BY SitesFunctions, NoneIsNoResult DEF IInv, TypeOK, AllSites
    <3> QED
      BY <3>2, <3>3 DEF WholeApp
  <2> QED
    BY <2>1, <2>2
<1>5. /\ site' \in Sites /\ placeholder' \in Placeholders
      /\ worker' \in [Workers -> WorkerStates] /\ worker'[w] = c
      /\ \A v \in Workers \ {w} : worker'[v] = worker[v]
      /\ Results'
      /\ \A v \in Workers : worker[v].registered \subseteq worker'[v].registered
    BY <1>2, <1>3, <1>4, WorkerStep DEF IInv
<1>6. known' \subseteq NamesOf(site)
    BY <1>2, <1>4 DEF IInv, Known, Sound
<1>7. Known'
    BY <1>3, <1>6 DEF Known, NamesOf, Functions
<1>8. NamesOf(site) \subseteq AllNames
    BY SitesFunctions DEF IInv, TypeOK, AllSites
<1>9. reply' \in [Workers -> {"none", "failure", "default", "functions"}]
    BY <1>2 DEF IInv, TypeOK
<1>10. TypeOK'
    BY <1>3, <1>5, <1>6, <1>8, <1>9 DEF IInv, TypeOK
<1>11. LoadTruthful' /\ LoadedIsLive'
    BY <1>3, <1>4, <1>5, AnswersKept DEF IInv, LoadedIsLive
<1>12. \A v \in Workers :
          /\ reply'[v] = "functions" => NamesOf(site) \subseteq worker'[v].registered
          /\ reply'[v] = "default" => site.app.legacy \/ Functions(site) = <<>>
  <2> TAKE v \in Workers
  <2>1. CASE v = w
    BY <1>2, <1>4, <1>5, <2>1 DEF IInv, TypeOK, Sound
  <2>2. CASE v # w
    BY <1>2, <1>5, <2>2 DEF IInv, TypeOK, MetadataTruthful
  <2> QED
    BY <2>1, <2>2
<1>13. MetadataTruthful'
    BY <1>3, <1>12 DEF MetadataTruthful, NamesOf, Functions
<1> QED
    BY <1>5, <1>7, <1>10, <1>11, <1>13 DEF IInv

\* Finding a function of an app with function.json files: the worker's result
\* stays, and the function is registered unless an exception is raised.
LEMMA LoadLegacyFollows ==
    ASSUME NEW c, Live(c), NEW s \in AllSites, NEW name,
           NEW end \in LoadLegacy(c, s, name)
    PROVE  /\ Live(end.state) /\ Follows(c, end.state) /\ Keeps(c, end.state)
           /\ ~end.raised => name \in end.state.registered
<1> DEFINE ready == Importing(c, s)
<1>1. \/ \E d \in FailedImport(c, s) : end = Raised(d)
      \/ \E i \in Named(s, name) :
            end = [state |-> Registered(<<Functions(s)[i]>>, ready, s),
                   raised |-> Refuses(Functions(s)[i], ready, s)]
    BY DEF LoadLegacy
<1>2. CASE \E d \in FailedImport(c, s) : end = Raised(d)
    BY <1>2, FailedImportFollows DEF Raised
<1>3. ASSUME NEW i \in Named(s, name),
             end = [state |-> Registered(<<Functions(s)[i]>>, ready, s),
                    raised |-> Refuses(Functions(s)[i], ready, s)]
      PROVE  /\ Live(end.state) /\ Follows(c, end.state) /\ Keeps(c, end.state)
             /\ ~end.raised => name \in end.state.registered
  <2> DEFINE f == Functions(s)[i]
             after == Registered(<<f>>, ready, s)
  <2>1. Live(ready) /\ Follows(c, ready) /\ Keeps(c, ready)
    BY ImportingFollows
  <2>2. f \in Function /\ f.name = name /\ name \in AllNames
    BY SitesFunctions DEF Named
  <2> HIDE DEF f, ready
  <2>3. /\ <<f>> \in Seq(Function) /\ <<f>> # <<>> /\ <<f>>[1] = f
        /\ \A j \in DOMAIN <<f>> : <<f>>[j].name \in AllNames
    BY <2>2
  <2>4. /\ Live(after) /\ Follows(ready, after) /\ Keeps(ready, after)
        /\ ~Refuses(f, ready, s) => name \in after.registered
    BY <2>1, <2>2, <2>3, RegisteredFollows
  <2>5. end.state = after /\ end.raised = Refuses(f, ready, s)
    BY <1>3 DEF f
  <2> HIDE DEF after
  <2> QED
    BY <2>1, <2>4, <2>5 DEF Follows, Keeps
<1> QED
    BY <1>1, <1>2, <1>3

\* A function that was found is registered, in a worker that stays sound.
LEMMA FoundSound ==
    ASSUME IInv, NEW w \in Workers, NEW name \in Loadable(w),
           NEW end \in Found(worker[w], EnvOf(w), name)
    PROVE  /\ Live(end.state) /\ Sound(end.state)
           /\ worker[w].registered \subseteq end.state.registered
           /\ ~end.raised => name \in end.state.registered
           /\ name \in AllNames
<1>1. /\ Live(worker[w]) /\ worker[w] \in WorkerStates /\ Sound(worker[w])
      /\ site \in AllSites /\ placeholder \in AllSites
    BY DEF IInv, TypeOK, Results, Live, Loadable, AllSites
<1>2. /\ EnvOf(w) \in AllSites
      /\ ~EnvOf(w).app.legacy => worker[w].phase = "serving" /\ EnvOf(w) = site
      /\ name \in NamesOf(EnvOf(w))
      /\ name \in AllNames
  <2>1. CASE worker[w].phase = "serving"
    BY <1>1, <2>1, SitesFunctions DEF EnvOf, Loadable, IInv, Known
  <2>2. CASE worker[w].phase = "placeholder"
    BY <1>1, <2>2, SitesFunctions, PlaceholdersAreLegacy
        DEF EnvOf, Loadable, IInv, TypeOK
  <2> QED
    BY <1>1, <2>1, <2>2 DEF Live
<1>3. CASE name \in worker[w].registered
  <2>1. end.state = worker[w]
    BY <1>3 DEF Found, Ended
  <2> QED
    BY <1>1, <1>2, <1>3, <2>1
<1>4. CASE name \notin worker[w].registered /\ EnvOf(w).app.legacy
  <2>1. end \in LoadLegacy(worker[w], EnvOf(w), name)
    BY <1>4 DEF Found
  <2>2. /\ Live(end.state) /\ Follows(worker[w], end.state)
        /\ Keeps(worker[w], end.state)
        /\ ~end.raised => name \in end.state.registered
    BY <1>1, <1>2, <2>1, LoadLegacyFollows
  <2>3. Sound(end.state)
    BY <1>1, <2>2, KeptSound DEF Keeps
  <2> QED
    BY <1>2, <2>2, <2>3 DEF Follows
<1>5. CASE name \notin worker[w].registered /\ ~EnvOf(w).app.legacy
  <2>1. EnvOf(w) = site /\ worker[w].phase = "serving"
    BY <1>2, <1>5
  <2>2. PICK e \in load_function_metadata(worker[w], site) :
            end = [state |-> Saved(e), raised |-> Saved(e).exception]
    BY <1>5, <2>1 DEF Found, LoadIndexed
  <2>3. end.state = Saved(e) /\ end.raised = Saved(e).exception
    BY <2>2
  <2>4. /\ Saved(e) \in WorkerStates /\ Sound(Saved(e))
        /\ Saved(e).phase = "serving"
        /\ worker[w].registered \subseteq Saved(e).registered
        /\ ~Saved(e).exception => WholeApp(Saved(e), site)
    BY <1>1, <2>1, <2>2, IndexingSound DEF IInv
  <2> QED
    BY <1>2, <1>5, <2>1, <2>3, <2>4 DEF WholeApp, Live
<1> QED
    BY <1>3, <1>4, <1>5

LEMMA FunctionLoadKeeps ==
    ASSUME IInv, NEW w \in Workers, NEW name, FunctionLoad(w, name)
    PROVE  IInv'
<1>1. name \in Loadable(w)
    BY DEF FunctionLoad
<1>2. PICK end \in Found(worker[w], EnvOf(w), name) :
        /\ Become(w, end.state)
        /\ \/ ~end.raised /\ loaded' = [loaded EXCEPT ![w] = @ \cup {name}]
           \/ UNCHANGED loaded
    BY DEF FunctionLoad
<1>3. UNCHANGED <<site, placeholder, address, reply, known, invoked>>
    BY DEF FunctionLoad
<1>4. /\ Live(end.state) /\ end.state \in WorkerStates /\ Sound(end.state)
      /\ worker[w].registered \subseteq end.state.registered
      /\ ~end.raised => name \in end.state.registered
      /\ name \in AllNames
    BY <1>1, FoundSound DEF Live
<1>5. /\ site' \in Sites /\ placeholder' \in Placeholders
      /\ worker' \in [Workers -> WorkerStates] /\ worker'[w] = end.state
      /\ \A v \in Workers \ {w} : worker'[v] = worker[v]
      /\ Results'
      /\ \A v \in Workers : worker[v].registered \subseteq worker'[v].registered
    BY <1>2, <1>3, <1>4, WorkerStep DEF IInv
<1>6. loaded' \in [Workers -> SUBSET AllNames]
    BY <1>2, <1>4 DEF IInv, TypeOK
<1>7. TypeOK'
    BY <1>3, <1>5, <1>6 DEF IInv, TypeOK
<1>8. LoadTruthful' /\ LoadedIsLive'
    BY <1>2, <1>4, <1>5 DEF IInv, TypeOK, LoadTruthful, LoadedIsLive, Live
<1>9. MetadataTruthful'
    BY <1>3, <1>5, AnswersKept DEF IInv
<1>10. Known'
    BY <1>3 DEF IInv, Known, NamesOf, Functions
<1> QED
    BY <1>5, <1>7, <1>8, <1>9, <1>10 DEF IInv

LEMMA InvocationKeeps ==
    ASSUME IInv, NEW w \in Workers, NEW name, Invocation(w, name)
    PROVE  IInv'
<1> DEFINE c == worker[w]
           s == EnvOf(w)
           d == Asked(c, s)
           i == [worker |-> w, function |-> name, streamed |-> http_v2_enabled(c, s),
                 forwarded |-> address[w], exception |-> c.exception]
<1>1. /\ Become(w, d) /\ invoked' \in {invoked, invoked \cup {i}}
      /\ UNCHANGED <<site, placeholder, address, reply, known, loaded>>
      /\ name \in loaded[w]
    BY DEF Invocation
<1>2. s \in AllSites /\ c \in WorkerStates /\ Sound(c) /\ Live(c)
    BY <1>1 DEF EnvOf, IInv, TypeOK, AllSites, Results, LoadedIsLive, Live
<1> HIDE DEF c, s
<1>3. /\ d \in WorkerStates /\ Live(d) /\ Follows(c, d) /\ Keeps(c, d)
      /\ http_v2_enabled(c, s) \in BOOLEAN
    BY <1>2, AskedFollows DEF Live
<1> HIDE DEF d
<1>4. Sound(d)
    BY <1>2, <1>3, KeptSound DEF Keeps
<1>5. /\ site' \in Sites /\ placeholder' \in Placeholders
      /\ worker' \in [Workers -> WorkerStates] /\ worker'[w] = d
      /\ \A v \in Workers \ {w} : worker'[v] = worker[v]
      /\ Results'
      /\ \A v \in Workers : worker[v].registered \subseteq worker'[v].registered
    BY <1>1, <1>3, <1>4, WorkerStep DEF IInv, Follows, c
<1>6. i \in [worker : Workers, function : AllNames, streamed : BOOLEAN,
             forwarded : BOOLEAN, exception : BOOLEAN]
    BY <1>1, <1>2, <1>3 DEF IInv, TypeOK, WorkerStates
<1> HIDE DEF i
<1>7. TypeOK'
    BY <1>1, <1>5, <1>6 DEF IInv, TypeOK
<1>8. LoadTruthful' /\ MetadataTruthful' /\ LoadedIsLive'
    BY <1>1, <1>3, <1>5, AnswersKept DEF IInv, LoadedIsLive, Live
<1>9. Known'
    BY <1>1 DEF IInv, Known, NamesOf, Functions
<1> QED
    BY <1>5, <1>7, <1>8, <1>9 DEF IInv

LEMMA StutterKeeps ==
    ASSUME IInv, UNCHANGED vars
    PROVE  IInv'
BY DEF IInv, vars, TypeOK, Known, Results, Sound, LoadedIsLive, LoadTruthful, MetadataTruthful,
       NamesOf, Functions

LEMMA NextIInv == IInv /\ [Next]_vars => IInv'
<1> SUFFICES ASSUME IInv, [Next]_vars PROVE IInv'
    OBVIOUS
<1>1. ASSUME NEW w \in Workers, NEW phase \in {"placeholder", "serving"},
             WorkerInit(w, phase)
      PROVE  IInv'
    BY <1>1, WorkerInitKeeps
<1>2. ASSUME NEW w \in Workers, FunctionEnvironmentReload(w) PROVE IInv'
    BY <1>2, FunctionEnvironmentReloadKeeps
<1>3. ASSUME NEW w \in Workers, FunctionsMetadata(w) PROVE IInv'
    BY <1>3, FunctionsMetadataKeeps
<1>4. ASSUME NEW w \in Workers, NEW name, FunctionLoad(w, name) PROVE IInv'
    BY <1>4, FunctionLoadKeeps
<1>5. ASSUME NEW w \in Workers, NEW name, Invocation(w, name) PROVE IInv'
    BY <1>5, InvocationKeeps
<1>6. CASE UNCHANGED vars
    BY <1>6, StutterKeeps
<1> QED
    BY <1>1, <1>2, <1>3, <1>4, <1>5, <1>6 DEF Next

\* The inductive invariant holds of every behaviour of the workers.
THEOREM IInvAlways == Spec => []IInv
<1> QED
    BY InitIInv, NextIInv, PTL DEF Spec

\* Every handler leaves the worker's state, its answers and what the host knows
\* of the app's functions within their types.
THEOREM TypeCorrect == Spec => []TypeOK
<1>1. IInv => TypeOK
    BY DEF IInv
<1> QED
    BY <1>1, IInvAlways, PTL

\* A function that a worker answered to have loaded is in its registry.
THEOREM LoadTruthfulAlways == Spec => []LoadTruthful
<1>1. IInv => LoadTruthful
    BY DEF IInv
<1> QED
    BY <1>1, IInvAlways, PTL

\* A successful answer to a metadata request is the whole app, registered in
\* the worker that answers.
THEOREM MetadataTruthfulAlways == Spec => []MetadataTruthful
<1>1. IInv => MetadataTruthful
    BY DEF IInv
<1> QED
    BY <1>1, IInvAlways, PTL

-----------------------------------------------------------------------------
(* Whether the worker streams HTTP.                                        *)

\* d comes from c by handlers that run with the app and the settings s: once
\* the question was asked the answer stands, and it is no if the settings or
\* the app rule HTTP streaming out.
Steady(c, d, s) ==
    /\ c.checked # "never" => d.checked = c.checked /\ d.enabled = c.enabled
    /\ s.init_indexing = "false" /\ ~c.enabled => ~d.enabled
    /\ ~s.app.web /\ ~c.imported /\ ~c.enabled => ~d.imported /\ ~d.enabled
    /\ c.exception => d.exception

LEMMA SteadyTrans ==
    ASSUME NEW c, NEW d, NEW e, NEW s, Steady(c, d, s), Steady(d, e, s)
    PROVE  Steady(c, e, s)
BY DEF Steady

LEMMA SteadySelf ==
    ASSUME NEW c, NEW s
    PROVE  Steady(c, c, s)
BY DEF Steady

\* The answer to the question is the one that is kept.
LEMMA AskedSteady ==
    ASSUME NEW c, Live(c), NEW s \in AllSites
    PROVE  /\ Steady(c, Asked(c, s), s)
           /\ Asked(c, s).checked # "never"
           /\ Asked(c, s).enabled = http_v2_enabled(c, s)
           /\ Asked(c, s).imported = c.imported
<1>1. http_v2_enabled(c, s) \in BOOLEAN
    BY AskedFollows
<1>2. /\ Asked(c, s).enabled = http_v2_enabled(c, s)
      /\ Asked(c, s).checked = IF c.checked = "never" THEN c.phase ELSE c.checked
      /\ Asked(c, s).imported = c.imported
      /\ Asked(c, s).exception = c.exception
    BY <1>1 DEF Asked, Live, WorkerStates
<1>3. Asked(c, s).checked # "never"
    BY <1>2 DEF Live
<1>4. Steady(c, Asked(c, s), s)
    BY <1>2 DEF Steady, http_v2_enabled
<1> QED
    BY <1>2, <1>3, <1>4

LEMMA ImportingSteady ==
    ASSUME NEW c, Live(c), NEW s \in AllSites
    PROVE  Steady(c, Importing(c, s), s)
<1>1. s.app.web \in BOOLEAN
    BY SitesFunctions DEF IsSite
<1>2. /\ Importing(c, s).imported = (c.imported \/ s.app.web)
      /\ Importing(c, s).checked = c.checked
      /\ Importing(c, s).enabled = c.enabled
      /\ Importing(c, s).exception = c.exception
    BY DEF Importing, Live, WorkerStates
<1> QED
    BY <1>2 DEF Steady

LEMMA FailedImportSteady ==
    ASSUME NEW c, Live(c), NEW s \in AllSites, NEW d \in FailedImport(c, s)
    PROVE  Steady(c, d, s)
<1>1. d = c \/ d = Importing(c, s)
    BY DEF FailedImport
<1> QED
    BY <1>1, SteadySelf, ImportingSteady

LEMMA RegisteredSteady ==
    ASSUME NEW c, Live(c), NEW s \in AllSites, NEW fs
    PROVE  Steady(c, Registered(fs, c, s), s)
<1> DEFINE reached == {i \in DOMAIN fs : \A j \in 1..(i - 1) : ~Fails(fs[j], c, s)}
           kept == {i \in reached : ~Refuses(fs[i], c, s)}
           names == {fs[i].name : i \in kept}
           after == IF \E i \in reached : Asks(fs[i]) THEN Asked(c, s) ELSE c
           last == [after EXCEPT !.registered = @ \cup names]
<1>1. Registered(fs, c, s) = last
    BY DEF Registered
<1>2. Live(after) /\ Steady(c, after, s)
    BY AskedFollows, AskedSteady, SteadySelf
<1> HIDE DEF after, names
<1>3. /\ last.checked = after.checked /\ last.enabled = after.enabled
      /\ last.imported = after.imported /\ last.exception = after.exception
    BY <1>2 DEF Live, WorkerStates
<1> HIDE DEF last
<1> QED
    BY <1>1, <1>2, <1>3 DEF Steady

LEMMA IndexSteady ==
    ASSUME NEW c, Live(c), NEW s \in AllSites,
           NEW end \in load_function_metadata(c, s)
    PROVE  Steady(c, end.state, s)
<1> DEFINE ready == Importing(c, s)
           after == Registered(Functions(s), ready, s)
<1>1. CASE ~s.script_valid
    BY <1>1, SteadySelf DEF load_function_metadata, Raised
<1>2. CASE s.script_valid /\ s.app.legacy
  <2> DEFINE none == [c EXCEPT !.result = None]
  <2>1. end.state = none
    BY <1>2 DEF load_function_metadata, Ended
  <2>2. /\ none.checked = c.checked /\ none.enabled = c.enabled
        /\ none.imported = c.imported /\ none.exception = c.exception
    BY DEF Live, WorkerStates
  <2> HIDE DEF none
  <2> QED
    BY <2>1, <2>2 DEF Steady
<1>3. CASE s.script_valid /\ ~s.app.legacy
  <2>1. Live(ready) /\ Steady(c, ready, s)
    BY ImportingFollows, ImportingSteady
  <2>2. Live(after)
    <3> HIDE DEF ready
    <3> QED
      BY <2>1, SitesFunctions, RegisteredFollows
  <2>3. Steady(ready, after, s)
    <3> HIDE DEF ready
    <3> QED
      BY <2>1, RegisteredSteady
  <2>4. Steady(c, after, s)
    BY <2>1, <2>3, SteadyTrans
  <2>5. \/ \E d \in FailedImport(c, s) : end = Raised(d)
        \/ end = Raised(after)
        \/ \E r : end = Ended([after EXCEPT !.result = r])
    BY <1>3 DEF load_function_metadata, index_functions
  <2> HIDE DEF after
  <2>6. CASE \E d \in FailedImport(c, s) : end = Raised(d)
    BY <2>6, FailedImportSteady DEF Raised
  <2>7. CASE end = Raised(after)
    BY <2>4, <2>7 DEF Raised
  <2>8. ASSUME NEW r, end = Ended([after EXCEPT !.result = r]) PROVE Steady(c, end.state, s)
    <3> DEFINE last == [after EXCEPT !.result = r]
    <3>1. /\ last.checked = after.checked /\ last.enabled = after.enabled
          /\ last.imported = after.imported /\ last.exception = after.exception
      BY <2>2 DEF Live, WorkerStates
    <3>2. end.state = last
      BY <2>8 DEF Ended
    <3> HIDE DEF last
    <3> QED
      BY <2>4, <3>1, <3>2 DEF Steady
  <2> QED
    BY <2>5, <2>6, <2>7, <2>8
<1> QED
    BY <1>1, <1>2, <1>3

LEMMA SavedSteady ==
    ASSUME NEW c, Live(c), NEW s \in AllSites,
           NEW end \in load_function_metadata(c, s)
    PROVE  Steady(c, Saved(end), s)
<1>1. Live(end.state) /\ Steady(c, end.state, s)
    BY IndexFollows, IndexSteady
<1> DEFINE d == [end.state EXCEPT !.exception = @ \/ end.raised]
<1>2. /\ d.checked = end.state.checked /\ d.enabled = end.state.enabled
      /\ d.imported = end.state.imported
      /\ d.exception = (end.state.exception \/ end.raised)
    BY <1>1 DEF Live, WorkerStates
<1>3. Saved(end) = d
    BY DEF Saved
<1> HIDE DEF d
<1> QED
    BY <1>1, <1>2, <1>3 DEF Steady

\* Finding a function to load, in either kind of app.
LEMMA FoundSteady ==
    ASSUME NEW c, Live(c), NEW s \in AllSites, NEW name, NEW end \in Found(c, s, name)
    PROVE  Steady(c, end.state, s)
<1>1. CASE name \in c.registered
    BY <1>1, SteadySelf DEF Found, Ended
<1>2. CASE name \notin c.registered /\ s.app.legacy
  <2> DEFINE ready == Importing(c, s)
  <2>1. \/ \E d \in FailedImport(c, s) : end = Raised(d)
        \/ \E i \in Named(s, name) :
              end = [state |-> Registered(<<Functions(s)[i]>>, ready, s),
                     raised |-> Refuses(Functions(s)[i], ready, s)]
    BY <1>2 DEF Found, LoadLegacy
  <2>2. Live(ready) /\ Steady(c, ready, s)
    BY ImportingFollows, ImportingSteady
  <2>3. CASE \E d \in FailedImport(c, s) : end = Raised(d)
    BY <2>3, FailedImportSteady DEF Raised
  <2> HIDE DEF ready
  <2>4. CASE \E i \in Named(s, name) :
              end = [state |-> Registered(<<Functions(s)[i]>>, ready, s),
                     raised |-> Refuses(Functions(s)[i], ready, s)]
    <3>1. \E fs : end.state = Registered(fs, ready, s)
      BY <2>4
    <3> QED
      BY <2>2, <3>1, RegisteredSteady, SteadyTrans
  <2> QED
    BY <2>1, <2>3, <2>4
<1>3. CASE name \notin c.registered /\ ~s.app.legacy
  <2>1. PICK e \in load_function_metadata(c, s) :
            end = [state |-> Saved(e), raised |-> Saved(e).exception]
    BY <1>3 DEF Found, LoadIndexed
  <2>2. end.state = Saved(e)
    BY <2>1
  <2> QED
    BY <2>2, SavedSteady
<1> QED
    BY <1>1, <1>2, <1>3

\* An initialisation that does not fail tells the host the worker's own answer.
LEMMA InitIndexingMode ==
    ASSUME NEW c, Live(c), NEW s \in AllSites, s.init_indexing = "true",
           NEW out \in InitIndexing(c, s)
    PROVE  /\ Steady(c, out.state, s)
           /\ out.address => out.state.enabled
           /\ out.state.phase = c.phase /\ ~out.state.exception =>
                out.state.checked # "never" /\ out.address = out.state.enabled
<1>1. CASE \E end \in load_function_metadata(c, s) :
                end.raised /\ out = [state |-> Saved(end), address |-> FALSE]
  <2>1. PICK end \in load_function_metadata(c, s) :
            end.raised /\ out = [state |-> Saved(end), address |-> FALSE]
    BY <1>1
  <2>2. out.state = Saved(end) /\ out.address = FALSE
    BY <2>1
  <2>3. Saved(end).exception
    BY <2>1, SavedFollows
  <2> QED
    BY <2>2, <2>3, SavedSteady
<1>2. ASSUME NEW end \in load_function_metadata(c, s), ~end.raised,
             \/ out = [state |-> Saved(Raised(Asked(end.state, s))), address |-> FALSE]
             \/ out = [state |-> Asked(end.state, s),
                       address |-> http_v2_enabled(end.state, s)]
             \/ out = [state |-> [Asked(end.state, s) EXCEPT !.phase = "failed"],
                       address |-> FALSE]
      PROVE  /\ Steady(c, out.state, s)
             /\ out.address => out.state.enabled
             /\ out.state.phase = c.phase /\ ~out.state.exception =>
                  out.state.checked # "never" /\ out.address = out.state.enabled
  <2> DEFINE d == Asked(end.state, s)
  <2>1. Live(end.state) /\ Steady(c, end.state, s)
    BY IndexFollows, IndexSteady
  <2>2. /\ Live(d) /\ Steady(end.state, d, s) /\ d.checked # "never"
        /\ d.enabled = http_v2_enabled(end.state, s)
    BY <2>1, AskedFollows, AskedSteady
  <2> HIDE DEF d
  <2>3. Steady(c, d, s)
    BY <2>1, <2>2, SteadyTrans
  <2>4. CASE out = [state |-> Saved(Raised(d)), address |-> FALSE]
    <3> DEFINE e == [d EXCEPT !.exception = @ \/ TRUE]
    <3>1. /\ e.checked = d.checked /\ e.enabled = d.enabled /\ e.imported = d.imported
          /\ e.exception = TRUE
      BY <2>2 DEF Live, WorkerStates
    <3>2. out.state = e /\ out.address = FALSE
      BY <2>4 DEF Saved, Raised
    <3> HIDE DEF e
    <3> QED
      BY <2>3, <3>1, <3>2 DEF Steady
  <2>5. CASE out = [state |-> d, address |-> http_v2_enabled(end.state, s)]
    <3>1. out.state = d /\ out.address = d.enabled
      BY <2>2, <2>5
    <3> QED
      BY <2>2, <2>3, <3>1
  <2>6. CASE out = [state |-> [d EXCEPT !.phase = "failed"], address |-> FALSE]
    <3> DEFINE e == [d EXCEPT !.phase = "failed"]
    <3>1. /\ e.checked = d.checked /\ e.enabled = d.enabled /\ e.imported = d.imported
          /\ e.exception = d.exception /\ e.phase = "failed"
      BY <2>2 DEF Live, WorkerStates, Phases
    <3>2. out.state = e /\ out.address = FALSE
      BY <2>6
    <3> HIDE DEF e
    <3> QED
      BY <2>3, <3>1, <3>2 DEF Steady, Live
  <2> QED
    BY <1>2, <2>4, <2>5, <2>6 DEF d
<1>3. \/ \E end \in load_function_metadata(c, s) :
            end.raised /\ out = [state |-> Saved(end), address |-> FALSE]
      \/ \E end \in load_function_metadata(c, s) :
            /\ ~end.raised
            /\ \/ out = [state |-> Saved(Raised(Asked(end.state, s))), address |-> FALSE]
               \/ out = [state |-> Asked(end.state, s),
                         address |-> http_v2_enabled(end.state, s)]
               \/ out = [state |-> [Asked(end.state, s) EXCEPT !.phase = "failed"],
                         address |-> FALSE]
    BY ZenonT(60) DEF InitIndexing
<1> QED
    BY <1>1, <1>2, <1>3

\* Whatever finding a function does, the worker's phase and functions stay.
LEMMA FoundFollows ==
    ASSUME NEW c, Live(c), NEW s \in AllSites, NEW name, NEW end \in Found(c, s, name)
    PROVE  Follows(c, end.state)
<1>1. CASE name \in c.registered
    BY <1>1 DEF Found, Ended, Follows, Live
<1>2. CASE name \notin c.registered /\ s.app.legacy
    BY <1>2, LoadLegacyFollows DEF Found
<1>3. CASE name \notin c.registered /\ ~s.app.legacy
  <2>1. PICK e \in load_function_metadata(c, s) :
            end = [state |-> Saved(e), raised |-> Saved(e).exception]
    BY <1>3 DEF Found, LoadIndexed
  <2>2. end.state = Saved(e)
    BY <2>1
  <2> QED
    BY <2>2, SavedFollows
<1> QED
    BY <1>1, <1>2, <1>3

\* A worker does not stream before it has the site; with the setting "false"
\* it never does; and with "true" it streams when the host has its address.
ModeOf(c, a) ==
    /\ c.phase \in {"created", "placeholder"} => ~c.enabled /\ ~c.imported /\ ~a
    /\ site.init_indexing = "false" => ~c.enabled /\ ~a
    /\ c.phase = "serving" /\ site.init_indexing = "true" /\ ~c.exception =>
            c.checked # "never" /\ a = c.enabled

Modes == \A w \in Workers : ModeOf(worker[w], address[w])

\* What a placeholder runs imports no web extension.
PlainPlaceholders == \A s \in Placeholders : ~s.app.web

LEMMA ModesStep ==
    ASSUME IInv, Modes, NEW w \in Workers, NEW d, Become(w, d), NEW a,
           address' = [address EXCEPT ![w] = a], ModeOf(d, a), UNCHANGED site
    PROVE  Modes'
<1>1. \A v \in Workers : ModeOf(worker'[v], address'[v])
    BY DEF IInv, TypeOK, Become, Modes
<1> QED
    BY <1>1 DEF Modes, ModeOf

\* A step of a worker that has the site or is a placeholder.
LEMMA SteadyStep ==
    ASSUME PlainPlaceholders, IInv, Modes, NEW w \in Workers, Live(worker[w]),
           NEW d, d.phase = worker[w].phase, Steady(worker[w], d, EnvOf(w)),
           Become(w, d), UNCHANGED <<site, address>>
    PROVE  Modes'
<1>1. ModeOf(worker[w], address[w])
    BY DEF Modes
<1>2. worker[w].phase = "placeholder" => ~EnvOf(w).app.web
    BY DEF PlainPlaceholders, EnvOf, IInv, TypeOK
<1>3. worker[w].phase = "serving" => EnvOf(w) = site
    BY DEF EnvOf
<1>4. ModeOf(d, address[w])
    BY <1>1, <1>2, <1>3 DEF ModeOf, Steady, Live
<1>5. address' = [address EXCEPT ![w] = address[w]]
    BY DEF IInv, TypeOK
<1> QED
    BY <1>4, <1>5, ModesStep

LEMMA InitialisedModes ==
    ASSUME PlainPlaceholders, IInv, Modes, NEW w \in Workers,
           worker[w].phase \in {"created", "placeholder"},
           NEW phase \in {"placeholder", "serving"}, NEW s,
           s = IF phase = "placeholder" THEN placeholder ELSE site,
           NEW out \in Initialised([worker[w] EXCEPT !.phase = phase], s),
           Become(w, out.state), address' = [address EXCEPT ![w] = out.address],
           UNCHANGED site
    PROVE  Modes'
<1> DEFINE c == [worker[w] EXCEPT !.phase = phase]
<1>1. s \in AllSites
    BY DEF IInv, TypeOK, AllSites
<1>2. worker[w] \in WorkerStates /\ ~worker[w].enabled /\ ~worker[w].imported
    BY DEF Modes, ModeOf, IInv, TypeOK
<1>3. /\ c \in WorkerStates /\ c.phase = phase /\ ~c.enabled /\ ~c.imported
    BY <1>2 DEF WorkerStates, Phases
<1>4. out \in Initialised(c, s)
    OBVIOUS
<1>5. phase = "placeholder" => ~s.app.web
    BY DEF PlainPlaceholders, IInv, TypeOK
<1> HIDE DEF c
<1>6. Live(c)
    BY <1>3 DEF Live
<1>7. ModeOf(out.state, out.address)
  <2>1. CASE s.init_indexing # "true"
    <3>1. out.state = c /\ out.address = FALSE
      BY <1>4, <2>1 DEF Initialised
    <3> QED
      BY <1>3, <2>1, <3>1 DEF ModeOf
  <2>2. CASE s.init_indexing = "true"
    <3>1. out \in InitIndexing(c, s)
      BY <1>4, <2>2 DEF Initialised
    <3>2. /\ Steady(c, out.state, s)
          /\ out.address => out.state.enabled
          /\ out.state.phase = c.phase /\ ~out.state.exception =>
                out.state.checked # "never" /\ out.address = out.state.enabled
          /\ out.state.phase \in {c.phase, "failed"}
          /\ out.address \in BOOLEAN
      BY <1>1, <1>6, <2>2, <3>1, InitIndexingMode, InitIndexingFollows
    <3>3. CASE phase = "placeholder"
      BY <1>3, <1>5, <3>2, <3>3 DEF Steady, ModeOf
    <3>4. CASE phase = "serving"
      BY <1>3, <2>2, <3>2, <3>4 DEF ModeOf
    <3> QED
      BY <3>3, <3>4
  <2> QED
    BY <2>1, <2>2
<1> QED
    BY <1>7, ModesStep

LEMMA NextModes ==
    ASSUME PlainPlaceholders, IInv, Modes, HttpModeAgreed, [Next]_vars
    PROVE  Modes' /\ HttpModeAgreed'
<1>0. UNCHANGED <<site, invoked>> => HttpModeAgreed'
    BY DEF HttpModeAgreed
<1>1. ASSUME NEW w \in Workers, NEW phase \in {"placeholder", "serving"}, WorkerInit(w, phase)
      PROVE  Modes' /\ HttpModeAgreed'
  <2> DEFINE s == IF phase = "placeholder" THEN placeholder ELSE site
  <2>1. PICK out \in Initialised([worker[w] EXCEPT !.phase = phase], s) :
            Become(w, out.state) /\ address' = [address EXCEPT ![w] = out.address]
    BY <1>1 DEF WorkerInit
  <2>2. worker[w].phase \in {"created", "placeholder"} /\ UNCHANGED <<site, invoked>>
    BY <1>1 DEF WorkerInit
  <2> QED
    BY <1>0, <2>1, <2>2, InitialisedModes
<1>2. ASSUME NEW w \in Workers, FunctionEnvironmentReload(w)
      PROVE  Modes' /\ HttpModeAgreed'
  <2>1. PICK out \in Initialised([worker[w] EXCEPT !.phase = "serving"], site) :
            Become(w, out.state) /\ address' = [address EXCEPT ![w] = out.address]
    BY <1>2 DEF FunctionEnvironmentReload
  <2>2. worker[w].phase \in {"created", "placeholder"} /\ UNCHANGED <<site, invoked>>
    BY <1>2 DEF FunctionEnvironmentReload
  <2> QED
    BY <1>0, <2>1, <2>2, InitialisedModes
<1>3. ASSUME NEW w \in Workers, FunctionsMetadata(w)
      PROVE  Modes' /\ HttpModeAgreed'
  <2>1. Live(worker[w]) /\ worker[w].phase = "serving" /\ EnvOf(w) = site /\ site \in AllSites
    BY <1>3 DEF FunctionsMetadata, Live, IInv, TypeOK, EnvOf, AllSites
  <2>2. PICK c \in IF site.init_indexing = "true" THEN {worker[w]}
                   ELSE {Saved(end) : end \in load_function_metadata(worker[w], site)} :
            Become(w, c)
    BY <1>3 DEF FunctionsMetadata
  <2>3. c.phase = worker[w].phase /\ Steady(worker[w], c, site)
    <3>1. CASE site.init_indexing = "true"
      BY <2>2, <3>1, SteadySelf
    <3>2. CASE site.init_indexing # "true"
      <4>1. PICK end \in load_function_metadata(worker[w], site) : c = Saved(end)
        BY <2>2, <3>2
      <4> QED
        BY <2>1, <4>1, SavedSteady, SavedFollows DEF Follows
    <3> QED
      BY <3>1, <3>2
  <2>4. UNCHANGED <<site, address, invoked>>
    BY <1>3 DEF FunctionsMetadata
  <2> QED
    BY <1>0, <2>1, <2>2, <2>3, <2>4, SteadyStep
<1>4. ASSUME NEW w \in Workers, NEW name, FunctionLoad(w, name)
      PROVE  Modes' /\ HttpModeAgreed'
  <2>1. name \in Loadable(w)
    BY <1>4 DEF FunctionLoad
  <2>2. Live(worker[w]) /\ EnvOf(w) \in AllSites
    BY <2>1 DEF Loadable, Live, IInv, TypeOK, EnvOf, AllSites
  <2>3. PICK end \in Found(worker[w], EnvOf(w), name) : Become(w, end.state)
    BY <1>4 DEF FunctionLoad
  <2>4. Steady(worker[w], end.state, EnvOf(w))
    BY <2>2, FoundSteady
  <2>5. end.state.phase = worker[w].phase
    BY <2>2, <2>3, FoundFollows DEF Follows
  <2>6. UNCHANGED <<site, address, invoked>>
    BY <1>4 DEF FunctionLoad
  <2> QED
    BY <1>0, <2>2, <2>3, <2>4, <2>5, <2>6, SteadyStep
<1>5. ASSUME NEW w \in Workers, NEW name, Invocation(w, name)
      PROVE  Modes' /\ HttpModeAgreed'
  <2> DEFINE c == worker[w]
             s == EnvOf(w)
             i == [worker |-> w, function |-> name, streamed |-> http_v2_enabled(c, s),
                   forwarded |-> address[w], exception |-> c.exception]
  <2>1. /\ Become(w, Asked(c, s)) /\ invoked' \in {invoked, invoked \cup {i}}
        /\ UNCHANGED <<site, address>> /\ name \in loaded[w]
    BY <1>5 DEF Invocation
  <2>2. Live(c) /\ s \in AllSites
    BY <2>1 DEF Live, LoadedIsLive, IInv, TypeOK, EnvOf, AllSites
  <2>3. Modes'
    <3>1. Asked(c, s).phase = c.phase /\ Steady(c, Asked(c, s), s)
      BY <2>2, AskedFollows, AskedSteady DEF Follows
    <3> QED
      BY <2>1, <2>2, <3>1, SteadyStep
  <2>4. site.init_indexing \in {"true", "false"} /\ ~c.exception =>
            http_v2_enabled(c, s) = address[w]
    <3>1. ModeOf(c, address[w]) /\ address[w] \in BOOLEAN /\ c \in WorkerStates
      BY DEF Modes, IInv, TypeOK
    <3>2. CASE c.phase = "placeholder"
      <4>1. ~c.enabled /\ ~c.imported /\ ~address[w]
        BY <3>1, <3>2 DEF ModeOf
      <4>2. http_v2_enabled(c, s) = FALSE
        BY <3>1, <4>1 DEF http_v2_enabled, WorkerStates
      <4> QED
        BY <3>1, <4>1, <4>2
    <3>3. CASE c.phase = "serving"
      <4>1. s = site
        BY <3>3 DEF EnvOf
      <4>2. CASE site.init_indexing = "false"
        <5>1. ~c.enabled /\ ~address[w]
          BY <3>1, <4>2 DEF ModeOf
        <5>2. http_v2_enabled(c, s) = FALSE
          BY <3>1, <4>1, <4>2, <5>1 DEF http_v2_enabled, WorkerStates
        <5> QED
          BY <3>1, <5>1, <5>2
      <4>3. CASE site.init_indexing = "true"
        BY <3>1, <3>3, <4>3 DEF ModeOf, http_v2_enabled
      <4> QED
        BY <4>2, <4>3
    <3> QED
      BY <2>2, <3>2, <3>3 DEF Live
  <2>5. /\ i.streamed = http_v2_enabled(c, s) /\ i.forwarded = address[w]
        /\ i.exception = c.exception
    OBVIOUS
  <2> HIDE DEF i
  <2>6. HttpModeAgreed'
    BY <2>1, <2>4, <2>5 DEF HttpModeAgreed
  <2> QED
    BY <2>3, <2>6
<1>6. CASE UNCHANGED vars
    BY <1>0, <1>6 DEF vars, Modes, ModeOf
<1> QED
    BY <1>1, <1>2, <1>3, <1>4, <1>5, <1>6 DEF Next

LEMMA InitModes == Init => Modes /\ HttpModeAgreed
<1>1. ModeOf(Created, FALSE)
    BY DEF ModeOf, Created
<1> QED
    BY <1>1 DEF Init, Modes, HttpModeAgreed

\* An invocation waits for an HTTP call exactly when the host sends one, in
\* every worker, also one that began as a placeholder: if the setting says when
\* the app is indexed, no indexing failed, and placeholders do not stream.
THEOREM HttpModeAgreedAlways ==
    ASSUME PlainPlaceholders
    PROVE  Spec => []HttpModeAgreed
<1>1. IInv /\ Modes /\ HttpModeAgreed /\ [Next]_vars => Modes' /\ HttpModeAgreed'
    BY NextModes
<1> QED
    BY <1>1, InitModes, IInvAlways, PTL DEF Spec
=============================================================================
