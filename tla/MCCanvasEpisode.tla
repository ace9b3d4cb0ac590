-------------------------- MODULE MCCanvasEpisode --------------------------
(***************************************************************************)
(* An instance of CanvasEpisode for TLC.  The calls of a behaviour are     *)
(* those of one cast: around the text node, the media node, the runner or  *)
(* the sessions; the deletion of the episode is in each.  The last cast is *)
(* the engine of a turn (TurnEngine), which touches none of the episode's  *)
(* state.                                                                  *)
(***************************************************************************)
EXTENDS CanvasEpisode, TurnEngine

CONSTANT Engine  \* stands for the engine in a cast

VARIABLE cast

castVars == <<vars, engineVars, cast>>

OneText == {CHOOSE t \in Texts : TRUE}
OneCloser == {CHOOSE c \in Closers : TRUE}

Casts == {Texts \cup Edits \cup Deletions,
          OneText \cup Medias \cup Deletions \cup OneCloser,
          Runners \cup Medias \cup Deletions,
          Closers \cup Openers \cup Deletions,
          {Engine}}

\* The surface of the engine matters in its cast alone.
CastInit ==
    /\ Init /\ EngineInit
    /\ cast \in Casts
    /\ Engine \notin cast => surface = "canvas"

EpisodeNext ==
    \/ \E g \in Generations \cap cast : GenStep(g) \/ GenerationDies(g)
    \/ \E x \in Exclusives \cap cast : ExclStep(x) \/ ExclusiveDies(x)
    \/ \E r \in Runners \cap cast : RunnerStep(r) \/ SubmitStep(r)
    \/ \E g \in Calls \cap cast : Interrupted(g)
    \/ \E m \in Submissions \cap cast : TaskEnds(m) \/ ProjectRead(m) \/ ProjectWrite(m)
    \/ \E o \in Openers \cap cast : OpenCheck(o) \/ OpenSession(o)
    \/ \E e \in Edits \cap cast : EditRead(e) \/ EditCheck(e) \/ ApplyPatch(e)
    \/ MutexExpires \/ InflightExpires

CastNext ==
    /\ UNCHANGED cast
    /\ \/ EpisodeNext /\ UNCHANGED engineVars
       \/ Engine \in cast /\ EngineNext /\ UNCHANGED vars

\* A step of the episode, or of the engine, as a step of the instance.
OfEpisode(A) == A /\ UNCHANGED <<cast, engineVars>>
OfEngine(A) == Engine \in cast /\ A /\ UNCHANGED <<cast, vars>>

CastSpec ==
    /\ CastInit
    /\ [][CastNext]_castVars
    /\ \A x \in Exclusives : WF_castVars(x \in cast /\ OfEpisode(ExclStep(x)))
    /\ WF_castVars(OfEpisode(MutexExpires))
    /\ WF_castVars(OfEngine(EventLoop))

=============================================================================
