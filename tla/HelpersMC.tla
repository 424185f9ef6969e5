------------------------------- MODULE HelpersMC -------------------------------
(***************************************************************************)
(* The pieces of code that judge what a process did, in one model: the     *)
(* provider's helper, the authorized git, the script in the container and  *)
(* the qualification of an image.  They share nothing, so a behaviour is   *)
(* one of a single of them; the others stay where they start.              *)
(***************************************************************************)
EXTENDS RunLimiter, ProviderTransport, GitBlobReader, SmokeRunner

VARIABLE which

helperVars == <<which, limiterVars, transportVars, gitVars, smokeVars>>

HelpersInit ==
    /\ which \in {"limiter", "transport", "git", "smoke"}
    /\ LimiterInit /\ TransportInit /\ GitInit /\ SmokeInit
    /\ which # "limiter" => ws = "within"
    /\ which # "git" => exe = "authorized"
    /\ which # "smoke" => tool = "smoke" /\ host.image = CHOOSE i \in Images : TRUE

LimiterRuns ==
    /\ which = "limiter" /\ LimiterNext
    /\ UNCHANGED <<which, transportVars, gitVars, smokeVars>>

TransportRuns ==
    /\ which = "transport" /\ TransportNext
    /\ UNCHANGED <<which, limiterVars, gitVars, smokeVars>>

GitRuns ==
    /\ which = "git" /\ GitNext
    /\ UNCHANGED <<which, limiterVars, transportVars, smokeVars>>

SmokeRuns ==
    /\ which = "smoke" /\ SmokeNext
    /\ UNCHANGED <<which, limiterVars, transportVars, gitVars>>

HelpersNext == LimiterRuns \/ TransportRuns \/ GitRuns \/ SmokeRuns

\* Each has the fairness that its own module states.
HelpersSpec ==
    /\ HelpersInit /\ [][HelpersNext]_helperVars
    /\ WF_limiterVars(which = "limiter" /\ LimiterStep /\ UNCHANGED <<which, transportVars, gitVars, smokeVars>>)
    /\ WF_limiterVars(which = "limiter" /\ ~LimiterEnded /\ Die /\ UNCHANGED <<which, transportVars, gitVars, smokeVars>>)
    /\ WF_transportVars(which = "transport" /\ CallerStep /\ UNCHANGED <<which, limiterVars, gitVars, smokeVars>>)
    /\ WF_transportVars(which = "transport" /\ WriterWrites /\ UNCHANGED <<which, limiterVars, gitVars, smokeVars>>)
    /\ WF_transportVars(which = "transport" /\ ReaderReads /\ UNCHANGED <<which, limiterVars, gitVars, smokeVars>>)
    /\ WF_gitVars(which = "git" /\ ReaderStep /\ UNCHANGED <<which, limiterVars, transportVars, smokeVars>>)
    /\ WF_gitVars(which = "git" /\ Collect /\ UNCHANGED <<which, limiterVars, transportVars, smokeVars>>)

\* run_limited: an export is one state of the workspace, within the limits, and nothing
\* is left that could change it (Alone, ExportSound).
LimiterSound == Alone /\ ExportSound

\* The provider subprocess: an answer is used whole or not at all, is not thrown away by
\* the order in which things end, and the helper is gone after the call (ReturnedWhole,
\* GoodAnswerKept, HelperGone). The authorized git: what runs is what was hashed, what is
\* accepted is what git printed, and git is gone after the call (SpawnedAuthorized,
\* AcceptedWhole, GitGone).
ChildrenSound ==
    /\ ReturnedWhole /\ GoodAnswerKept /\ HelperGone
    /\ SpawnedAuthorized /\ AcceptedWhole /\ GitGone

\* All three waits come to an end: the limiter's, the provider call's and the git
\* reader's (LimiterEnds, CallEnds, GitEnds, each where it is the behaviour at all).
WaitsEnd ==
    /\ LimiterEnds
    /\ which = "transport" => CallEnds
    /\ which = "git" => GitEnds
=============================================================================
