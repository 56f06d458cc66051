--------------------------- MODULE AppController ---------------------------
(***************************************************************************)
(* The application state machine of app/app_controller.cpp as a function   *)
(* of state and event, and the outputs it promises for each state.         *)
(***************************************************************************)

AppStates == {"BootSafe", "Initializing", "IdleMuted", "PreparingStream",
              "Playing", "SwitchingRate", "Stopping", "FaultMuted"}

FaultEvents == {"Fault", "DmaFailure", "ClockFailure", "RepeatedUnderrun"}
QuietEvents == {"Detach", "Suspend"}

(* The switch of dispatch(): the edges that are taken in one state only. *)
Edges == {
    <<"BootSafe",        "Initialize",      "Initializing">>,
    <<"Initializing",    "Initialized",     "IdleMuted">>,
    <<"IdleMuted",       "StreamRequested", "PreparingStream">>,
    <<"PreparingStream", "AudioStable",     "Playing">>,
    <<"PreparingStream", "StopRequested",   "Stopping">>,
    <<"Playing",         "RateRequested",   "SwitchingRate">>,
    <<"Playing",         "StopRequested",   "Stopping">>,
    <<"SwitchingRate",   "StreamRequested", "PreparingStream">>,
    <<"Stopping",        "Stopped",         "IdleMuted">>,
    <<"FaultMuted",      "ClearFault",      "IdleMuted">> }

(* dispatch(): an event without an edge in the current state is ignored. *)
Dispatch(state, event) ==
    IF event \in FaultEvents THEN "FaultMuted"
    ELSE IF event \in QuietEvents THEN "IdleMuted"
    ELSE IF \E to \in AppStates : <<state, event, to>> \in Edges
         THEN CHOOSE to \in AppStates : <<state, event, to>> \in Edges
         ELSE state
=============================================================================
