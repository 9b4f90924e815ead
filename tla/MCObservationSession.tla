------------------------ MODULE MCObservationSession ------------------------
(* Two items of one origin and a third of another. *)
EXTENDS ObservationSession, TLC

Origins == <<"o1", "o1", "o2">>
OneOrigin == <<"o1">>
=============================================================================
