-------------------------- MODULE MCPitchSequences -------------------------
(* One log in which two seasons of training follow each other.             *)
EXTENDS PitchSequences

MCSeasonOf == <<1, 2, 3, 4, 5>>
MCGameOf   == <<1, 2, 3, 4, 5>>
MCLogs     == {[pitcher |-> <<1, 1, 1, 1, 1>>, type |-> <<"FF", "SL", "FF", "SL", "FF">>,
                known |-> <<TRUE, TRUE, TRUE, TRUE, TRUE>>]}
MCRequests == {DefaultRequest}
=============================================================================
