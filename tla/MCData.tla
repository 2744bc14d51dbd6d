------------------------------- MODULE MCData -------------------------------
(***************************************************************************)
(* Buffer and Logging, which share nothing: each moves while the other is  *)
(* as it was created.  Buffer has an initial vector of three bytes, one of *)
(* them the prepend area, so that few appends suffice to grow it and to    *)
(* move its bytes; bytes are 0 and 1, LF is 1 and CR LF is 0 1.            *)
(***************************************************************************)
EXTENDS Buffer, MCLogging

MCStrings == {<<1>>, <<0, 1>>, <<1, 0, 1>>}
MCPatterns == {<<1>>, <<0, 1>>}

DataInit == Init /\ LogInit
DataNext == \/ LogInit /\ logLevel = INFO /\ Next /\ UNCHANGED logVars
            \/ Init /\ LogNext /\ UNCHANGED vars
DataSpec == DataInit /\ [][DataNext]_<<vars, logVars>>
=============================================================================
