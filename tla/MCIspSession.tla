---------------------------- MODULE MCIspSession ----------------------------
(***************************************************************************)
(* Small instances of IspSession.  The loader has been reset, or it has    *)
(* not and is where an earlier, interrupted session left it; a '?' of that *)
(* session may still be on its way.                                        *)
(***************************************************************************)
EXTENDS IspSession

Start(m, e, q) == [mode |-> m, echo |-> e, queue |-> q]

AnyStart == {Start("autobaud", TRUE, <<>>), Start("autobaud", TRUE, <<"?">>),
             Start("sync", TRUE, <<>>), Start("clock", TRUE, <<>>),
             Start("command", TRUE, <<>>), Start("command", FALSE, <<>>)}
=============================================================================
