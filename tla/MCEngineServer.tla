--------------------------- MODULE MCEngineServer ---------------------------
(* Instance of EngineServer: a restart, the owner's shutdown and a stranger's. *)
EXTENDS EngineServer

Well(kind, owner) ==
    [frame |-> "one", decodes |-> TRUE, schema |-> TRUE, signed |-> TRUE,
     kind |-> kind, owner |-> owner]

MCMessages ==
    {Well("restart", None), Well("shutdown", OwnerToken), Well("shutdown", "stranger")}
=============================================================================
