----------------------------- MODULE MCMoveServer -----------------------------
(* Small values for the constants of MoveServer.                           *)
EXTENDS MoveServer

NobodysKey == <<0, 0>>
NoHold == {{}}
OneHold == {{}, {1}}
Nothing == {}
Still == {FALSE}

Request(dx, button, wait) == [dx |-> dx, button |-> button, wait |-> wait]
InPlace == {Request(0, NoButton, FALSE)}
WithClick == {Request(1, 1, TRUE)}
ClickOnly == {Request(0, 1, FALSE)}
Both == InPlace \cup WithClick
=============================================================================
