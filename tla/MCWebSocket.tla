---------------------------- MODULE MCWebSocket ----------------------------
(* Small instances of WebSocket: places 1 and 2, each in a coarse cell they *)
(* share and in a fine one of its own.  A client covers both fine cells and *)
(* has place 1 within its radius.                                           *)
EXTENDS WebSocket

CONSTANTS ca, u1, u2, u3

MCTypeOf  == [u \in Update |-> IF u = u3 THEN "pilot" ELSE "thermal"]
MCPlaceOf == [u \in Update |-> IF u = u2 THEN 2 ELSE 1]
MCCell    == {"x", "x1", "x2"}
MCCellsAt == <<{"x", "x1"}, {"x", "x2"}>>
MCCover   == [c \in Client |-> {"x1", "x2"}]
MCArea    == [c \in Client |-> {1}]
=============================================================================
