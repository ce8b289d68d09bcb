---------------------------- MODULE MCChatServer ----------------------------
(***************************************************************************)
(* Instances of ChatServer and ChatSeated for TLC.                         *)
(***************************************************************************)
EXTENDS ChatSeated, TLC
CONSTANTS u1, u2, u3

OneLine == {<<"text">>}
LineBuffers == {<<"text", "part">>}
CommandBuffers == {<<"name">>}
MixedBuffers == {<<"text", "part">>, <<"name">>}
=============================================================================
