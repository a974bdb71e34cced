---------------------------- MODULE MCChatClient ----------------------------
(* A small instance of ChatClient: two accounts, one of them with two spellings. *)
EXTENDS ChatClient

CONSTANTS alice, bob, Alice_, alice_, bob_

AccountOf == [s \in Spelling |-> IF s = bob_ THEN bob ELSE alice]
============================================================================
