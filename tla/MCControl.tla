----------------------------- MODULE MCControl ------------------------------
(***************************************************************************)
(* The requests an enumeration makes: a command, the first 8 bytes of a    *)
(* descriptor, a descriptor of two packets, one of three, and replies      *)
(* shorter than what was asked for, one of them by full packets.           *)
(***************************************************************************)
EXTENDS Control

EnumerationRequests ==
  {[asked |-> 0, reply |-> 0],
   [asked |-> 8, reply |-> 8],
   [asked |-> 9, reply |-> 9],
   [asked |-> 18, reply |-> 18],
   [asked |-> 34, reply |-> 16]}
=============================================================================
