---------------------------- MODULE MCDescriptors ----------------------------
(* Descriptors with small tables and narrow ranges.                           *)
EXTENDS Descriptors

\* A file and a socket, two sockets, one socket twice.
MCPollLists == {<<3, 7>>, <<7, 8>>, <<8, 8>>}
==============================================================================
