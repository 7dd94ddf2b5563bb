---------------------------- MODULE MemoryPort ----------------------------
(***************************************************************************)
(* What the CPU side of the data cache is promised (the mem_* ports of     *)
(* dcache_core.v): one request at a time, answered after any delay; a read *)
(* is answered with the last value written to its address; a write takes   *)
(* effect when it is answered; flush and write-back change nothing a       *)
(* program reads.  There is no cache here.                                 *)
(***************************************************************************)

CONSTANTS
  Requests,         (* what the CPU side may ask                           *)
  NoRequest,        (* the request buffer when it is empty                 *)
  InitialContents,  (* contents[set][tag][word] at reset                   *)
  NoData            (* the data of an answer to anything but a read        *)

VARIABLES
  pending,   (* the request being served                                   *)
  contents,  (* what the address space holds                               *)
  answer     (* {} or {data}: the answer on the wires now                  *)

portVars == <<pending, contents, answer>>

Read(mem, r) == IF r.op = "read" THEN mem[r.set][r.tag][r.word] ELSE NoData

Write(mem, r) ==
  IF r.op = "write" THEN [mem EXCEPT ![r.set][r.tag][r.word] = r.data] ELSE mem

(* The answers there may be to r: none yet, or the right one.              *)
Answers(mem, r) ==
  IF r.op = "none" THEN {{}} ELSE {{}, {Read(mem, r)}}

PortInit ==
  /\ pending = NoRequest
  /\ contents = InitialContents
  /\ answer = {}

(* The pending request is not answered yet. *)
Wait ==
  /\ pending.op # "none"
  /\ answer = {}
  /\ answer' \in Answers(contents, pending)
  /\ UNCHANGED <<pending, contents>>

(* It is answered, or there is none: the next one is taken. *)
Take ==
  /\ pending.op = "none" \/ answer # {}
  /\ contents' = Write(contents, pending)
  /\ pending' \in Requests \cup {NoRequest}
  /\ answer' \in Answers(contents', pending')

PortSpec == PortInit /\ [][Wait \/ Take]_portVars

=============================================================================
