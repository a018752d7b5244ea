------------------------------ MODULE TwoTiny ------------------------------
(***************************************************************************)
(* two_tiny.c: every dynamic request opens lib/libvector.so, calls one of  *)
(* its functions and closes it again.  dlopen and dlclose count how often  *)
(* the library is open in the process; at 0 it is unloaded.                *)
(*                                                                         *)
(* The rest of the server is the common one of HttpFront, without stat.    *)
(***************************************************************************)
EXTENDS HttpFront

CONSTANT MaxLeaked  \* bound on the requests for unknown functions

ASSUME LeakAssumption == MaxLeaked \in Nat

VARIABLES
  refs,   \* how often the library is open
  leaked  \* how many requests have ended without dlclose

library == <<refs, leaked>>
vars    == <<front, library>>

DynamicStep(t, from, to) == Step(t, from, to) /\ server = "two_tiny"

LibraryInit == refs = 0 /\ leaked = 0

\* The head of the answer is sent and the library opened.
Dlopen(t) ==
  /\ DynamicStep(t, "dynamic", "dlsym")
  /\ refs' = refs + 1
  /\ UNCHANGED leaked

DlopenFails(t) == DynamicStep(t, "dynamic", "leave") /\ UNCHANGED library

\* The library has the function, or serve_dynamic sends a message and returns
\* as it is.  Mistake: the library is closed before the function is called.
DlsymClosing(t) ==
  /\ DynamicStep(t, "dlsym", "call")
  /\ refs' = refs - 1
  /\ UNCHANGED leaked

DlsymFinds(t) == DynamicStep(t, "dlsym", "call") /\ UNCHANGED library

DlsymFails(t) ==
  /\ DynamicStep(t, "dlsym", "leave")
  /\ leaked < MaxLeaked
  /\ leaked' = leaked + 1
  /\ UNCHANGED refs

\* The function returns.
CallReturns(t) == DynamicStep(t, "call", "dlclose") /\ UNCHANGED library

\* libvector.so has functions on vectors of numbers, which take a descriptor
\* and a string for two of them, and whatever is in the registers for the
\* third and for their length.
CallCrashes(t) ==
  /\ pc[t] = "call" /\ server = "two_tiny"
  /\ unix_error
  /\ UNCHANGED <<server, heap, open, disk, pc, locals, library>>

Dlclose(t) ==
  /\ DynamicStep(t, "dlclose", "leave")
  /\ refs' = refs - 1
  /\ UNCHANGED leaked

serve_dynamic(t) ==
  \/ Dlopen(t) \/ DlopenFails(t) \/ DlsymFinds(t) \/ DlsymFails(t)
  \/ CallReturns(t) \/ CallCrashes(t) \/ Dlclose(t)
=============================================================================
