--------------------------- MODULE MCJsonlStorage ---------------------------
EXTENDS JsonlStorage

CONSTANTS a, b, main, thread, t    \* model values

\* Two entries, an operation started and finished, a second lane, a label.
SomeRequests ==
    {[op |-> "append_entry", lane |-> main, id |-> i, type |-> "message"] :
        i \in {a, b}}
    \cup {[op |-> "create_lane", lane |-> thread, leaf |-> x] : x \in {a, None}}
    \cup {[op |-> "append_record", lane |-> main, id |-> b,
           type |-> "operation_started", run |-> None],
          [op |-> "append_record", lane |-> main, id |-> a,
           type |-> "operation_finished", run |-> b],
          [op |-> "set_label", target |-> a, label |-> t]}

\* Fewer, for the runs with every fault.
FewRequests ==
    {[op |-> "append_entry", lane |-> main, id |-> a, type |-> "message"],
     [op |-> "set_name", name |-> t]}
=============================================================================
