----------------------- MODULE MCCassandraRepository -----------------------
(* Instances of CassandraRepository for TLC. *)
EXTENDS CassandraRepository

Keys == {<<1, 1>>, <<1, 2>>, <<1, 3>>, <<2, 1>>}

Model(ttl, timestamp, metadata) ==
    [ttl |-> ttl, timestamp |-> timestamp, metadata |-> metadata, columns |-> KeyColumns]

\* Structs that lack a field for a key column.
Lacking(column) == [Model(None, 0, TRUE) EXCEPT !.columns = KeyColumns \ {column}]

Plain == Model(None, 0, TRUE)
Call(op, key, model) == [op |-> op, key |-> key, model |-> model]

Changes ==
    {Call(op, k, Plain) : op \in {"create", "save", "delete"}, k \in Keys}
    \cup {Call(op, <<1, 2>>, Model(1, 0, TRUE)) : op \in {"create", "save"}}
    \cup {Call(op, <<1, 2>>, Model(None, 7, FALSE)) : op \in {"create", "save", "delete"}}
    \cup {Call("delete", <<1, 2>>, Lacking(column)) : column \in KeyColumns}
    \cup {Call("save", <<1, 2>>, Lacking("clustering"))}

Asked == {[by |-> "token", limit |-> 1], [by |-> "token", limit |-> 2],
          [by |-> "builder", limit |-> 1], [by |-> "builder", limit |-> 0],
          [by |-> "result", limit |-> 1], [by |-> "result", limit |-> 2]}

\* Two callers, or one and a reader.
Few == call["b"] = Idle \/ \A r \in Reader : reader[r] = NotReading

=============================================================================
