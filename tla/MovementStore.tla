--------------------------- MODULE MovementStore ---------------------------
(***************************************************************************)
(* What the repositories of the inventory promise whoever uses them, as    *)
(* the double of them keeps it (InMemoryInventoryStore): a call to record  *)
(* is one step, skips what is recorded already, and hands back what it     *)
(* added and no more. Work that fails leaves nothing, which is no step.    *)
(***************************************************************************)

CONSTANTS
    Callers,
    Tenants,
    TenantOf,      \* the tenant each caller acts in
    Ids,           \* identifiers of movements
    Codes,         \* of products and of locations
    Declared,      \* what every tenant has declared at first
    NoRow,         \* what is held under a key never recorded
    Submissions    \* the sets of rows a call may bring

VARIABLES
    products,      \* codes declared, per tenant
    locations,
    movements,     \* by tenant and identifier
    returned       \* by the last call of each caller, until it has made use of it

vars == <<products, locations, movements, returned>>

-----------------------------------------------------------------------------
key(t, row) == <<t, row.id>>

Init ==
    /\ products = [t \in Tenants |-> Declared.products]
    /\ locations = [t \in Tenants |-> Declared.locations]
    /\ movements = [k \in Tenants \X Ids |-> NoRow]
    /\ returned = [c \in Callers |-> {}]

declareProduct(t, code) ==
    /\ products' = [products EXCEPT ![t] = @ \cup {code}]
    /\ UNCHANGED <<locations, movements, returned>>

declareLocation(t, code) ==
    /\ locations' = [locations EXCEPT ![t] = @ \cup {code}]
    /\ UNCHANGED <<products, movements, returned>>

\* The table's foreign keys: both within the tenant.
Referenced(t, row) == row.sku \in products[t] /\ row.place \in locations[t]

Fresh(t, rows) == {row \in rows : movements[key(t, row)] = NoRow}

\* No two rows of a call have one identifier.
record(c, rows) ==
    LET t == TenantOf[c]
        fresh == Fresh(t, rows)
    IN  /\ \A row \in rows : Referenced(t, row)
        /\ movements' = [k \in Tenants \X Ids |->
                            IF \E row \in fresh : key(t, row) = k
                            THEN CHOOSE row \in fresh : key(t, row) = k
                            ELSE movements[k]]
        /\ returned' = [returned EXCEPT ![c] = {row.id : row \in fresh}]
        /\ UNCHANGED <<products, locations>>

\* The caller has made its report, or is gone.
Used(c) ==
    /\ returned' = [returned EXCEPT ![c] = {}]
    /\ UNCHANGED <<products, locations, movements>>

Next ==
    \/ \E t \in Tenants, code \in Codes : declareProduct(t, code) \/ declareLocation(t, code)
    \/ \E c \in Callers :
        \/ \E rows \in Submissions : record(c, rows)
        \/ Used(c)

Spec == Init /\ [][Next]_vars

=============================================================================
