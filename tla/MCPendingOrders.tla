--------------------------- MODULE MCPendingOrders ---------------------------
EXTENDS OrdersHistory, TLC

Symmetry == Permutations(Users) \cup Permutations(Items)
            \cup Permutations(Orders)
=============================================================================
