-------------------------------- MODULE Ledger --------------------------------
(***************************************************************************)
(* What the trading engine promises its callers: one account, and fills    *)
(* that happen one at a time.  A fill moves cash, the position and the     *)
(* trade log together, computed from their values at that instant, and     *)
(* only when the side's intent and the cash balance permit it.  There are  *)
(* no sessions, locks, rejected orders or partial states here.             *)
(***************************************************************************)
EXTENDS PositionAccounting

CONSTANTS Symbols, Quantities, Prices, Charges, Balances, OrderIds

VARIABLES account,  \* [open, initial, cash, resets]
          holdings, \* [Symbols -> Position]
          fills     \* the trade log

ledgerVars == <<account, holdings, fills>>

LedgerInit ==
    /\ account = [open |-> FALSE, initial |-> 0, cash |-> 0, resets |-> 0]
    /\ holdings = [symbol \in Symbols |-> Flat]
    /\ fills = {}

Open(balance) ==
    /\ ~account.open
    /\ account' = [open |-> TRUE, initial |-> balance, cash |-> balance, resets |-> 0]
    /\ UNCHANGED <<holdings, fills>>

Reset(balance) ==
    /\ account.open
    /\ account' = [open |-> TRUE, initial |-> balance, cash |-> balance,
                   resets |-> account.resets + 1]
    /\ UNCHANGED <<holdings, fills>>

Fill(id, symbol, side, quantity, price, charges) ==
    /\ account.open
    /\ \A fill \in fills : fill.order < id
    /\ CanFill(account.cash, holdings[symbol], side, quantity, price, charges)
    /\ account' = [account EXCEPT !.cash = @ + CashDelta(side, quantity, price, charges)]
    /\ holdings' = [holdings EXCEPT ![symbol] =
                       AfterFill(@, side, quantity, price, charges)]
    /\ fills' = fills \cup
                  {FillRecord(holdings[symbol], id, symbol, side, quantity, price, charges,
                              account.resets)}

LedgerNext ==
    \/ \E balance \in Balances : Open(balance)
    \/ \E balance \in Balances : Reset(balance)
    \/ \E id \in OrderIds, symbol \in Symbols, side \in Side, quantity \in Quantities,
          price \in Prices, charges \in Charges :
           Fill(id, symbol, side, quantity, price, charges)

LedgerSpec == LedgerInit /\ [][LedgerNext]_ledgerVars
===============================================================================
