----------------------------- MODULE MCRegistry -----------------------------
(* Registry.tla on small instances. *)
EXTENDS Registry

CONSTANTS hero, villain, daily, weekly, quest, raid     \* the game's names

MCExternalIds == {hero, villain}
MCRuleIds == {daily, weekly}
MCSources == {quest, raid}
MCAmounts == {0, 1, 3}

SignsUp(key, cash) ==
    [Blank EXCEPT !.kind = "SignUp", !.key = key, !.cash = cash]

\* Everybody arrives, on their own or brought by the game.  A restart follows
\* no refusal that is half done.
Arrivals ==
    [past |-> <<>>, sign_up_cash |-> {0}, budgets |-> 0, restarts |-> 1,
     kinds |-> {"CreateUser", "OpenAccount", "SignUp", "JoinUser",
                "ProvisionPlayer"}]

\* Credentials of the game's servers come and go.
Credentials ==
    [past |-> <<>>, sign_up_cash |-> {0}, budgets |-> 0, restarts |-> 1,
     kinds |-> {"CreateUser", "SignUp", "CreateService", "RevokeService"}]

\* Two traders are paid out of budgets until the treasury is dry, and budgets
\* are asked for when the book is full.
Rewards ==
    [past |-> <<SignsUp(1, 0), SignsUp(2, 1)>>, sign_up_cash |-> {},
     budgets |-> MAX_BUDGETS + 1, restarts |-> 0,
     kinds |-> {"Mint", "MintToTrader", "Burn", "CreateBudget", "FundBudget",
                "SetRewardRule", "RemoveRewardRule", "PayReward"}]

\* Sign-ups that ask for more than the treasury has, or than may be moved;
\* the users they leave go on to use what they were never given.
DryFaucet ==
    [past |-> <<>>, sign_up_cash |-> MCAmounts, budgets |-> 0, restarts |-> 0,
     kinds |-> {"SignUp", "OpenAccount", "JoinUser", "ProvisionPlayer"}]

MCFlows == {Arrivals, Credentials, Rewards, DryFaucet}
=============================================================================
