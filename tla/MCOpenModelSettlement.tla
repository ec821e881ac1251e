----------------------- MODULE MCOpenModelSettlement -----------------------
EXTENDS OpenModelSettlement

\* Addresses and tokens as the configurations name them.
CONSTANTS alice, bob, provider, deployer, lost, fil, usd

Use(user, sp, amount, token) ==
    [user |-> user, sp |-> sp, amount |-> amount, token |-> token,
     requests |-> 1, tokens |-> 10 * amount]

\* One user settles twice in a batch: the second item may find too little.
RefundBatches ==
    {<<Use(alice, provider, 2, fil), Use(alice, provider, 1, fil)>>}

\* An owner that is a provider, and a provider paid in FIL and in an ERC20.
CallbackBatches ==
    {<<Use(alice, alice, 4, fil), Use(alice, bob, 1, fil), Use(alice, bob, 1, usd)>>}

\* A share that is frozen, a charge too small for a fee, an item without sp.
RoleBatches ==
    {<<Use(deployer, bob, 4, fil)>>,
     <<Use(deployer, NoOne, 2, fil), Use(deployer, bob, 1, fil)>>}
=============================================================================
