CONSTANTS B = 2
 Limit = 3
 Bits = 3
 Width = 2
 AmountDigits = 3
 Currencies <- Money
 Trusted = {"acme"}
 MaxWhenDepth = 9
 Paths <- SomePaths
 NumberOf <- Texts
SPECIFICATION PureSpec
INVARIANT SubfieldsOK
